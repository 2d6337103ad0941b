-------------------------- MODULE StandaloneProofs --------------------------
(***************************************************************************)
(* Proofs about three components that share nothing: Timer, for every set  *)
(* of tasks, every choice of delays and every bound on the clock; Patcher, *)
(* as instantiated in MCPatcher, for every set of paths, every server that *)
(* is as assumed there, every client and every bound on crashes and on the *)
(* patch() calls of a session; and SliceUnit, as instantiated in MCSlice,  *)
(* for all names, references and builtin types that are as assumed there   *)
(* and every bound on the definitions of a unit.                           *)
(***************************************************************************)
EXTENDS Timer, MCPatcher, MCSlice, SequenceTheorems, WellFoundedInduction, TLAPS

-----------------------------------------------------------------------------
(* Timer *)

\* The keys of the map after an insertion or update, and after an erasure.
LEMMA PutDomain ==
    ASSUME NEW m, NEW t, NEW time
    PROVE  DOMAIN Put(m, t, time) = DOMAIN m \cup {t}
  BY DEF Put

LEMMA DropDomain ==
    ASSUME NEW m, NEW t
    PROVE  DOMAIN Drop(m, t) = DOMAIN m \ {t}
  BY DEF Drop

\* Insertion adds at most the inserted token.
LEMMA InsertType ==
    ASSUME NEW toks, NEW tok
    PROVE  toks \subseteq Insert(toks, tok)
           /\ Insert(toks, tok) \subseteq toks \cup {tok}
  BY DEF Insert

\* run()'s search for a due token keeps the types, whatever the loop's
\* queue and map are.
LEMMA TakeTokenType ==
    ASSUME NEW toks, NEW tks,
           toks \subseteq Token, DOMAIN tks \subseteq Tasks,
           TakeToken(toks, tks)
    PROVE  /\ DOMAIN tasks' \subseteq Tasks
           /\ tokens' \subseteq Token
           /\ wakeUp' \in {wakeUp} \cup Nat
           /\ pc' \in {"run", "timed"}
           /\ token' \subseteq Token
<1>1. PICK k \in First(toks) : 
        IF k.time <= now
        THEN /\ token' = {k}
             /\ tokens' = toks \ {k}
             /\ tasks' = IF k.delay = 0 THEN Drop(tks, k.task) ELSE tks
             /\ pc' = "run"
             /\ UNCHANGED wakeUp
        ELSE /\ wakeUp' = k.time
             /\ pc' = "timed"
             /\ token' = {}
             /\ tokens' = toks
             /\ tasks' = tks
  BY DEF TakeToken
<1>2. k \in Token
  BY DEF First
<1>3. DOMAIN Drop(tks, k.task) \subseteq Tasks
  BY DropDomain
<1> QED
  BY <1>1, <1>2, <1>3 DEF Token

\* Re-scheduling a repeated task keeps the types of both queues.
LEMMA RescheduledType ==
    ASSUME TypeOK
    PROVE  /\ RescheduledTokens \subseteq Token
           /\ DOMAIN RescheduledTasks = DOMAIN tasks
<1>1. ASSUME Repeats # {}
      PROVE  \E k \in Repeats :
                RescheduledTokens = Insert(tokens, [k EXCEPT !.time = now + k.delay])
  BY <1>1 DEF RescheduledTokens
<1>2. ASSUME NEW k \in Repeats
      PROVE  [k EXCEPT !.time = now + k.delay] \in Token
  BY DEF Repeats, TypeOK, Token
<1>3. RescheduledTokens \subseteq Token
  <2>1. CASE Repeats = {}
    BY <2>1 DEF RescheduledTokens, TypeOK
  <2>2. CASE Repeats # {}
    <3>1. PICK k \in Repeats :
            RescheduledTokens = Insert(tokens, [k EXCEPT !.time = now + k.delay])
      BY <2>2, <1>1
    <3>2. [k EXCEPT !.time = now + k.delay] \in Token
      BY <1>2
    <3> QED
      BY <3>1, <3>2, InsertType DEF TypeOK
  <2> QED BY <2>1, <2>2
<1> QED
  BY <1>3 DEF RescheduledTasks

\* Scheduling a task of either kind keeps the types.
LEMMA AddTaskType ==
    ASSUME TypeOK, NEW t \in Tasks, NEW STATE time, time \in Nat \ {0},
           NEW delay \in Nat,
           AddTask(t, time, delay)
    PROVE  TypeOK'
<1>1. [time |-> time, delay |-> delay, task |-> t] \in Token
  BY DEF Token
<1>2. tokens' \subseteq Token
  BY <1>1, InsertType DEF AddTask, TypeOK
<1>3. DOMAIN tasks' \subseteq Tasks
  <2>1. tasks' = Put(tasks, t, time)
    BY DEF AddTask
  <2>2. DOMAIN Put(tasks, t, time) = DOMAIN tasks \cup {t}
    BY PutDomain
  <2> QED
    BY <2>1, <2>2 DEF TypeOK
<1>4. pc' \in {"top", "idle", "timed", "woken", "run", "exit"}
  BY DEF AddTask, TypeOK, Notify
<1> QED
  BY <1>2, <1>3, <1>4 DEF AddTask, TypeOK

\* Type correctness of the timer: the two queues, the thread's token and its
\* position are always of their types.
THEOREM TimerTypeOK == Spec => []TypeOK
<1> USE TimerAssumption
<1>1. Init => TypeOK
  <2> SUFFICES ASSUME Init PROVE TypeOK
    OBVIOUS
  <2>1. DOMAIN tasks = {}
    BY DEF Init
  <2>2. now \in Nat \ {0} /\ wakeUp \in Nat
    BY DEF Init, NoTime
  <2> QED
    BY <2>1, <2>2 DEF Init, TypeOK
<1>2. TypeOK /\ [Next]_vars => TypeOK'
  <2> SUFFICES ASSUME TypeOK, [Next]_vars PROVE TypeOK'
    OBVIOUS
  <2>1. ASSUME NEW t \in Tasks, Schedule(t) PROVE TypeOK'
    <3>1. PICK d \in OneShotDelays : AddTask(t, now + d, 0)
      BY <2>1 DEF Schedule
    <3>2. d \in Nat /\ 0 \in Nat /\ now + d \in Nat \ {0}
      BY DEF TypeOK
    <3> QED
      BY <3>1, <3>2, AddTaskType
  <2>2. ASSUME NEW t \in Tasks, ScheduleRepeated(t) PROVE TypeOK'
    <3>1. PICK d \in RepeatDelays : AddTask(t, now + d, d)
      BY <2>2 DEF ScheduleRepeated
    <3>2. d \in Nat /\ now + d \in Nat \ {0}
      BY DEF TypeOK
    <3> QED
      BY <3>1, <3>2, AddTaskType
  <2>4. ASSUME NEW t \in Tasks, Cancel(t) PROVE TypeOK'
    BY <2>4, DropDomain DEF Cancel, TypeOK, Erase
  <2>5. CASE Destroy
    BY <2>5 DEF Destroy, TypeOK, Notify
  <2>6. CASE LoopTop
    <3>1. CASE destroyed
      BY <2>6, <3>1 DEF LoopTop, TypeOK
    <3>2. CASE ~destroyed /\ RescheduledTokens = {}
      BY <2>6, <3>2 DEF LoopTop, TypeOK, NoTime
    <3>3. CASE ~destroyed /\ RescheduledTokens # {}
      <4>1. TakeToken(RescheduledTokens, RescheduledTasks)
            /\ UNCHANGED <<now, destroyed, retired>>
        BY <2>6, <3>3 DEF LoopTop
      <4> QED
        BY <4>1, RescheduledType, TakeTokenType DEF TypeOK
    <3> QED BY <3>1, <3>2, <3>3 DEF TypeOK
  <2>7. CASE Woken
    <3>1. CASE destroyed \/ tokens = {}
      BY <2>7, <3>1 DEF Woken, TypeOK
    <3>2. CASE ~destroyed /\ tokens # {}
      <4>1. TakeToken(tokens, tasks) /\ UNCHANGED <<now, destroyed, retired>>
        BY <2>7, <3>2 DEF Woken
      <4> QED
        BY <4>1, TakeTokenType DEF TypeOK
    <3> QED BY <3>1, <3>2 DEF TypeOK
  <2>8. CASE WaitTimeout
    BY <2>8 DEF WaitTimeout, TypeOK
  <2>9. CASE SpuriousWakeUp
    BY <2>9 DEF SpuriousWakeUp, TypeOK
  <2>10. CASE TaskReturns
    BY <2>10 DEF TaskReturns, TypeOK
  <2>11. CASE Tick
    BY <2>11 DEF Tick, TypeOK
  <2>12. CASE UNCHANGED vars
    BY <2>12 DEF vars, TypeOK
  <2> QED
    BY <2>1, <2>2, <2>4, <2>5, <2>6, <2>7, <2>8, <2>9, <2>10, <2>11, <2>12
    DEF Next
<1> QED
  BY <1>1, <1>2, PTL DEF Spec

-----------------------------------------------------------------------------
(* The timer thread does not oversleep.                                    *)

\* The thread waits without a deadline exactly as long as it has announced none,
\* which is what schedule() looks at when it decides whether to notify.
WakeUpKnown == pc = "idle" => wakeUp = NoTime

Sleeping == TypeOK /\ NoOversleep /\ WakeUpKnown

\* After its search the thread runs a task, or waits for the earliest token.
LEMMA TakeTokenSleeps ==
    ASSUME NEW toks, NEW tks, TakeToken(toks, tks)
    PROVE  NoOversleep' /\ WakeUpKnown'
<1>1. PICK k \in First(toks) :
        IF k.time <= now
        THEN pc' = "run"
        ELSE wakeUp' = k.time /\ pc' = "timed" /\ tokens' = toks
  BY DEF TakeToken
<1>2. \A u \in toks : k.time <= u.time
  BY DEF First
<1> QED
  BY <1>1, <1>2 DEF NoOversleep, WakeUpKnown

LEMMA AddTaskSleeps ==
    ASSUME Sleeping, NEW t, NEW STATE time, NEW delay, time \in Nat,
           AddTask(t, time, delay)
    PROVE  NoOversleep' /\ WakeUpKnown'
<1>1. tokens' \subseteq tokens \cup {[time |-> time, delay |-> delay, task |-> t]}
  BY InsertType DEF AddTask
<1>2. CASE wakeUp = NoTime \/ time < wakeUp
  BY <1>2 DEF AddTask, Notify, NoOversleep, WakeUpKnown
<1>3. CASE ~(wakeUp = NoTime \/ time < wakeUp)
  <2>1. pc' = pc /\ wakeUp' = wakeUp /\ pc # "idle"
    BY <1>3 DEF AddTask, Sleeping, WakeUpKnown
  <2>2. wakeUp <= time
    BY <1>3 DEF Sleeping, TypeOK
  <2>3. pc = "timed" => \A k \in tokens' : wakeUp <= k.time
    BY <1>1, <2>2 DEF Sleeping, NoOversleep
  <2> QED
    BY <2>1, <2>3 DEF NoOversleep, WakeUpKnown
<1> QED
  BY <1>2, <1>3

\* No lost wake-up, for any tasks and delays: the thread is never asleep past the
\* time of a queued token, whichever way schedules, cancellations and spurious
\* wake-ups interleave with its loop.
THEOREM TimerNeverOversleeps == Spec => []NoOversleep
<1> USE TimerAssumption
<1>1. Init => NoOversleep /\ WakeUpKnown
  BY DEF Init, NoOversleep, WakeUpKnown
<1>2. TypeOK /\ NoOversleep /\ WakeUpKnown /\ [Next]_vars
        => NoOversleep' /\ WakeUpKnown'
  <2> SUFFICES ASSUME Sleeping, [Next]_vars PROVE NoOversleep' /\ WakeUpKnown'
    BY DEF Sleeping
  <2>1. ASSUME NEW t \in Tasks, Schedule(t) PROVE NoOversleep' /\ WakeUpKnown'
    <3>1. PICK d \in OneShotDelays : AddTask(t, now + d, 0)
      BY <2>1 DEF Schedule
    <3>2. now + d \in Nat
      BY DEF TypeOK, Sleeping
    <3> QED
      BY <3>1, <3>2, AddTaskSleeps
  <2>2. ASSUME NEW t \in Tasks, ScheduleRepeated(t) PROVE NoOversleep' /\ WakeUpKnown'
    <3>1. PICK d \in RepeatDelays : AddTask(t, now + d, d)
      BY <2>2 DEF ScheduleRepeated
    <3>2. now + d \in Nat
      BY DEF TypeOK, Sleeping
    <3> QED
      BY <3>1, <3>2, AddTaskSleeps
  <2>3. ASSUME NEW t \in Tasks, Cancel(t) PROVE NoOversleep' /\ WakeUpKnown'
    BY <2>3 DEF Cancel, Erase, Sleeping, NoOversleep, WakeUpKnown
  <2>4. CASE Destroy
    BY <2>4 DEF Destroy, Notify, NoOversleep, WakeUpKnown
  <2>5. CASE LoopTop
    <3>1. tokens \subseteq RescheduledTokens
      BY InsertType DEF RescheduledTokens
    <3>2. CASE ~destroyed /\ RescheduledTokens # {}
      <4>1. TakeToken(RescheduledTokens, RescheduledTasks)
        BY <2>5, <3>2 DEF LoopTop
      <4> QED
        BY <4>1, TakeTokenSleeps
    <3>3. CASE destroyed \/ RescheduledTokens = {}
      BY <2>5, <3>1, <3>3 DEF LoopTop, NoOversleep, WakeUpKnown
    <3> QED
      BY <3>2, <3>3 DEF Sleeping, TypeOK
  <2>6. CASE Woken
    BY <2>6, TakeTokenSleeps DEF Woken, NoOversleep, WakeUpKnown
  <2>7. CASE WaitTimeout \/ SpuriousWakeUp \/ TaskReturns
    BY <2>7 DEF WaitTimeout, SpuriousWakeUp, TaskReturns, NoOversleep, WakeUpKnown
  <2>8. CASE Tick \/ UNCHANGED vars
    BY <2>8 DEF Tick, vars, Sleeping, NoOversleep, WakeUpKnown
  <2> QED
    BY <2>1, <2>2, <2>3, <2>4, <2>5, <2>6, <2>7, <2>8 DEF Next
<1> QED
  BY <1>1, <1>2, TimerTypeOK, PTL DEF Spec

-----------------------------------------------------------------------------
(* The two queues agree, as long as a repeated task that was cancelled is  *)
(* not scheduled again.                                                    *)

\* The thread works for at most one token, and for none while it waits.
OneToken == \A j, k \in token : j = k
WaitsFree == pc \in {"idle", "timed", "woken"} => token = {}

\* A task has at most one token in the queue.
OnePerTask == \A j, k \in tokens : j.task = k.task => j = k

\* A repeated task that runs, or has just run, is scheduled and has no token in
\* the queue, or it was cancelled.
RunningRepeats ==
    \A k \in token : k.delay # 0 =>
        /\ k.task \in DOMAIN tasks => \A j \in tokens : j.task # k.task
        /\ k.task \notin DOMAIN tasks => k.task \in retired \/ destroyed

QueueInv == QueuesAgree /\ OneToken /\ WaitsFree /\ OnePerTask /\ RunningRepeats

\* A queue and a map that agree, when no task runs.
Agree(toks, tks) ==
    /\ \A k \in toks : k.task \in DOMAIN tks /\ tks[k.task] = k.time
    /\ \A t \in DOMAIN tks : \E k \in toks : k.task = t /\ k.time = tks[t]
    /\ \A j, k \in toks : j.task = k.task => j = k

\* The search for a due token takes agreeing queues to agreeing queues.
LEMMA TakeTokenAgrees ==
    ASSUME NEW toks, NEW tks, Agree(toks, tks), TakeToken(toks, tks)
    PROVE  QueueInv'
<1>1. PICK k \in First(toks) :
        IF k.time <= now
        THEN /\ token' = {k}
             /\ tokens' = toks \ {k}
             /\ tasks' = IF k.delay = 0 THEN Drop(tks, k.task) ELSE tks
             /\ pc' = "run"
        ELSE /\ pc' = "timed"
             /\ token' = {}
             /\ tokens' = toks
             /\ tasks' = tks
  BY DEF TakeToken
<1>2. k \in toks
  BY DEF First
<1>3. CASE ~(k.time <= now)
  BY <1>1, <1>3 DEF Agree, QueueInv, QueuesAgree, OneToken, WaitsFree, OnePerTask,
                    RunningRepeats
<1>4. CASE k.time <= now
  <2>1. \A j \in tokens' : j \in toks /\ j.task # k.task
    BY <1>1, <1>2, <1>4 DEF Agree
  <2>2. DOMAIN tasks' = IF k.delay = 0 THEN DOMAIN tks \ {k.task} ELSE DOMAIN tks
    BY <1>1, <1>4 DEF Drop
  <2>3. \A t \in DOMAIN tasks' : t \in DOMAIN tks /\ tasks'[t] = tks[t]
    BY <1>1, <1>4 DEF Drop
  <2>4. QueuesAgree'
    <3>1. ASSUME NEW j \in tokens' PROVE j.task \in DOMAIN tasks' /\ tasks'[j.task] = j.time
      BY <2>1, <2>2, <2>3 DEF Agree
    <3>2. ASSUME NEW t \in DOMAIN tasks'
          PROVE  \/ \E j \in tokens' : j.task = t /\ j.time = tasks'[t]
                 \/ \E j \in token' : j.task = t /\ j.delay # 0
      <4>1. CASE t = k.task
        BY <1>1, <1>4, <2>2, <4>1
      <4>2. CASE t # k.task
        <5>1. PICK j \in toks : j.task = t /\ j.time = tks[t]
          BY <2>3 DEF Agree
        <5>2. j \in tokens'
          BY <1>1, <1>4, <4>2, <5>1
        <5> QED
          BY <2>3, <5>1, <5>2
      <4> QED
        BY <4>1, <4>2
    <3> QED
      BY <3>1, <3>2 DEF QueuesAgree
  <2>5. OneToken' /\ WaitsFree'
    BY <1>1, <1>4 DEF OneToken, WaitsFree
  <2>6. OnePerTask'
    BY <2>1 DEF Agree, OnePerTask
  <2>7. RunningRepeats'
    BY <1>1, <1>2, <1>4, <2>1, <2>2 DEF Agree, RunningRepeats
  <2> QED
    BY <2>4, <2>5, <2>6, <2>7 DEF QueueInv
<1> QED
  BY <1>3, <1>4

\* While no task runs, the queues agree.
LEMMA WaitingAgrees ==
    ASSUME QueueInv, token = {}
    PROVE  Agree(tokens, tasks)
  BY DEF QueueInv, QueuesAgree, OnePerTask, Agree

\* Re-scheduling the repeated task that just ran makes the queues agree.
LEMMA RescheduledAgrees ==
    ASSUME TypeOK, QueueInv
    PROVE  Agree(RescheduledTokens, RescheduledTasks)
<1>1. CASE Repeats = {}
  <2>1. RescheduledTokens = tokens
    BY <1>1 DEF RescheduledTokens
  <2>2. DOMAIN RescheduledTasks = DOMAIN tasks
        /\ \A t \in DOMAIN tasks : RescheduledTasks[t] = tasks[t]
    BY <1>1 DEF RescheduledTasks
  <2>3. \A t \in DOMAIN tasks : \E k \in tokens : k.task = t /\ k.time = tasks[t]
    BY <1>1 DEF Repeats, QueueInv, QueuesAgree
  <2> QED
    BY <2>1, <2>2, <2>3 DEF QueueInv, QueuesAgree, OnePerTask, Agree
<1>2. CASE Repeats # {}
  <2>1. PICK k \in Repeats : Repeats = {k} /\ k = CHOOSE x \in Repeats : TRUE
    BY <1>2 DEF Repeats, QueueInv, OneToken
  <2>2. k \in token /\ k.delay # 0 /\ k.task \in DOMAIN tasks /\ k \in Token
    BY <2>1 DEF Repeats, TypeOK
  <2>3. \A j \in tokens : j.task # k.task
    BY <2>2 DEF QueueInv, RunningRepeats
  <2> DEFINE new == [k EXCEPT !.time = now + k.delay]
  <2>4. new.task = k.task /\ new.time = now + k.delay
    BY <2>2 DEF Token
  <2>5. RescheduledTokens = tokens \cup {new}
    <3>1. RescheduledTokens = Insert(tokens, new)
      BY <1>2, <2>1 DEF RescheduledTokens
    <3>2. ~ \E t \in tokens : SameToken(t, new)
      BY <2>3, <2>4 DEF SameToken
    <3> QED
      BY <3>1, <3>2 DEF Insert
  <2>6. DOMAIN RescheduledTasks = DOMAIN tasks
    BY DEF RescheduledTasks
  <2>7. RescheduledTasks[k.task] = new.time
    BY <2>1, <2>2, <2>4 DEF RescheduledTasks
  <2>8. \A t \in DOMAIN tasks : t # k.task => RescheduledTasks[t] = tasks[t]
    BY <2>1 DEF RescheduledTasks
  <2>9. \A j \in token : j = k
    BY <2>2 DEF QueueInv, OneToken
  <2> HIDE DEF new
  <2>10. \A j \in RescheduledTokens :
            j.task \in DOMAIN RescheduledTasks /\ RescheduledTasks[j.task] = j.time
    BY <2>2, <2>3, <2>4, <2>5, <2>6, <2>7, <2>8 DEF QueueInv, QueuesAgree
  <2>11. \A t \in DOMAIN RescheduledTasks :
            \E j \in RescheduledTokens : j.task = t /\ j.time = RescheduledTasks[t]
    <3> SUFFICES ASSUME NEW t \in DOMAIN tasks
                 PROVE  \E j \in tokens \cup {new} : j.task = t /\ j.time = RescheduledTasks[t]
      BY <2>5, <2>6
    <3>1. CASE t = k.task
      BY <2>4, <2>7, <3>1
    <3>2. CASE t # k.task
      <4>1. PICK j \in tokens : j.task = t /\ j.time = tasks[t]
        BY <2>9, <3>2 DEF QueueInv, QueuesAgree
      <4> QED
        BY <2>8, <3>2, <4>1
    <3> QED
      BY <3>1, <3>2
  <2>12. \A i, j \in RescheduledTokens : i.task = j.task => i = j
    BY <2>3, <2>4, <2>5 DEF QueueInv, OnePerTask
  <2> QED
    BY <2>10, <2>11, <2>12 DEF Agree
<1> QED
  BY <1>1, <1>2

\* Scheduling a task: it is in neither queue and, if it is the repeated task that
\* runs, it was cancelled and may not be scheduled again.
LEMMA AddTaskAgrees ==
    ASSUME QueueInv, NEW t, NEW STATE time, NEW delay, AddTask(t, time, delay),
           t \notin retired
    PROVE  QueueInv'
<1> DEFINE new == [time |-> time, delay |-> delay, task |-> t]
<1>1. new.task = t /\ new.time = time
  OBVIOUS
<1>2. t \notin DOMAIN tasks /\ ~destroyed /\ tasks' = Put(tasks, t, time)
      /\ tokens' = Insert(tokens, new)
  BY DEF AddTask
<1>3. \A j \in tokens : j.task # t
  BY <1>2 DEF QueueInv, QueuesAgree
<1>4. tokens' = tokens \cup {new}
  BY <1>1, <1>2, <1>3 DEF Insert, SameToken
<1> HIDE DEF new
<1>5. /\ DOMAIN tasks' = DOMAIN tasks \cup {t}
      /\ tasks'[t] = time
      /\ \A u \in DOMAIN tasks : tasks'[u] = tasks[u]
  BY <1>2 DEF Put
<1>6. token' = token /\ retired' = retired /\ destroyed' = destroyed
  BY DEF AddTask
<1>7. \A k \in token : k.delay # 0 => k.task # t
  BY <1>2 DEF QueueInv, RunningRepeats
<1>8. QueuesAgree'
  <2>1. \A k \in tokens' : k.task \in DOMAIN tasks' /\ tasks'[k.task] = k.time
    BY <1>1, <1>4, <1>5 DEF QueueInv, QueuesAgree
  <2>2. ASSUME NEW u \in DOMAIN tasks'
        PROVE  \/ \E k \in tokens' : k.task = u /\ k.time = tasks'[u]
               \/ \E k \in token' : k.task = u /\ k.delay # 0
    <3>1. CASE u = t
      BY <1>1, <1>4, <1>5, <3>1
    <3>2. CASE u # t
      BY <1>4, <1>5, <1>6, <3>2 DEF QueueInv, QueuesAgree
    <3> QED
      BY <3>1, <3>2
  <2> QED
    BY <2>1, <2>2 DEF QueuesAgree
<1>9. OnePerTask'
  BY <1>1, <1>3, <1>4 DEF QueueInv, OnePerTask
<1>10. RunningRepeats'
  BY <1>1, <1>4, <1>5, <1>6, <1>7 DEF QueueInv, RunningRepeats
<1>11. OneToken' /\ WaitsFree'
  BY <1>6 DEF AddTask, Notify, QueueInv, OneToken, WaitsFree
<1> QED
  BY <1>8, <1>9, <1>10, <1>11 DEF QueueInv

LEMMA CancelAgrees ==
    ASSUME QueueInv, NEW t, Cancel(t)
    PROVE  QueueInv'
<1>1. /\ t \in DOMAIN tasks /\ tokens' = Erase(tokens, tasks[t], t)
      /\ tasks' = Drop(tasks, t)
      /\ token' = token /\ pc' = pc /\ destroyed' = destroyed
  BY DEF Cancel
<1>2. \A k \in tokens' : k \in tokens /\ k.task # t
  BY <1>1 DEF Erase, QueueInv, QueuesAgree
<1>3. \A k \in tokens : k.task # t => k \in tokens'
  BY <1>1 DEF Erase
<1>4. DOMAIN tasks' = DOMAIN tasks \ {t} /\ \A u \in DOMAIN tasks' : tasks'[u] = tasks[u]
  BY <1>1 DEF Drop
<1>5. retired \subseteq retired'
  BY DEF Cancel
<1>6. \A k \in token : k.delay # 0 /\ k.task = t => t \in retired'
  BY DEF Cancel, IsRepeated
<1>7. QueuesAgree'
  <2>1. \A k \in tokens' : k.task \in DOMAIN tasks' /\ tasks'[k.task] = k.time
    BY <1>2, <1>4 DEF QueueInv, QueuesAgree
  <2>2. ASSUME NEW u \in DOMAIN tasks'
        PROVE  \/ \E k \in tokens' : k.task = u /\ k.time = tasks'[u]
               \/ \E k \in token' : k.task = u /\ k.delay # 0
    BY <1>1, <1>3, <1>4 DEF QueueInv, QueuesAgree
  <2> QED
    BY <2>1, <2>2 DEF QueuesAgree
<1>8. RunningRepeats'
  BY <1>1, <1>2, <1>4, <1>5, <1>6 DEF QueueInv, RunningRepeats
<1>9. OnePerTask' /\ OneToken' /\ WaitsFree'
  BY <1>1, <1>2 DEF QueueInv, OnePerTask, OneToken, WaitsFree
<1> QED
  BY <1>7, <1>8, <1>9 DEF QueueInv

\* Every step keeps the queues in agreement.
LEMMA QueueInvStep ==
    ASSUME ~RescheduleRepeated, TypeOK, QueueInv, [Next]_vars
    PROVE  QueueInv'
<1>1. ASSUME NEW t \in Tasks, Schedule(t) \/ ScheduleRepeated(t) PROVE QueueInv'
  <2>1. t \notin retired
    BY <1>1 DEF Schedule, ScheduleRepeated
  <2>2. CASE Schedule(t)
    <3>1. PICK d \in OneShotDelays : AddTask(t, now + d, 0)
      BY <2>2 DEF Schedule
    <3> QED
      BY <2>1, <3>1, AddTaskAgrees
  <2>3. CASE ScheduleRepeated(t)
    <3>1. PICK d \in RepeatDelays : AddTask(t, now + d, d)
      BY <2>3 DEF ScheduleRepeated
    <3> QED
      BY <2>1, <3>1, AddTaskAgrees
  <2> QED
    BY <1>1, <2>2, <2>3
<1>2. ASSUME NEW t \in Tasks, Cancel(t) PROVE QueueInv'
  BY <1>2, CancelAgrees
<1>3. CASE Destroy
  BY <1>3 DEF Destroy, Notify, QueueInv, QueuesAgree, OneToken, WaitsFree, OnePerTask,
              RunningRepeats
<1>4. CASE LoopTop
  <2>1. CASE destroyed
    BY <1>4, <2>1 DEF LoopTop, QueueInv, QueuesAgree, OneToken, WaitsFree, OnePerTask,
                      RunningRepeats
  <2>2. CASE ~destroyed /\ RescheduledTokens = {}
    <3>1. Agree(RescheduledTokens, RescheduledTasks)
      BY RescheduledAgrees
    <3>2. DOMAIN RescheduledTasks = DOMAIN tasks /\ tokens \subseteq RescheduledTokens
      BY InsertType DEF RescheduledTasks, RescheduledTokens
    <3>3. tokens = {} /\ DOMAIN tasks = {}
      BY <2>2, <3>1, <3>2 DEF Agree
    <3>4. tokens' = tokens /\ tasks' = tasks /\ token' = {}
      BY <1>4, <2>2 DEF LoopTop
    <3> QED
      BY <3>3, <3>4 DEF QueueInv, QueuesAgree, OneToken, WaitsFree, OnePerTask,
                        RunningRepeats
  <2>3. CASE ~destroyed /\ RescheduledTokens # {}
    <3>1. TakeToken(RescheduledTokens, RescheduledTasks)
      BY <1>4, <2>3 DEF LoopTop
    <3> QED
      BY <3>1, RescheduledAgrees, TakeTokenAgrees
  <2> QED
    BY <2>1, <2>2, <2>3
<1>5. CASE Woken
  <2>1. token = {} /\ Agree(tokens, tasks)
    BY <1>5, WaitingAgrees DEF Woken, QueueInv, WaitsFree
  <2>2. CASE destroyed \/ tokens = {}
    BY <1>5, <2>2 DEF Woken, QueueInv, QueuesAgree, OneToken, WaitsFree, OnePerTask,
                      RunningRepeats
  <2>3. CASE ~destroyed /\ tokens # {}
    <3>1. TakeToken(tokens, tasks)
      BY <1>5, <2>3 DEF Woken
    <3> QED
      BY <2>1, <3>1, TakeTokenAgrees
  <2> QED
    BY <2>2, <2>3
<1>6. CASE WaitTimeout \/ SpuriousWakeUp \/ TaskReturns
  BY <1>6 DEF WaitTimeout, SpuriousWakeUp, TaskReturns, QueueInv, QueuesAgree, OneToken,
              WaitsFree, OnePerTask, RunningRepeats
<1>7. CASE Tick \/ UNCHANGED vars
  BY <1>7 DEF Tick, vars, QueueInv, QueuesAgree, OneToken, WaitsFree, OnePerTask,
              RunningRepeats
<1> QED
  BY <1>1, <1>2, <1>3, <1>4, <1>5, <1>6, <1>7 DEF Next

LEMMA QueueInvInit ==
    ASSUME Init
    PROVE  QueueInv
  BY DEF Init, QueueInv, QueuesAgree, OneToken, WaitsFree, OnePerTask, RunningRepeats

\* _tasks and _tokens agree forever, for any tasks and delays, if a repeated task
\* that was cancelled is not scheduled again.
THEOREM TimerQueuesAgree ==
    ASSUME ~RescheduleRepeated
    PROVE  Spec => []QueuesAgree
<1>1. Init => QueueInv
  BY QueueInvInit
<1>2. TypeOK /\ QueueInv /\ [Next]_vars => QueueInv'
  BY QueueInvStep
<1>3. QueueInv => QueuesAgree
  BY DEF QueueInv
<1> QED
  BY <1>1, <1>2, <1>3, TimerTypeOK, PTL DEF Spec

\* Under the same assumption a task starts only while it is scheduled, and never
\* after cancel() returned true for it or after destroy().
THEOREM TimerStartsOnlyScheduled ==
    ASSUME ~RescheduleRepeated
    PROVE  Spec => StartsOnlyScheduled
<1> DEFINE Started ==
        (pc # "run" /\ pc' = "run") =>
            /\ ~destroyed
            /\ \A k \in token' : k.task \in DOMAIN tasks /\ k.time <= now
<1>1. Init => QueueInv
  BY QueueInvInit
<1>2. TypeOK /\ QueueInv /\ [Next]_vars => QueueInv'
  BY QueueInvStep
<1>3. TypeOK /\ QueueInv /\ [Next]_vars => [Started]_vars
  <2> SUFFICES ASSUME TypeOK, QueueInv, Next, pc # "run", pc' = "run"
               PROVE  /\ ~destroyed
                      /\ \A k \in token' : k.task \in DOMAIN tasks /\ k.time <= now
    OBVIOUS
  <2>1. LoopTop \/ Woken
    BY DEF Next, Schedule, ScheduleRepeated, AddTask, Cancel, Destroy, Notify,
           WaitTimeout, SpuriousWakeUp, TaskReturns, Tick
  <2>2. ~destroyed
    BY <2>1 DEF LoopTop, Woken
  <2>3. PICK toks, tks : /\ TakeToken(toks, tks) /\ Agree(toks, tks)
                         /\ DOMAIN tks = DOMAIN tasks
    <3>1. CASE LoopTop
      <4>1. TakeToken(RescheduledTokens, RescheduledTasks)
        BY <2>2, <3>1 DEF LoopTop
      <4>2. DOMAIN RescheduledTasks = DOMAIN tasks
        BY DEF RescheduledTasks
      <4> QED
        BY <4>1, <4>2, RescheduledAgrees
    <3>2. CASE Woken
      <4>1. TakeToken(tokens, tasks)
        BY <2>2, <3>2 DEF Woken
      <4>2. token = {}
        BY <3>2 DEF Woken, QueueInv, WaitsFree
      <4> QED
        BY <4>1, <4>2, WaitingAgrees
    <3> QED
      BY <2>1, <3>1, <3>2
  <2>4. PICK k \in toks : token' = {k} /\ k.time <= now
    BY <2>3 DEF TakeToken, First
  <2>5. k.task \in DOMAIN tasks
    BY <2>3 DEF Agree
  <2> QED
    BY <2>2, <2>4, <2>5
<1> QED
  BY <1>1, <1>2, <1>3, TimerTypeOK, PTL DEF Spec, StartsOnlyScheduled

-----------------------------------------------------------------------------
(***************************************************************************)
(* Patcher.  A session relies on the summary and the log that earlier ones *)
(* left, of which some failed and some died.  What makes that right is not *)
(* that they describe the disk: after a crash they need not.  It is that   *)
(* what they say of a file of the present release is so (SummaryKnows):    *)
(* the lines that a crash loses are about files of an older release, whose *)
(* contents differ and do not come back, or about files that are then      *)
(* thought to be missing and are downloaded again.  So every step is shown *)
(* to keep what is known of the server's files (Stored), what is about to  *)
(* be saved (Ends), and, within a session, that every file of the server   *)
(* is known, on its way or still in a list (Sessions).                     *)
(***************************************************************************)

-----------------------------------------------------------------------------
(* The inductive invariant *)

\* Types of the records.
Pair == {<<>>} \cup (Nat \X Nat)
Places == {"idle", "save", "saving", "saved", "list", "ready", "remove", "update", "chunk",
           "join", "abort", "flags"}
MeRecord ==
    [at : Places, then : {"idle", "list"}, ended : {"none", "failed", "finished"},
     full : BOOLEAN, all : BOOLEAN, patches : Nat, localFiles : SUBSET P!Info,
     removeFiles : SUBSET P!Info, updateFiles : SUBSET P!Info, updateFlags : SUBSET P!Info,
     part : SUBSET Paths, todo : SUBSET P!Info, file : P!Info, pos : Nat, cur : Pair, nxt : Pair,
     bz2 : Seq(Pair), good : BOOLEAN]
DecRecord ==
    [on : BOOLEAN, destroy : BOOLEAN, exception : BOOLEAN, files : Seq(P!Info), info : P!Info,
     writing : BOOLEAN, filesDone : Seq(P!Info)]
Line == [op : {"+", "-"}, info : P!Info]
LogRecord == [there : BOOLEAN, lines : Seq(Line)]

Types ==
    /\ config \in Configs
    /\ disk \in [Paths -> [c : Nat, x : BOOLEAN]]
    /\ summary \in [there : BOOLEAN, infos : SUBSET P!Info] /\ log \in LogRecord
    /\ release \in DOMAIN P!Releases /\ crashes \in 0 .. MaxCrashes /\ torn \in BOOLEAN
    /\ me \in MeRecord /\ dec \in DecRecord

\* Where a session can be.
Loading == {"update", "chunk"}
Updating == {"update", "chunk", "join", "abort"}
Session == {"ready", "remove", "flags", "update", "chunk", "join", "abort"}
Saving == {"save", "saving", "saved"}

\* What the Decompressor holds.
InSeq(q) == {q[i] : i \in DOMAIN q}
Flying == InSeq(dec.files) \cup ({dec.info} \ {P!NoFile})
Done == InSeq(dec.filesDone)

\* What is updated is the server's, and what is under way is in the lists.
ListsOrderly ==
    /\ me.updateFiles \subseteq P!Server /\ me.updateFlags \subseteq P!Server
    /\ me.at \in Loading => me.todo \subseteq P!Within(me.updateFiles, me.part)
    /\ me.at = "flags" => me.todo \subseteq P!Within(me.updateFlags, me.part)
    /\ me.at = "remove" => me.todo \subseteq P!Within(me.removeFiles, me.part \cup {P!Nowhere})
    /\ me.at = "chunk" => me.file \in P!Within(me.updateFiles, me.part)
           /\ Kind[me.file.path] = "file"
    /\ me.at \notin Session => me.updateFiles = {} /\ me.updateFlags = {}
\* The Decompressor runs in updateFiles() only, and ends when it is told to or fails.
DecOrderly ==
    /\ me.at \notin Updating => dec = P!NoDecompressor
    /\ Flying \subseteq P!Within(P!Server, me.part) /\ Done \subseteq P!Within(P!Server, me.part)
    /\ dec.writing => dec.info # P!NoFile
    /\ me.at \in Loading /\ ~dec.on => dec.exception
    /\ me.at \in Loading /\ dec.on => ~dec.destroy
    /\ ~dec.on /\ ~dec.exception => Flying = {}
\* Only a crash tears a line.
TornLate == torn => crashes > 0

\* The chunk that was requested ahead is the one that is needed next, of this file or of the
\* next one, so that the chunks written are those of the file, in their order.
ChunkSound ==
    /\ me.good = TRUE
    /\ me.at = "chunk" =>
           /\ me.pos <= Chunks[me.file.path]
           /\ me.bz2 = [i \in 1 .. me.pos |-> <<me.file.path, i - 1>>]
           /\ me.cur = <<>> => me.pos = 0
           /\ me.pos < Chunks[me.file.path] /\ me.cur # <<>> => me.nxt = <<me.file.path, me.pos>>
    /\ me.at = "update" \/ (me.at = "chunk" /\ me.pos = Chunks[me.file.path]) =>
           \A f \in P!NextFiles : me.cur # <<>> /\ P!Least(f, P!NextFiles) =>
               me.nxt = <<f.path, 0>>

\* What holds whatever happens.
Base == Types /\ ListsOrderly /\ DecOrderly /\ TornLate /\ ChunkSound

\* The disk has the contents that r says; and its flag, if it is a file that is not empty.
Right(d, r) == d[r.path].c = r.c
OnDisk(d, r) == d[r.path].c = r.c /\ (Kind[r.path] = "file" => d[r.path].x = r.x)

\* What is known was once on the server, or is being written.
PastContents(p, c) == \E i \in 1 .. release : \E t \in P!Releases[i] : t.path = p /\ t.c = c
PastInfo(r) == \E i \in 1 .. release : r \in P!Releases[i]
Past(r) ==
    /\ r.path \in Paths
    /\ r.c # P!Partial => PastContents(r.path, r.c) /\ (Kind[r.path] = "file" => PastInfo(r))
\* So is what is on the disk.
DiskPast ==
    \A p \in Paths :
       /\ Kind[p] = "dir" => disk[p].x = FALSE
       /\ disk[p].c # P!Absent => Past([path |-> p, c |-> disk[p].c, x |-> disk[p].x])

\* What K says of the server's files, other than those in F, is so.
Knows(d, K, F) ==
    \A k \in K : \A s \in P!Server \ F :
        /\ P!SameContents(k, s) => Right(d, s)
        /\ k = s => OnDisk(d, s)

\* One version of a file.
OneEach(K) == \A k, l \in K : k.path = l.path => k = l

\* What the server has and the summary has not, and the other way round; what the log adds
\* and removes.
New == P!WithoutFlags(P!Server, summary.infos)
Old == P!WithoutFlags(summary.infos, P!Server)
Plus == P!Lines("+")
Minus == P!Lines("-")

\* When the summary and the log can be relied on: no line is cut off, and files that are gone
\* are not passed over without a line in the log.  A client that removes files, and one of
\* which no session died, know more.
Sound == ~torn /\ (P!RemoveLevel > 1 => crashes = 0)
Tidy == P!RemoveLevel > 0
Honest == P!RemoveLevel > 0 /\ crashes = 0

\* The summary, the log and the disk: what the summary says of a file of this release is so,
\* and what it says of others was so.
AllPast == \A k \in summary.infos \cup Plus : Past(k)
SummaryKnows == Knows(disk, summary.infos, {})
\* What the log adds is on the disk.
PlusSound ==
    /\ \A k \in Plus : /\ OnDisk(disk, k) /\ k.c # P!Partial /\ k.c # P!Absent
                       /\ (Kind[k.path] = "dir" => ~k.x) /\ Kind[k.path] # "empty"
    /\ Plus \cap Minus = {}
    /\ ~log.there => log.lines = <<>>
\* Before the log adds a file it removes what the summary has at its path.
Removed(k, i) == \E j \in 1 .. i : log.lines[j].op = "-" /\ log.lines[j].info = k
Unique ==
    Tidy =>
        /\ OneEach(summary.infos) /\ OneEach(Plus)
        /\ \A i \in DOMAIN log.lines : log.lines[i].op = "+" =>
             \A k \in summary.infos : k.path = log.lines[i].info.path =>
                 k = log.lines[i].info \/ Removed(k, i)
\* Without crashes all that the summary says, and the log does not take back, is so.
HonestSound ==
    Honest /\ me.at \notin {"saving", "saved"} => \A k \in summary.infos \ Minus : Right(disk, k)

\* While the summary is written it is incomplete, the log is as it was, and what will be
\* saved is so.
SaveSound ==
    me.at \in Saving =>
        /\ \A k \in me.localFiles : Past(k)
        /\ Knows(disk, me.localFiles, {})
        /\ Tidy => OneEach(me.localFiles \cup Plus)
        /\ Honest => \A k \in me.localFiles : Right(disk, k)
        /\ me.at = "saving" => summary.infos = {}
        /\ me.at = "saved" => summary.infos = me.localFiles
\* When the lists are compared the summary is what was loaded.
ListSound ==
    /\ me.at = "list" => log.lines = <<>> /\ summary.infos = me.localFiles /\ me.then = "list"
    /\ me.at \notin Session /\ me.then = "list" => me.full = FALSE /\ me.all = FALSE
\* A session that finished and had patched everything has left the server's files.
FinishSound ==
    me.ended = "finished" =>
        /\ me.at \in Saving \cup {"idle"} /\ me.then = "idle"
        /\ me.full => \A s \in P!Server : OnDisk(disk, s)

\* The lists of a session: every file of the server is in one of them, or local.
ListsSound ==
    me.at \in Session =>
        /\ me.removeFiles \subseteq me.localFiles \cap Old
        /\ me.updateFiles \subseteq New
        /\ \A f \in me.updateFiles : \A k \in me.localFiles : ~P!SameContents(k, f)
        /\ \A f \in me.updateFlags : \E k \in me.localFiles \cap summary.infos : P!SameContents(k, f)
        /\ P!Server \subseteq me.updateFiles \cup me.updateFlags \cup me.localFiles
        /\ \A k \in me.localFiles : Past(k)
        /\ me.full => me.updateFiles = {} /\ me.updateFlags = {}
        /\ me.all => me.part = Paths
\* A client that removes files has one version of each, and removes all that is not the server's.
TidySound ==
    me.at \in Session /\ Tidy =>
        /\ OneEach(me.localFiles)
        /\ \A k \in me.localFiles : k \in me.removeFiles
               \/ \E s \in P!Server : P!SameContents(k, s)
\* What is said of the server's files is so, except for those that are being decompressed.
LocalSound == me.at \in Session \ {"abort"} => Knows(disk, me.localFiles, Flying)
\* What is logged in a session is local, or becomes so.
LogSound ==
    me.at \in Session =>
        /\ log.there = TRUE
        /\ Plus \subseteq New /\ Minus \subseteq Old
        /\ Plus \subseteq me.localFiles
               \cup IF me.at \in {"update", "chunk", "abort"}
                     THEN P!Within(me.updateFiles, me.part) ELSE {}
\* What is not the server's is still to be removed, or its removal is logged.
RemoveSound ==
    me.at \in Session =>
        /\ Tidy => \A k \in Old : k \in me.removeFiles \/ k \in Minus
        /\ \A k \in me.removeFiles : k \in Minus =>
               me.at = "remove" /\ k.path \in me.part /\ k \notin me.todo
        /\ me.at = "remove" /\ Tidy =>
               \A k \in me.removeFiles : k.path \in me.part => k \in me.todo \/ k \in Minus
        /\ me.at \notin {"ready", "remove"} /\ Tidy =>
               \A k \in me.removeFiles : k.path \notin me.part
        /\ Tidy => \A k \in me.removeFiles : \A s \in Plus : k.path # s.path
        /\ ~Tidy => Minus = {} /\ (me.at = "remove" => me.todo = {})
\* What the Decompressor has done is on the disk, and it has each file once.
UpdateSound ==
    me.at \in Updating =>
        /\ Flying \subseteq New /\ Done \subseteq New
        /\ \A k \in Done : k \notin Flying /\ OnDisk(disk, k) /\ Kind[k.path] = "file"
        /\ \A k \in Flying : k \notin Plus /\ Kind[k.path] = "file"
        /\ \A i, j \in DOMAIN dec.files : i # j => dec.files[i] # dec.files[j]
        /\ \A i \in DOMAIN dec.files : dec.info # dec.files[i]
        /\ me.at # "join" =>
               Flying \cup Done \subseteq P!Within(me.updateFiles, me.part)
        /\ me.at = "join" => Flying \subseteq me.localFiles /\ Done \subseteq me.localFiles
\* A file of the part is still to be downloaded, or is being so, or the Decompressor has it,
\* or it is on the disk.
LoadSound ==
    me.at \in Loading =>
        /\ \A k \in me.todo : k \notin Plus /\ k \notin Flying /\ k \notin Done
        /\ me.at = "chunk" => me.file \notin Plus \cup Flying \cup Done \cup me.todo
        /\ \A f \in P!Within(me.updateFiles, me.part) :
              \/ f \in me.todo \/ f \in Flying \/ (me.at = "chunk" /\ f = me.file)
              \/ OnDisk(disk, f)
\* The flags of the part are still to be set, or are.
FlagsSound ==
    /\ me.at \in {"join", "flags"} => P!Within(me.updateFiles, me.part) = {}
    /\ me.at = "flags" => \A f \in P!Within(me.updateFlags, me.part) : f \in me.todo
           \/ OnDisk(disk, f)

\* The inductive invariant.
Stored == DiskPast /\ AllPast /\ SummaryKnows /\ PlusSound /\ Unique /\ HonestSound
Ends == SaveSound /\ ListSound /\ FinishSound
Sessions ==
    /\ ListsSound /\ TidySound /\ LocalSound /\ LogSound
    /\ RemoveSound /\ UpdateSound /\ LoadSound /\ FlagsSound
Good == Stored /\ Ends /\ Sessions
PatchInv == Base /\ (Sound => Good)

-----------------------------------------------------------------------------
(* Types, lists and chunks, in every state *)

\* A release: one file of a path, with contents, and directories are not executable.
ServerSound ==
    /\ P!Server \subseteq P!Info
    /\ \A s \in P!Server : /\ s.path \in Paths /\ s.c # P!Absent /\ s.c # P!Partial /\ s # P!NoFile
                           /\ (Kind[s.path] = "dir" => s.x = FALSE)
    /\ \A s, t \in P!Server : s.path = t.path => s = t

\* What a release is, from the assumption on servers.
LEMMA ServerIsSound ==
    ASSUME Types
    PROVE  ServerSound
  <1>1. P!Fits(config) /\ release \in DOMAIN config.releases
    BY PatcherAssumption DEF Types, P!Releases
  <1>2. P!Server \in SUBSET P!Info
    BY <1>1 DEF P!Fits, P!Server, P!Releases
  <1>3. \A s \in P!Server : s.path \in Paths /\ s.c \in 1 .. P!Partial - 1
            /\ (Kind[s.path] = "dir" => ~s.x)
                          /\ \A t \in P!Server : s.path = t.path => s = t
    BY <1>1 DEF P!Fits, P!Server, P!Releases
  <1>4. \A s \in P!Server : s.c # P!Absent /\ s.c # P!Partial /\ s # P!NoFile
            /\ (Kind[s.path] = "dir" => s.x = FALSE)
    BY <1>2, <1>3 DEF P!Absent, P!Partial, P!NoFile, P!Info
  <1> QED
    BY <1>2, <1>3, <1>4 DEF ServerSound

\* The Decompressor before it is started: it holds no file.
LEMMA NoDecIs ==
    /\ P!NoDecompressor \in DecRecord
    /\ P!NoDecompressor.on = FALSE /\ P!NoDecompressor.exception = FALSE
    /\ P!NoDecompressor.writing = FALSE
    /\ P!NoDecompressor.destroy = FALSE
    /\ P!NoDecompressor.files = <<>> /\ P!NoDecompressor.filesDone = <<>>
    /\ P!NoDecompressor.info = P!NoFile
    /\ P!NoFile \in P!Info
  <1>1. P!NoFile \in P!Info
    BY DEF P!NoFile, P!Info, P!Nowhere, P!Absent
  <1>2. <<>> \in Seq(P!Info)
    OBVIOUS
  <1> QED
    BY <1>1, <1>2 DEF P!NoDecompressor, DecRecord

\* The patching thread between sessions.
LEMMA NoSessionIs ==
    /\ P!NoSession \in MeRecord
    /\ P!NoSession.at = "idle" /\ P!NoSession.good = TRUE /\ P!NoSession.updateFiles = {}
    /\ P!NoSession.updateFlags = {}
    /\ P!NoSession.ended = "none"
  <1>1. P!NoFile \in P!Info /\ <<>> \in Seq(Pair) /\ <<>> \in Pair
    BY NoDecIs DEF Pair
  <1> QED
    BY <1>1 DEF P!NoSession, MeRecord, Places

\* A Decompressor that has not been started holds no file ...
LEMMA NothingFlies ==
    ASSUME dec = P!NoDecompressor
    PROVE  Flying = {} /\ Done = {}
  BY NoDecIs DEF Flying, Done, InSeq

\* ... and so in the next state.
LEMMA NothingFliesAfter ==
    ASSUME dec' = P!NoDecompressor
    PROVE  Flying' = {} /\ Done' = {}
  BY NoDecIs DEF Flying, Done, InSeq

\* A state in which nothing is under way.
LEMMA RestIsBase ==
    ASSUME Types, me.at \notin Session, me.updateFiles = {}, me.updateFlags = {}, me.good = TRUE,
               dec = P!NoDecompressor, TornLate
    PROVE  Base
  <1>1. me.at \notin Updating /\ me.at \notin Loading
            /\ me.at \notin {"flags", "remove", "chunk", "update"}
    BY DEF Session, Updating, Loading
  <1>2. ListsOrderly
    BY <1>1 DEF ListsOrderly
  <1>3. DecOrderly
    BY <1>1, NothingFlies, NoDecIs DEF DecOrderly
  <1>4. ChunkSound
    BY <1>1 DEF ChunkSound
  <1> QED
    BY <1>2, <1>3, <1>4 DEF Base

\* A step after which nothing is under way.
LEMMA RestAfter ==
    ASSUME Types', me'.at \notin Session, me'.updateFiles = {}, me'.updateFlags = {},
               me'.good = TRUE,
           dec' = P!NoDecompressor, TornLate'
    PROVE  Base'
  <1>1. me'.at \notin Updating /\ me'.at \notin Loading
            /\ me'.at \notin {"flags", "remove", "chunk", "update"}
    BY DEF Session, Updating, Loading
  <1>2. ListsOrderly'
    BY <1>1 DEF ListsOrderly
  <1>3. DecOrderly'
    BY <1>1, NothingFliesAfter, NoDecIs DEF DecOrderly
  <1>4. ChunkSound'
    BY <1>1 DEF ChunkSound
  <1> QED
    BY <1>2, <1>3, <1>4 DEF Base

\* Initially the directory is empty and nothing is under way.
LEMMA BaseBegins == P!Init => Base
  <1> SUFFICES ASSUME P!Init PROVE Base
    OBVIOUS
  <1>1. P!Fits(config)
    BY PatcherAssumption DEF P!Init
  <1>2. 1 \in DOMAIN P!Releases
    <2>1. config.releases \in Seq(SUBSET P!Info) /\ config.releases # <<>>
      BY <1>1 DEF P!Fits
    <2> QED
      BY <2>1 DEF P!Releases
  <1>3. disk \in [Paths -> [c : Nat, x : BOOLEAN]]
    BY DEF P!Init, P!Absent
  <1>4. log \in LogRecord /\ summary \in [there : BOOLEAN, infos : SUBSET P!Info]
    <2>1. <<>> \in Seq(Line)
      OBVIOUS
    <2> QED
      BY <2>1 DEF P!Init, LogRecord
  <1>6. config \in Configs /\ release \in DOMAIN P!Releases /\ torn \in BOOLEAN
            /\ me \in MeRecord /\ dec \in DecRecord
    BY <1>2, NoSessionIs, NoDecIs DEF P!Init
  <1>7. crashes \in 0 .. MaxCrashes
    BY PatcherAssumption DEF P!Init
  <1>5. Types
    BY <1>3, <1>4, <1>6, <1>7 DEF Types
  <1> QED
    BY <1>5, RestIsBase, NoSessionIs DEF P!Init, TornLate, Session

\* A crash, a failure, the start and the end of a session.
LEMMA TypesAfter ==
    ASSUME Types, me' \in MeRecord, dec' \in DecRecord, log' \in LogRecord,
           summary' \in [there : BOOLEAN, infos : SUBSET P!Info],
               UNCHANGED <<config, release, crashes, torn>>,
           disk' \in [Paths -> [c : Nat, x : BOOLEAN]]
    PROVE  Types'
  BY DEF Types, P!Releases

\* A session that fails leaves nothing under way.
LEMMA FailedBase ==
    ASSUME Base, P!Failed, UNCHANGED <<config, disk, summary, log, release, crashes, torn>>
    PROVE  Base'
  <1>1. /\ me' \in MeRecord /\ me'.at = "idle" /\ me'.updateFiles = {} /\ me'.updateFlags = {}
        /\ me'.good = TRUE
        /\ dec' = P!NoDecompressor
    BY NoSessionIs DEF P!Failed, MeRecord
  <1>2. Types'
    BY <1>1, NoDecIs, TypesAfter DEF Base, Types
  <1> QED
    BY <1>1, <1>2, RestAfter DEF Session, TornLate, Base

\* The lines of the log.
LEMMA LogFacts ==
    ASSUME Types
    PROVE  /\ log.lines \in Seq(Line) /\ log.there \in BOOLEAN
           /\ log = [there |-> log.there, lines |-> log.lines]
           /\ DOMAIN log.lines = 1 .. Len(log.lines) /\ Len(log.lines) \in Nat
           /\ \A i \in DOMAIN log.lines : log.lines[i].op \in {"+", "-"}
                  /\ log.lines[i].info \in P!Info
  <1>1. log.lines \in Seq(Line) /\ log.there \in BOOLEAN
            /\ log = [there |-> log.there, lines |-> log.lines]
    BY DEF Types, LogRecord
  <1>2. \A i \in DOMAIN log.lines : log.lines[i] \in Line
    BY <1>1
  <1> QED
    BY <1>1, <1>2 DEF Line

\* prepare(): the list of local files is loaded or scanned.
LEMMA PrepareBase ==
    ASSUME Base, UNCHANGED config, NEW thorough \in BOOLEAN, P!Prepare(thorough)
    PROVE  Base'
  <1>1. P!Scan \subseteq P!Info /\ P!Merged \subseteq P!Info
    <2>1. P!Scan \subseteq P!Info
      <3>1. \A p \in Paths : disk[p].c \in Nat /\ disk[p].x \in BOOLEAN /\ p \in Nat
        BY PatcherAssumption DEF Base, Types
      <3> QED
        BY <3>1 DEF P!Scan, P!Info
    <2>2. \A i \in DOMAIN log.lines : log.lines[i].info \in P!Info
      BY LogFacts DEF Base
    <2>3. P!Merged \subseteq P!Info
      BY <2>2 DEF P!Merged, P!Lines, Base, Types
    <2> QED
      BY <2>1, <2>3
  <1>2. /\ me' \in MeRecord /\ me'.at \in {"save", "list"} /\ me'.updateFiles = {}
        /\ me'.updateFlags = {} /\ me'.good = TRUE
    <2> DEFINE files == IF thorough THEN P!Scan ELSE P!Merged
               place == IF thorough \/ log.there THEN "save" ELSE "list"
    <2>1. me' = [P!NoSession EXCEPT !.localFiles = files, !.at = place, !.then = "list"]
      BY DEF P!Prepare
    <2>2. files \in SUBSET P!Info /\ place \in {"save", "list"}
      BY <1>1
    <2> HIDE DEF files, place
    <2>3. place \in Places
      BY <2>2 DEF Places
    <2> QED
      BY <2>1, <2>2, <2>3, NoSessionIs DEF MeRecord
  <1>3. dec = P!NoDecompressor /\ dec' = dec
    BY DEF P!Prepare, Base, DecOrderly, P!At, Updating
  <1>4. Types'
    BY <1>2, <1>3, TypesAfter DEF Base, Types, P!Prepare
  <1> QED
    BY <1>2, <1>3, <1>4, RestAfter DEF Session, TornLate, Base, P!Prepare

\* saveFileInfoSeq() opens, writes and closes the summary, and removes the log.
LEMMA SaveBase ==
    ASSUME Base, UNCHANGED config, P!SaveOpen \/ P!SaveClose \/ P!SaveEnd
    PROVE  Base'
  <1>1. /\ me.at \in Saving /\ me' \in MeRecord /\ me'.at \notin Session
        /\ me'.updateFiles = me.updateFiles /\ me'.updateFlags = me.updateFlags
        /\ me'.good = me.good
        /\ dec' = dec
    <2>1. me.at \in Saving /\ dec' = dec /\ me.then \in {"idle", "list"} /\ me \in MeRecord
      BY DEF Base, Types, MeRecord, P!SaveOpen, P!SaveClose, P!SaveEnd, P!At, Saving
    <2>2. \E place \in {"saving", "saved", me.then} : me' = [me EXCEPT !.at = place]
      BY DEF P!SaveOpen, P!SaveClose, P!SaveEnd, P!Goes
    <2>3. PICK place \in {"saving", "saved", "idle", "list"} : me' = [me EXCEPT !.at = place]
      BY <2>1, <2>2
    <2>4. place \in Places /\ place \notin Session
      BY DEF Places, Session
    <2> QED
      BY <2>1, <2>3, <2>4 DEF MeRecord
  <1>2. me.updateFiles = {} /\ me.updateFlags = {} /\ me.good = TRUE /\ dec = P!NoDecompressor
    BY <1>1 DEF Base, ListsOrderly, DecOrderly, ChunkSound, Saving, Session, Updating
  <1>3. summary' \in [there : BOOLEAN, infos : SUBSET P!Info]
    <2>1. me.localFiles \in SUBSET P!Info /\ summary \in [there : BOOLEAN, infos : SUBSET P!Info]
      BY DEF Base, Types, MeRecord
    <2>2. \/ summary' = [there |-> TRUE, infos |-> {}]
          \/ summary' = [summary EXCEPT !.infos = me.localFiles]
          \/ summary' = summary
      BY DEF P!SaveOpen, P!SaveClose, P!SaveEnd
    <2>3. ASSUME NEW i \in SUBSET P!Info
          PROVE  [summary EXCEPT !.infos = i] \in [there : BOOLEAN, infos : SUBSET P!Info]
      BY <2>1
    <2>4. [there |-> TRUE, infos |-> {}] \in [there : BOOLEAN, infos : SUBSET P!Info]
      OBVIOUS
    <2> QED
      BY <2>1, <2>2, <2>3, <2>4
  <1>4. log' \in LogRecord
    <2>1. log' = log \/ log' = [there |-> FALSE, lines |-> <<>>]
      BY DEF P!SaveOpen, P!SaveClose, P!SaveEnd
    <2>2. [there |-> FALSE, lines |-> <<>>] \in LogRecord
      BY DEF LogRecord
    <2> QED
      BY <2>1, <2>2 DEF Base, Types
  <1>5. UNCHANGED <<disk, release, crashes, torn, dec>>
    BY DEF P!SaveOpen, P!SaveClose, P!SaveEnd
  <1>6. Types'
    BY <1>1, <1>3, <1>4, <1>5, TypesAfter DEF Base, Types
  <1> QED
    BY <1>1, <1>2, <1>5, <1>6, RestAfter DEF TornLate, Base

\* finish(): the local files will be saved.
LEMMA FinishBase ==
    ASSUME Base, UNCHANGED config, P!Finish
    PROVE  Base'
  <1>1. /\ me' \in MeRecord /\ me'.at = "save" /\ me'.updateFiles = {} /\ me'.updateFlags = {}
        /\ me'.good = me.good
    BY NoSessionIs DEF P!Finish, MeRecord, Places, Base, Types
  <1>2. me.good = TRUE /\ dec = P!NoDecompressor /\ dec' = dec
    BY DEF P!Finish, Base, DecOrderly, ChunkSound, P!At, Updating
  <1>3. Types'
    BY <1>1, <1>2, TypesAfter DEF Base, Types, P!Finish
  <1> QED
    BY <1>1, <1>2, <1>3, RestAfter DEF Session, TornLate, Base, P!Finish

\* The server gets another release.
LEMMA PublishBase ==
    ASSUME Base, UNCHANGED config, P!Publish
    PROVE  Base'
  <1>1. me' \in MeRecord /\ me'.at = "idle" /\ me'.updateFiles = {} /\ me'.updateFlags = {}
            /\ me'.good = TRUE
    BY NoSessionIs DEF P!Publish
  <1>2. dec = P!NoDecompressor /\ dec' = dec
    BY DEF P!Publish, Base, DecOrderly, P!At, Updating
  <1>3. release' \in DOMAIN P!Releases'
    <2>1. config.releases \in Seq(SUBSET P!Info)
      BY PatcherAssumption DEF Base, Types, P!Fits
    <2>2. release \in 1 .. Len(config.releases) /\ release' = release + 1
              /\ release < Len(config.releases)
      BY <2>1 DEF P!Publish, Base, Types, P!Releases
    <2> QED
      BY <2>1, <2>2 DEF P!Releases
  <1>4. Types'
    BY <1>1, <1>2, <1>3 DEF Base, Types, P!Publish
  <1> QED
    BY <1>1, <1>2, <1>4, RestAfter DEF Session, TornLate, Base, P!Publish

\* A line that was cut off is read as a file info.
LEMMA TornInfo ==
    ASSUME NEW r \in P!Info, NEW t \in P!Torn(r)
    PROVE  t \in P!Info
  <1>1. \A q \in {P!Nowhere} \cup (IF r.path \in Paths THEN PathPrefixes[r.path]
            ELSE {}) : q \in Nat
    <2>1. CASE r.path \in Paths
      <3>1. PathPrefixes[r.path] \subseteq Nat
        BY <2>1, PatcherAssumption
      <3> QED
        BY <2>1, <3>1 DEF P!Nowhere
    <2>2. CASE r.path \notin Paths
      BY <2>2 DEF P!Nowhere
    <2> QED
      BY <2>1, <2>2
  <1>2. [r EXCEPT !.x = FALSE] \in P!Info /\ [r EXCEPT !.c = P!BadSum, !.x = FALSE] \in P!Info
    BY DEF P!Info, P!BadSum
  <1>3. \A q \in Nat : [path |-> q, c |-> P!NoSum, x |-> FALSE] \in P!Info
    BY DEF P!Info, P!NoSum
  <1> QED
    BY <1>1, <1>2, <1>3 DEF P!Torn

\* What a crash leaves of the log.
LEMMA PrefixLog ==
    ASSUME Types, NEW k \in 0 .. Len(log.lines)
    PROVE  /\ SubSeq(log.lines, 1, k) \in Seq(Line)
           /\ Len(SubSeq(log.lines, 1, k)) = k
           /\ \A i \in 1 .. k : SubSeq(log.lines, 1, k)[i] = log.lines[i]
  <1>1. log.lines \in Seq(Line) /\ k \in Nat /\ k <= Len(log.lines) /\ Len(log.lines) \in Nat
    BY LogFacts
  <1>2. SubSeq(log.lines, 1, k) \in Seq(Line)
    BY <1>1
  <1> QED
    BY <1>1, <1>2

\* The process dies: whatever is lost of the open file, nothing is under way.
LEMMA CrashBase ==
    ASSUME Base, UNCHANGED config, P!Crash
    PROVE  Base'
  <1>1. me' \in MeRecord /\ me'.at = "idle" /\ me'.updateFiles = {} /\ me'.updateFlags = {}
            /\ me'.good = TRUE
    BY NoSessionIs DEF P!Crash
  <1>2. dec' = P!NoDecompressor /\ UNCHANGED <<disk, release>>
    BY DEF P!Crash
  <1>3. crashes' \in 0 .. MaxCrashes /\ crashes' > 0
    BY PatcherAssumption DEF P!Crash, Base, Types
  <1>4. torn' \in BOOLEAN /\ summary' \in [there : BOOLEAN, infos : SUBSET P!Info]
            /\ log' \in LogRecord
    <2> DEFINE Goal == torn' \in BOOLEAN
            /\ summary' \in [there : BOOLEAN, infos : SUBSET P!Info] /\ log' \in LogRecord
    <2> SUFFICES Goal
      OBVIOUS
    <2>0. /\ torn \in BOOLEAN /\ summary \in [there : BOOLEAN, infos : SUBSET P!Info]
          /\ log \in LogRecord
          /\ me.localFiles \in SUBSET P!Info
      BY DEF Base, Types, MeRecord
    <2>1. CASE P!CrashSaving
      <3>1. PICK saved \in SUBSET me.localFiles :
              /\ \/ summary' = [summary EXCEPT !.infos = saved] /\ UNCHANGED torn
                 \/ \E r \in me.localFiles \ saved : \E t \in P!Torn(r) :
                       summary' = [summary EXCEPT !.infos = saved \cup {t}] /\ torn' = TRUE
              /\ UNCHANGED log
        BY <2>1 DEF P!CrashSaving
      <3>2. saved \in SUBSET P!Info
        BY <2>0, <3>1
      <3>3. CASE summary' = [summary EXCEPT !.infos = saved] /\ UNCHANGED torn
        BY <2>0, <3>1, <3>2, <3>3
      <3>4. ASSUME NEW r \in me.localFiles \ saved, NEW t \in P!Torn(r),
                   summary' = [summary EXCEPT !.infos = saved \cup {t}], torn' = TRUE
            PROVE  Goal
        <4>1. saved \cup {t} \in SUBSET P!Info
          BY <2>0, <3>2, TornInfo
        <4> QED
          BY <2>0, <3>1, <3>4, <4>1
      <3> QED
        BY <3>1, <3>3, <3>4
    <2>2. CASE P!CrashLogging
      <3>1. PICK k \in 0 .. Len(log.lines) :
              \/ log' = [log EXCEPT !.lines = SubSeq(@, 1, k)] /\ UNCHANGED torn
              \/ /\ k < Len(log.lines)
                 /\ \E t \in P!Torn(log.lines[k + 1].info) :
                       log' = [log EXCEPT !.lines =
                                   Append(SubSeq(@, 1, k), [op |-> @[k + 1].op, info |-> t])]
                 /\ torn' = TRUE
        BY <2>2 DEF P!CrashLogging
      <3>0. summary' = summary
        BY <2>2 DEF P!CrashLogging
      <3>2. SubSeq(log.lines, 1, k) \in Seq(Line)
        BY PrefixLog DEF Base
      <3>3. CASE log' = [log EXCEPT !.lines = SubSeq(@, 1, k)] /\ UNCHANGED torn
        BY <2>0, <3>0, <3>2, <3>3 DEF LogRecord
      <3>4. ASSUME k < Len(log.lines), NEW t \in P!Torn(log.lines[k + 1].info), torn' = TRUE,
                   log' = [log EXCEPT !.lines = Append(SubSeq(@, 1, k), [op |-> @[k + 1].op, info |-> t])]
            PROVE  Goal
        <4>1. k + 1 \in DOMAIN log.lines
          BY <3>4, LogFacts DEF Base
        <4>2. log.lines[k + 1].info \in P!Info /\ log.lines[k + 1].op \in {"+", "-"}
          BY <4>1, LogFacts DEF Base
        <4>3. [op |-> log.lines[k + 1].op, info |-> t] \in Line
          BY <4>2, TornInfo DEF Line
        <4>4. Append(SubSeq(log.lines, 1, k),
                  [op |-> log.lines[k + 1].op, info |-> t]) \in Seq(Line)
          BY <3>2, <4>3
        <4> QED
          BY <2>0, <3>0, <3>4, <4>4 DEF LogRecord
      <3> QED
        BY <3>1, <3>3, <3>4
    <2>3. CASE UNCHANGED <<summary, log, torn>>
      BY <2>0, <2>3
    <2> QED
      BY <2>1, <2>2, <2>3 DEF P!Crash
  <1>5. Types'
    BY <1>1, <1>2, <1>3, <1>4, NoDecIs DEF Base, Types, P!Releases
  <1> QED
    BY <1>1, <1>2, <1>3, <1>5, RestAfter DEF Session, TornLate

\* A session in which no file is updated.
LEMMA QuietBase ==
    ASSUME Base, Types', UNCHANGED <<config, release, crashes, torn>>,
               me'.at \in {"ready", "remove", "flags"},
           dec' = P!NoDecompressor, me'.good = me.good,
           me'.updateFiles \subseteq P!Server, me'.updateFlags \subseteq P!Server,
           me'.at = "flags" => me'.todo \subseteq P!Within(me'.updateFlags, me'.part),
           me'.at = "remove" => me'.todo \subseteq P!Within(me'.removeFiles,
               me'.part \cup {P!Nowhere})
    PROVE  Base'
  <1>1. me'.at \notin Updating /\ me'.at \notin Loading /\ me'.at \in Session
            /\ me'.at \notin {"chunk", "update"}
    BY DEF Session, Updating, Loading
  <1>2. ListsOrderly'
    BY <1>1 DEF ListsOrderly, P!Server, P!Releases, P!Within
  <1>3. DecOrderly'
    BY <1>1, NothingFliesAfter, NoDecIs DEF DecOrderly
  <1>4. ChunkSound'
    BY <1>1 DEF ChunkSound, Base
  <1> QED
    BY <1>2, <1>3, <1>4 DEF Base, TornLate

\* The lists of a session are the server's, or local ones.
LEMMA ListBase ==
    ASSUME Base, UNCHANGED config, P!List
    PROVE  Base'
  <1>0. P!Server \subseteq P!Info
    BY ServerIsSound DEF Base, ServerSound
  <1>1. /\ me' \in MeRecord /\ me'.at = "ready" /\ me'.updateFiles \subseteq P!Server
        /\ me'.updateFlags \subseteq P!Server
        /\ me'.good = me.good
    BY <1>0 DEF P!List, Base, Types, MeRecord, Places, P!WithoutFlags
  <1>2. dec' = P!NoDecompressor /\ UNCHANGED <<disk, summary, release, crashes, torn>>
    BY DEF P!List, Base, DecOrderly, P!At, Updating
  <1>3. log' \in LogRecord
    BY DEF P!List, LogRecord
  <1>4. Types'
    BY <1>1, <1>2, <1>3, NoDecIs, TypesAfter DEF Base, Types
  <1> QED
    BY <1>1, <1>2, <1>4, QuietBase

\* patch() begins with the files to remove.
LEMMA PatchBase ==
    ASSUME Base, UNCHANGED config, NEW dir \in {Paths} \cup {{p} : p \in Paths}, P!Patch(dir)
    PROVE  Base'
  <1>0. dir \subseteq Paths
    OBVIOUS
  <1>1. /\ me' \in MeRecord /\ me'.at = "remove" /\ me'.updateFiles = me.updateFiles
        /\ me'.updateFlags = me.updateFlags
        /\ me'.good = me.good
        /\ me'.todo \subseteq P!Within(me'.removeFiles, me'.part \cup {P!Nowhere})
    <2> DEFINE rest == IF P!RemoveLevel < 1 THEN {}
            ELSE P!Within(me.removeFiles, dir \cup {P!Nowhere})
    <2>1. me \in MeRecord
      BY DEF Base, Types
    <2>2. /\ rest \in SUBSET P!Info
          /\ rest \subseteq P!Within(me.removeFiles, dir \cup {P!Nowhere})
          /\ me.patches + 1 \in Nat /\ (dir = Paths) \in BOOLEAN
      BY <2>1 DEF MeRecord, P!Within
    <2>3. me' = [me EXCEPT !.at = "remove", !.part = dir, !.patches = @
              + 1, !.all = dir = Paths, !.todo = rest]
      BY DEF P!Patch
    <2> HIDE DEF rest
    <2>4. me' \in MeRecord
      BY <1>0, <2>1, <2>2, <2>3 DEF MeRecord, Places
    <2>5. /\ me'.at = "remove" /\ me'.updateFiles = me.updateFiles
          /\ me'.updateFlags = me.updateFlags
          /\ me'.good = me.good /\ me'.part = dir /\ me'.todo = rest
          /\ me'.removeFiles = me.removeFiles
      BY <2>1, <2>3 DEF MeRecord
    <2> QED
      BY <2>2, <2>4, <2>5
  <1>2. dec' = P!NoDecompressor /\ UNCHANGED <<disk, summary, log, release, crashes, torn>>
    BY DEF P!Patch, Base, DecOrderly, P!At, Updating
  <1>4. Types'
    BY <1>1, <1>2, NoDecIs, TypesAfter DEF Base, Types
  <1> QED
    BY <1>1, <1>2, <1>4, QuietBase DEF Base, ListsOrderly

\* The elements of a sequence.
LEMMA InSeqAppend ==
    ASSUME NEW S, NEW q \in Seq(S), NEW x \in S
    PROVE  InSeq(Append(q, x)) = InSeq(q) \cup {x}
  <1>1. /\ DOMAIN q = 1 .. Len(q) /\ Len(q) \in Nat /\ DOMAIN Append(q, x) = 1 .. Len(q) + 1
        /\ \A i \in 1 .. Len(q) : Append(q, x)[i] = q[i]
        /\ Append(q, x)[Len(q) + 1] = x
    OBVIOUS
  <1>2. \A i \in 1 .. Len(q) + 1 : i \in 1 .. Len(q) \/ i = Len(q) + 1
    BY <1>1
  <1>3. 1 .. Len(q) \subseteq 1 .. Len(q) + 1 /\ Len(q) + 1 \in 1 .. Len(q) + 1
    BY <1>1
  <1> QED
    BY <1>1, <1>2, <1>3, Zenon DEF InSeq

\* The first element of a sequence, and the rest.
LEMMA InSeqTail ==
    ASSUME NEW S, NEW q \in Seq(S), q # <<>>
    PROVE  /\ Head(q) \in S /\ Tail(q) \in Seq(S) /\ Head(q) = q[1] /\ 1 \in DOMAIN q
           /\ \A i \in DOMAIN Tail(q) : i + 1 \in DOMAIN q /\ Tail(q)[i] = q[i + 1] /\ i \in Nat
                  /\ i >= 1
           /\ InSeq(q) = {Head(q)} \cup InSeq(Tail(q))
  <1>1. /\ DOMAIN q = 1 .. Len(q) /\ Len(q) \in Nat /\ Len(q) >= 1 /\ Tail(q) \in Seq(S)
        /\ Head(q) = q[1]
        /\ DOMAIN Tail(q) = 1 .. Len(q) - 1
        /\ \A i \in 1 .. Len(q) - 1 : Tail(q)[i] = q[i + 1]
    OBVIOUS
  <1>2. \A i \in 1 .. Len(q) : i = 1 \/ (i - 1 \in 1 .. Len(q) - 1 /\ i = (i - 1) + 1)
    BY <1>1
  <1>3. 1 \in 1 .. Len(q) /\ \A i \in 1 .. Len(q) - 1 : i + 1 \in 1 .. Len(q) /\ i \in Nat
            /\ i >= 1
    BY <1>1
  <1>4. \A x \in InSeq(q) : x \in {Head(q)} \cup InSeq(Tail(q))
    <2> SUFFICES ASSUME NEW i \in 1 .. Len(q), i # 1 PROVE q[i] \in InSeq(Tail(q))
      BY <1>1 DEF InSeq
    <2>1. i - 1 \in DOMAIN Tail(q) /\ Tail(q)[i - 1] = q[i]
      BY <1>1, <1>2
    <2> QED
      BY <2>1 DEF InSeq
  <1>5. \A x \in {Head(q)} \cup InSeq(Tail(q)) : x \in InSeq(q)
    BY <1>1, <1>3 DEF InSeq
  <1>6. Head(q) \in S
    BY <1>1, <1>3
  <1> QED
    BY <1>1, <1>3, <1>4, <1>5, <1>6

\* What is appended to the log.
LEMMA LoggedIs ==
    ASSUME Types, NEW q \in Seq(Line), P!Logged(q)
    PROVE  /\ log' \in LogRecord /\ log'.there = log.there /\ log'.lines = log.lines \o q
           /\ Len(log'.lines) = Len(log.lines) + Len(q) /\ Len(q) \in Nat
           /\ \A i \in 1 .. Len(log.lines) : log'.lines[i] = log.lines[i]
           /\ \A i \in 1 .. Len(q) : log'.lines[Len(log.lines) + i] = q[i]
  <1>1. log.lines \in Seq(Line) /\ log \in LogRecord
    BY DEF Types, LogRecord
  <1>2. log' = [log EXCEPT !.lines = @ \o q]
    BY DEF P!Logged
  <1>3. log'.lines = log.lines \o q /\ log'.there = log.there /\ log.lines \o q \in Seq(Line)
    BY <1>1, <1>2 DEF LogRecord
  <1>4. log' \in LogRecord
    BY <1>1, <1>2, <1>3 DEF LogRecord
  <1>5. /\ Len(log'.lines) = Len(log.lines) + Len(q) /\ Len(q) \in Nat
        /\ \A i \in 1 .. Len(log.lines) : log'.lines[i] = log.lines[i]
        /\ \A i \in 1 .. Len(q) : log'.lines[Len(log.lines) + i] = q[i]
    BY <1>1, <1>3
  <1> QED
    BY <1>3, <1>4, <1>5

\* The lines for files that were added.
LEMMA AddedIs ==
    ASSUME NEW q \in Seq(P!Info)
    PROVE  /\ P!Added(q) \in Seq(Line) /\ Len(P!Added(q)) = Len(q)
           /\ \A i \in 1 .. Len(q) : P!Added(q)[i].op = "+" /\ P!Added(q)[i].info = q[i]
  <1>1. P!Added(q) = [i \in 1 .. Len(q) |-> [op |-> "+", info |-> q[i]]] /\ Len(q) \in Nat
    BY DEF P!Added
  <1>2. \A i \in 1 .. Len(q) : [op |-> "+", info |-> q[i]] \in Line
    BY DEF Line
  <1> QED
    BY <1>1, <1>2

\* removeFiles() removes one file, or fails.
LEMMA RemoveFileBase ==
    ASSUME Base, UNCHANGED config, P!RemoveFile
    PROVE  Base'
  <1>1. PICK r \in me.todo :
          IF r.path = P!Nowhere \/ (r.path \in Paths /\ disk[r.path].c = P!Absent)
          THEN /\ \/ P!RemoveLevel < 2 /\ P!Failed
                  \/ P!RemoveLevel >= 2 /\ me' = [me EXCEPT !.todo = @ \ {r}] /\ UNCHANGED dec
               /\ UNCHANGED <<disk, log>>
          ELSE /\ disk' = [disk EXCEPT ![r.path] = [c |-> P!Absent, x |-> FALSE]]
               /\ P!Logged(<<[op |-> "-", info |-> r]>>)
               /\ me' = [me EXCEPT !.todo = @ \ {r}] /\ UNCHANGED dec
    BY DEF P!RemoveFile
  <1>2. me.at = "remove" /\ UNCHANGED <<summary, release, crashes, torn>>
    BY DEF P!RemoveFile, P!At
  <1>3. dec = P!NoDecompressor
    BY <1>2 DEF Base, DecOrderly, Updating
  <1>4. CASE P!Failed /\ UNCHANGED <<disk, log>>
    BY <1>2, <1>4, FailedBase
  <1>5. CASE me' = [me EXCEPT !.todo = @ \ {r}] /\ UNCHANGED dec
                 /\ disk' \in [Paths -> [c : Nat, x : BOOLEAN]]
             /\ log' \in LogRecord
    <2>1. /\ me' \in MeRecord /\ me'.at = "remove" /\ me'.updateFiles = me.updateFiles
          /\ me'.updateFlags = me.updateFlags
          /\ me'.good = me.good /\ me'.todo \subseteq me.todo
          /\ me'.removeFiles = me.removeFiles /\ me'.part = me.part
      BY <1>2, <1>5 DEF Base, Types, MeRecord
    <2>2. Types'
      BY <1>2, <1>3, <1>5, <2>1, NoDecIs, TypesAfter DEF Base, Types
    <2>3. me.todo \subseteq P!Within(me.removeFiles, me.part \cup {P!Nowhere})
              /\ me.updateFiles \subseteq P!Server /\ me.updateFlags \subseteq P!Server
      BY <1>2 DEF Base, ListsOrderly
    <2> QED
      BY <1>2, <1>3, <1>5, <2>1, <2>2, <2>3, QuietBase
  <1>6. disk \in [Paths -> [c : Nat, x : BOOLEAN]] /\ log \in LogRecord
    BY DEF Base, Types
  <1>7. [disk EXCEPT ![r.path] = [c |-> P!Absent, x |-> FALSE]] \in [Paths -> [c : Nat, x : BOOLEAN]]
    BY <1>6 DEF P!Absent
  <1>8. P!Logged(<<[op |-> "-", info |-> r]>>) => log' \in LogRecord
    <2>1. r \in P!Info
      BY DEF Base, Types, MeRecord
    <2>2. <<[op |-> "-", info |-> r]>> \in Seq(Line)
      BY <2>1 DEF Line
    <2> QED
      BY <2>2, LoggedIs DEF Base
  <1> QED
    BY <1>1, <1>4, <1>5, <1>6, <1>7, <1>8

\* All are removed, and updateFiles() may start the Decompressor.
LEMMA RemoveEndBase ==
    ASSUME Base, UNCHANGED config, P!RemoveEnd
    PROVE  Base'
  <1> DEFINE files == P!Within(me.removeFiles, me.part \cup {P!Nowhere})
             update == P!Within(me.updateFiles, me.part)
  <1>0. me \in MeRecord
    BY DEF Base, Types
  <1>1. /\ me' \in MeRecord /\ me'.at = (IF update = {} THEN "flags" ELSE "update")
        /\ me'.updateFiles = me.updateFiles /\ me'.updateFlags = me.updateFlags
        /\ me'.part = me.part
        /\ me'.todo = (IF update = {} THEN P!Within(me.updateFlags, me.part) ELSE update)
        /\ me'.good = me.good /\ me'.cur = <<>>
    <2>1. update \in SUBSET P!Info /\ P!Within(me.updateFlags, me.part) \in SUBSET P!Info
              /\ <<>> \in Pair
      BY <1>0 DEF MeRecord, P!Within, Pair
    <2>2. files \subseteq me.removeFiles /\ me.localFiles \in SUBSET P!Info
              /\ me.removeFiles \in SUBSET P!Info
      BY <1>0 DEF MeRecord, P!Within
    <2> DEFINE a == IF update = {} THEN "flags" ELSE "update"
               lf == IF P!RemoveLevel < 1 THEN me.localFiles ELSE me.localFiles \ files
               rf == IF P!RemoveLevel < 1 THEN me.removeFiles ELSE me.removeFiles \ files
               td == IF update = {} THEN P!Within(me.updateFlags, me.part) ELSE update
    <2>3. me' = [me EXCEPT !.at = a, !.localFiles = lf, !.removeFiles = rf, !.todo = td,
              !.cur = <<>>, !.nxt = <<>>]
      BY DEF P!RemoveEnd
    <2>4. a \in Places /\ lf \in SUBSET P!Info /\ rf \in SUBSET P!Info /\ td \in SUBSET P!Info
      BY <2>1, <2>2 DEF Places
    <2> HIDE DEF a, lf, rf, td
    <2>5. me' \in MeRecord
      BY <1>0, <2>1, <2>3, <2>4 DEF MeRecord
    <2>6. /\ me'.at = a /\ me'.updateFiles = me.updateFiles /\ me'.updateFlags = me.updateFlags
          /\ me'.part = me.part
          /\ me'.todo = td /\ me'.good = me.good /\ me'.cur = <<>>
      BY <1>0, <2>3 DEF MeRecord
    <2> QED
      BY <2>5, <2>6 DEF a, td
  <1>2. me.at = "remove" /\ UNCHANGED <<disk, summary, log, release, crashes, torn>>
            /\ dec = P!NoDecompressor
    BY DEF P!RemoveEnd, P!At, Base, DecOrderly, Updating
  <1>3. dec' = IF update = {} THEN dec ELSE [P!NoDecompressor EXCEPT !.on = TRUE]
    BY DEF P!RemoveEnd
  <1>4. me.updateFiles \subseteq P!Server /\ me.updateFlags \subseteq P!Server
    BY DEF Base, ListsOrderly
  <1>5. CASE update = {}
    <2>1. Types'
      BY <1>1, <1>2, <1>3, <1>5, NoDecIs, TypesAfter DEF Base, Types
    <2>2. me'.at = "flags" /\ me'.todo \subseteq P!Within(me'.updateFlags, me'.part)
              /\ dec' = P!NoDecompressor
      BY <1>1, <1>2, <1>3, <1>5
    <2> QED
      BY <1>1, <1>2, <1>4, <2>1, <2>2, QuietBase
  <1>6. CASE update # {}
    <2>1. /\ dec' \in DecRecord /\ dec'.on = TRUE /\ dec'.exception = FALSE
          /\ dec'.writing = FALSE /\ dec'.destroy = FALSE
          /\ dec'.files = <<>> /\ dec'.filesDone = <<>> /\ dec'.info = P!NoFile
      BY <1>3, <1>6, NoDecIs DEF DecRecord
    <2>2. Types'
      BY <1>1, <1>2, <2>1, TypesAfter DEF Base, Types
    <2>3. Flying' = {} /\ Done' = {}
      BY <2>1 DEF Flying, Done, InSeq
    <2>4. me'.at = "update" /\ me'.todo = P!Within(me'.updateFiles, me'.part)
      BY <1>1, <1>6
    <2>5. ListsOrderly'
      BY <1>1, <1>2, <1>4, <2>4 DEF ListsOrderly, Loading, Session, P!Server, P!Releases, P!Within
    <2>6. DecOrderly'
      BY <2>1, <2>3, <2>4 DEF DecOrderly, Updating
    <2>7. ChunkSound'
      BY <1>1, <2>4 DEF ChunkSound, Base
    <2> QED
      BY <1>2, <2>2, <2>5, <2>6, <2>7 DEF Base, TornLate
  <1> QED
    BY <1>5, <1>6

\* The patching thread goes on while the Decompressor stays as it is.
LEMMA LoadingBase ==
    ASSUME Base, Types', UNCHANGED <<config, release, crashes, torn, dec>>, me.at \in Loading,
               me'.at \in Loading,
           me'.updateFiles = me.updateFiles, me'.updateFlags = me.updateFlags, me'.part = me.part,
           me'.todo \subseteq me.todo,
           me'.at = "chunk" => me'.file \in P!Within(me.updateFiles, me.part)
               /\ Kind[me'.file.path] = "file",
           ChunkSound'
    PROVE  Base'
  <1>1. /\ me.at \notin {"flags", "remove"} /\ me'.at \notin {"flags", "remove"}
        /\ me.at \in Updating /\ me'.at \in Updating /\ me'.at \in Session
    BY DEF Loading, Updating, Session
  <1>2. ListsOrderly'
    BY <1>1 DEF Base, ListsOrderly, P!Server, P!Releases, P!Within
  <1>3. Flying' = Flying /\ Done' = Done
    BY DEF Flying, Done
  <1>4. DecOrderly'
    BY <1>1, <1>3 DEF Base, DecOrderly, P!Server, P!Releases, P!Within
  <1> QED
    BY <1>2, <1>4 DEF Base, TornLate

\* A directory or an empty file is created: the next chunk is still that of the next file.
LEMMA UpdatePlainBase ==
    ASSUME Base, UNCHANGED config, P!UpdatePlain
    PROVE  Base'
  <1>1. PICK r \in me.todo :
          /\ Kind[r.path] # "file"
          /\ disk' = [disk EXCEPT ![r.path].c = r.c]
          /\ IF Kind[r.path] = "dir" THEN P!Logged(P!Added(<<r>>)) ELSE UNCHANGED log
          /\ me' = [me EXCEPT !.todo = @ \ {r}]
    BY DEF P!UpdatePlain
  <1>2. me.at = "update" /\ UNCHANGED <<summary, release, dec, crashes, torn>>
    BY DEF P!UpdatePlain, P!At
  <1>3. /\ me' \in MeRecord /\ me'.at = "update" /\ me'.updateFiles = me.updateFiles
        /\ me'.updateFlags = me.updateFlags
        /\ me'.part = me.part /\ me'.todo = me.todo \ {r} /\ me'.good = me.good
        /\ me'.cur = me.cur /\ me'.nxt = me.nxt
    BY <1>1, <1>2 DEF Base, Types, MeRecord
  <1>4. r \in P!Info
    BY DEF Base, Types, MeRecord
  <1>5. log' \in LogRecord
    <2>1. <<r>> \in Seq(P!Info)
      BY <1>4
    <2> QED
      BY <1>1, <2>1, AddedIs, LoggedIs DEF Base, Types
  <1>6. disk' \in [Paths -> [c : Nat, x : BOOLEAN]]
    BY <1>1, <1>4 DEF Base, Types, P!Info
  <1>7. Types'
    BY <1>2, <1>3, <1>5, <1>6, TypesAfter DEF Base, Types
  <1>8. P!NextFiles' = P!NextFiles
    BY <1>1, <1>3 DEF P!NextFiles
  <1>9. ChunkSound'
    BY <1>2, <1>3, <1>8 DEF Base, ChunkSound, P!Least
  <1> QED
    BY <1>2, <1>3, <1>7, <1>9, LoadingBase DEF Loading

\* The least of a set of server's files.
LEMMA LeastIsOne ==
    ASSUME NEW T, T \subseteq P!Info, \A s, t \in T : s.path = t.path => s = t,
           NEW f \in T, NEW g \in T, P!Least(f, T), P!Least(g, T)
    PROVE  f = g
  <1>1. f.path \in Nat /\ g.path \in Nat
    BY DEF P!Info
  <1>2. ~(f.path < g.path) /\ ~(g.path < f.path)
    BY DEF P!Least, P!Less
  <1>3. f.path = g.path
    BY <1>1, <1>2
  <1> QED
    BY <1>3

\* The files that are still to be updated: the server's, one of a path.
LEMMA TodoFacts ==
    ASSUME Base, me.at \in Loading
    PROVE  /\ me.todo \subseteq P!Server /\ me.todo \subseteq P!Info
           /\ \A s, t \in me.todo : s.path = t.path => s = t
           /\ \A s \in me.todo : s.path \in Paths /\ s.path \in me.part /\ s \in me.updateFiles
  <1>1. me.todo \subseteq P!Within(me.updateFiles, me.part) /\ me.updateFiles \subseteq P!Server
    BY DEF Base, ListsOrderly
  <1>2. ServerSound
    BY ServerIsSound DEF Base
  <1> QED
    BY <1>1, <1>2 DEF ServerSound, P!Within

\* The download of a file begins: the chunk that was requested ahead is its first.
LEMMA UpdateFileBase ==
    ASSUME Base, UNCHANGED config, P!UpdateFile
    PROVE  Base'
  <1>1. PICK r \in me.todo :
          /\ P!Least(r, me.todo) /\ Kind[r.path] = "file"
          /\ me' = [me EXCEPT !.at = "chunk", !.file = r, !.todo = @ \ {r}, !.pos = 0,
                 !.bz2 = <<>>]
    BY DEF P!UpdateFile
  <1>2. me.at = "update" /\ UNCHANGED <<disk, summary, log, release, dec, crashes, torn>>
    BY DEF P!UpdateFile, P!At
  <1>3. r \in P!Info /\ <<>> \in Seq(Pair) /\ me \in MeRecord
    BY DEF Base, Types, MeRecord
  <1>4. /\ me' \in MeRecord /\ me'.at = "chunk" /\ me'.updateFiles = me.updateFiles
        /\ me'.updateFlags = me.updateFlags
        /\ me'.part = me.part /\ me'.todo = me.todo \ {r} /\ me'.good = me.good
        /\ me'.cur = me.cur /\ me'.nxt = me.nxt
        /\ me'.file = r /\ me'.pos = 0 /\ me'.bz2 = <<>>
    BY <1>1, <1>3 DEF MeRecord, Places
  <1>5. Types'
    BY <1>2, <1>4, TypesAfter DEF Base, Types
  <1>6. r \in P!NextFiles /\ P!Least(r, P!NextFiles) /\ r.path \in Paths
            /\ r \in P!Within(me.updateFiles, me.part)
    BY <1>1, <1>2, TodoFacts DEF P!NextFiles, P!Least, Loading, P!Within
  <1>7. Chunks[r.path] \in Nat /\ Chunks[r.path] > 0
    BY <1>1, <1>6, PatcherAssumption
  <1>8. <<>> = [i \in 1 .. 0 |-> <<r.path, i - 1>>]
    OBVIOUS
  <1>9. me.good = TRUE /\ (me.cur # <<>> => me.nxt = <<r.path, 0>>)
    BY <1>2, <1>6 DEF Base, ChunkSound
  <1>10. ChunkSound'
    BY <1>4, <1>7, <1>8, <1>9 DEF ChunkSound
  <1> QED
    BY <1>1, <1>2, <1>4, <1>5, <1>6, <1>10, LoadingBase DEF Loading

\* A chunk arrives: it is the one that this position of the file needs, and the next was
\* requested.
LEMMA DownloadChunkBase ==
    ASSUME Base, UNCHANGED config, P!DownloadChunk
    PROVE  Base'
  <1> DEFINE current == IF me.cur = <<>> THEN <<me.file.path, me.pos>> ELSE me.nxt
             swapped == IF me.cur = <<>> THEN me.nxt ELSE me.cur
  <1>1. PICK next \in IF P!After = {} THEN {swapped} ELSE P!After :
           me' = [me EXCEPT !.cur = current, !.nxt = next, !.bz2 = Append(@, current), !.pos = @
               + 1]
    BY DEF P!DownloadChunk
  <1>2. /\ me.at = "chunk" /\ me.pos < Chunks[me.file.path]
        /\ UNCHANGED <<disk, summary, log, release, dec, crashes, torn>>
    BY DEF P!DownloadChunk, P!At
  <1>3. /\ me \in MeRecord /\ me.file \in P!Info /\ me.pos \in Nat /\ me.cur \in Pair
        /\ me.nxt \in Pair
        /\ me.bz2 \in Seq(Pair) /\ me.todo \subseteq P!Info
    BY DEF Base, Types, MeRecord
  <1>4. me.file \in P!Within(me.updateFiles, me.part) /\ Kind[me.file.path] = "file"
            /\ me.file \in P!Server
    BY <1>2 DEF Base, ListsOrderly, P!Within
  <1>5. me.file.path \in Paths /\ me.file.path \in Nat /\ Chunks[me.file.path] \in Nat
    BY <1>4, ServerIsSound, PatcherAssumption DEF Base, ServerSound
  <1>6. current = <<me.file.path, me.pos>>
            /\ me.bz2 = [i \in 1 .. me.pos |-> <<me.file.path, i - 1>>] /\ me.good = TRUE
    BY <1>2 DEF Base, ChunkSound
  <1>7. P!After \subseteq Pair /\ swapped \in Pair /\ current \in Pair
    <2>1. \A r \in me.todo : <<r.path, 0>> \in Nat \X Nat
      BY <1>3 DEF P!Info
    <2>2. <<me.file.path, me.pos + 1>> \in Nat \X Nat /\ <<me.file.path, me.pos>> \in Nat \X Nat
      BY <1>3, <1>5
    <2>3. P!After \subseteq Nat \X Nat
      <3>1. P!NextFiles \subseteq me.todo
        BY DEF P!NextFiles
      <3> QED
        BY <2>1, <2>2, <3>1 DEF P!After
    <2>4. swapped \in Pair
      BY <1>3
    <2> QED
      BY <1>6, <2>2, <2>3, <2>4 DEF Pair
  <1>8. next \in Pair /\ Append(me.bz2, current) \in Seq(Pair) /\ me.pos + 1 \in Nat
    BY <1>1, <1>3, <1>7
  <1> HIDE DEF current, swapped
  <1>9. /\ me' \in MeRecord /\ me'.at = "chunk" /\ me'.updateFiles = me.updateFiles
        /\ me'.updateFlags = me.updateFlags
        /\ me'.part = me.part /\ me'.todo = me.todo /\ me'.good = me.good /\ me'.cur = current
        /\ me'.nxt = next
        /\ me'.file = me.file /\ me'.pos = me.pos + 1 /\ me'.bz2 = Append(me.bz2, current)
    BY <1>1, <1>2, <1>3, <1>7, <1>8 DEF MeRecord
  <1>10. Types'
    BY <1>2, <1>9, TypesAfter DEF Base, Types
  <1>11. Append(me.bz2, current) = [i \in 1 .. me.pos + 1 |-> <<me.file.path, i - 1>>]
    <2>1. Len(me.bz2) = me.pos
      BY <1>3, <1>6
    <2> QED
      BY <1>3, <1>6, <1>7, <2>1
  <1>12. current # <<>>
    BY <1>6
  <1>13. me.pos + 1 < Chunks[me.file.path] => next = <<me.file.path, me.pos + 1>>
    BY <1>1 DEF P!After
  <1>14. ASSUME me.pos + 1 = Chunks[me.file.path], NEW f \in P!NextFiles, P!Least(f, P!NextFiles)
         PROVE  next = <<f.path, 0>>
    <2>1. P!After = {<<r.path, 0>> : r \in {g \in P!NextFiles : P!Least(g, P!NextFiles)}}
      BY <1>14, <1>3, <1>5 DEF P!After
    <2>2. \A g \in P!NextFiles : P!Least(g, P!NextFiles) => g = f
      BY <1>2, <1>14, TodoFacts, LeastIsOne DEF P!NextFiles, Loading
    <2>3. P!After = {<<f.path, 0>>}
      BY <1>14, <2>1, <2>2
    <2> QED
      BY <1>1, <2>3
  <1>15. P!NextFiles' = P!NextFiles
    BY <1>9 DEF P!NextFiles
  <1>16. ChunkSound'
    <2>1. me'.pos <= Chunks[me'.file.path]
      BY <1>2, <1>3, <1>5, <1>9
    <2>2. \A f \in P!NextFiles' : P!Least(f, P!NextFiles') =>
              (me'.pos = Chunks[me'.file.path] => me'.nxt = <<f.path, 0>>)
      BY <1>9, <1>14, <1>15
    <2> QED
      BY <1>6, <1>9, <1>11, <1>12, <1>13, <2>1, <2>2 DEF ChunkSound
  <1> QED
    BY <1>2, <1>4, <1>9, <1>10, <1>16, LoadingBase DEF Loading

\* The Decompressor is no longer given files.
LEMMA LeavingBase ==
    ASSUME Base, Types', UNCHANGED <<config, release, crashes, torn>>, me.at \in Updating,
               me'.at \in {"join", "abort"},
           me'.updateFiles \subseteq me.updateFiles, me'.updateFlags = me.updateFlags,
               me'.part = me.part,
           me'.good = me.good, Flying' = Flying, Done' \subseteq Done,
               dec'.writing = dec.writing, dec'.info = dec.info,
           dec'.on = dec.on, dec'.exception = dec.exception
    PROVE  Base'
  <1>1. /\ me'.at \notin {"flags", "remove", "chunk", "update"} /\ me'.at \notin Loading
        /\ me'.at \in Updating /\ me'.at \in Session
    BY DEF Loading, Updating, Session
  <1>2. ListsOrderly'
    BY <1>1 DEF Base, ListsOrderly, P!Server, P!Releases, P!Within
  <1>4. DecOrderly'
    BY <1>1 DEF Base, DecOrderly, P!Server, P!Releases, P!Within
  <1>5. ChunkSound'
    BY <1>1 DEF Base, ChunkSound
  <1> QED
    BY <1>2, <1>4, <1>5 DEF Base, TornLate

\* A file is complete: its chunks were its own in their order, and the Decompressor gets
\* it unless it failed.
LEMMA DownloadEndBase ==
    ASSUME Base, UNCHANGED config, P!DownloadEnd
    PROVE  Base'
  <1>1. /\ me.at = "chunk" /\ me.pos = Chunks[me.file.path] /\ P!Logged(P!Added(dec.filesDone))
        /\ UNCHANGED <<disk, summary, release, crashes, torn>>
    BY DEF P!DownloadEnd, P!At
  <1>2. /\ me \in MeRecord /\ dec \in DecRecord /\ dec.files \in Seq(P!Info)
        /\ dec.filesDone \in Seq(P!Info)
        /\ me.file \in P!Info /\ <<>> \in Seq(P!Info)
        /\ Append(dec.files, me.file) \in Seq(P!Info)
    <2>1. me \in MeRecord /\ dec \in DecRecord /\ dec.files \in Seq(P!Info)
              /\ dec.filesDone \in Seq(P!Info) /\ me.file \in P!Info
      BY DEF Base, Types, MeRecord, DecRecord
    <2> QED
      BY <2>1
  <1>3. log' \in LogRecord
    BY <1>1, <1>2, AddedIs, LoggedIs DEF Base
  <1>4. me.file \in P!Within(me.updateFiles, me.part) /\ Kind[me.file.path] = "file"
            /\ me.file \in P!Within(P!Server, me.part)
    BY <1>1 DEF Base, ListsOrderly, P!Within
  <1>5. CASE dec.exception
    <2>1. P!Goes("abort") /\ dec' = [dec EXCEPT !.filesDone = <<>>]
      BY <1>5 DEF P!DownloadEnd
    <2>2. /\ me' \in MeRecord /\ me'.at = "abort" /\ me'.updateFiles = me.updateFiles
          /\ me'.updateFlags = me.updateFlags
          /\ me'.part = me.part /\ me'.good = me.good
      BY <1>2, <2>1 DEF P!Goes, MeRecord, Places
    <2>3. /\ dec' \in DecRecord /\ dec'.files = dec.files /\ dec'.filesDone = <<>>
          /\ dec'.writing = dec.writing
          /\ dec'.info = dec.info /\ dec'.on = dec.on /\ dec'.exception = dec.exception
      BY <1>2, <2>1 DEF DecRecord
    <2>4. Types'
      BY <1>1, <1>3, <2>2, <2>3, TypesAfter DEF Base, Types
    <2>5. Flying' = Flying /\ Done' = {}
      BY <2>3 DEF Flying, Done, InSeq
    <2> QED
      BY <1>1, <2>2, <2>3, <2>4, <2>5, LeavingBase DEF Updating
  <1>6. CASE ~dec.exception
    <2> DEFINE g == me.good /\ me.bz2 = [i \in 1 .. Chunks[me.file.path] |-> <<me.file.path, i - 1>>]
    <2>1. /\ me' = [me EXCEPT !.at = "update", !.file = P!NoFile, !.good = g]
          /\ dec' = [dec EXCEPT !.filesDone = <<>>, !.files = Append(@, me.file)]
      BY <1>6 DEF P!DownloadEnd
    <2>2. g = TRUE
      BY <1>1 DEF Base, ChunkSound
    <2> HIDE DEF g
    <2>3. /\ me' \in MeRecord /\ me'.at = "update" /\ me'.updateFiles = me.updateFiles
          /\ me'.updateFlags = me.updateFlags
          /\ me'.part = me.part /\ me'.todo = me.todo /\ me'.good = TRUE /\ me'.cur = me.cur
          /\ me'.nxt = me.nxt
      BY <1>2, <2>1, <2>2, NoDecIs DEF MeRecord, Places
    <2>12. dec' = [dec EXCEPT !.filesDone = <<>>, !.files = Append(dec.files, me.file)]
      BY <2>1
    <2>4. /\ dec' \in DecRecord /\ dec'.files = Append(dec.files, me.file)
          /\ dec'.destroy = dec.destroy /\ dec'.filesDone = <<>> /\ dec'.writing = dec.writing
          /\ dec'.info = dec.info /\ dec'.on = dec.on /\ dec'.exception = dec.exception
      BY <1>2, <2>12 DEF DecRecord
    <2>5. Types'
      BY <1>1, <1>3, <2>3, <2>4, TypesAfter DEF Base, Types
    <2>6. Flying' = Flying \cup {me.file} /\ Done' = {}
      <3>1. InSeq(Append(dec.files, me.file)) = InSeq(dec.files) \cup {me.file}
        BY <1>2, InSeqAppend
      <3>2. InSeq(<<>>) = {}
        BY DEF InSeq
      <3>3. me.file # P!NoFile
        BY <1>4, ServerIsSound DEF ServerSound, Base, P!Within
      <3> QED
        BY <2>4, <3>1, <3>2, <3>3 DEF Flying, Done
    <2>7. ListsOrderly'
      BY <1>1, <2>3 DEF Base, ListsOrderly, P!Server, P!Releases, P!Within, Loading, Session
    <2>8. dec.on = TRUE
      BY <1>1, <1>2, <1>6 DEF Base, DecOrderly, Loading, DecRecord
    <2>9. DecOrderly'
      <3>1. P!Server' = P!Server
        BY <1>1 DEF P!Server, P!Releases
      <3> QED
        BY <1>1, <1>4, <2>3, <2>4, <2>6, <2>8, <3>1 DEF Base, DecOrderly, P!Within, Updating,
               Loading
    <2>10. P!NextFiles' = P!NextFiles
      BY <2>3 DEF P!NextFiles
    <2>11. ChunkSound'
      BY <1>1, <2>3, <2>10 DEF Base, ChunkSound
    <2> QED
      BY <1>1, <2>5, <2>7, <2>9, <2>11 DEF Base, TornLate
  <1> QED
    BY <1>5, <1>6

\* All files are downloaded, and the Decompressor will be told to end.
LEMMA UpdateEndBase ==
    ASSUME Base, UNCHANGED config, P!UpdateEnd
    PROVE  Base'
  <1>1. /\ me.at = "update" /\ UNCHANGED <<disk, summary, log, release, dec, crashes, torn>>
        /\ me' = [me EXCEPT !.at = "join",
               !.localFiles = @ \cup P!Within(me.updateFiles, me.part),
                            !.updateFiles = @ \ P!Within(me.updateFiles, me.part)]
    BY DEF P!UpdateEnd, P!At
  <1>2. me \in MeRecord /\ P!Within(me.updateFiles, me.part) \in SUBSET P!Info
    BY DEF Base, Types, MeRecord, P!Within
  <1>3. /\ me' \in MeRecord /\ me'.at = "join" /\ me'.updateFiles \subseteq me.updateFiles
        /\ me'.updateFlags = me.updateFlags
        /\ me'.part = me.part /\ me'.good = me.good
    BY <1>1, <1>2 DEF MeRecord, Places
  <1>4. Types'
    BY <1>1, <1>3, TypesAfter DEF Base, Types
  <1>5. Flying' = Flying /\ Done' = Done
    BY <1>1 DEF Flying, Done
  <1> QED
    BY <1>1, <1>3, <1>4, <1>5, LeavingBase DEF Updating

\* The server, the application or the disk fails.
LEMMA UpdateFailsBase ==
    ASSUME Base, UNCHANGED config, P!UpdateFails
    PROVE  Base'
  <1>1. me.at \in Updating /\ UNCHANGED <<disk, summary, log, release, dec, crashes, torn>>
    BY DEF P!UpdateFails, P!At, Updating
  <1>2. /\ me' \in MeRecord /\ me'.at = "abort" /\ me'.updateFiles = me.updateFiles
        /\ me'.updateFlags = me.updateFlags
        /\ me'.part = me.part /\ me'.good = me.good
    BY DEF P!UpdateFails, P!Goes, Base, Types, MeRecord, Places
  <1>3. Types'
    BY <1>1, <1>2, TypesAfter DEF Base, Types
  <1>4. Flying' = Flying /\ Done' = Done
    BY <1>1 DEF Flying, Done
  <1> QED
    BY <1>1, <1>2, <1>3, <1>4, LeavingBase

\* The Decompressor is told to end.
LEMMA DestroyBase ==
    ASSUME Base, UNCHANGED config, P!Destroy
    PROVE  Base'
  <1>1. me.at \in {"join", "abort"}
            /\ UNCHANGED <<disk, summary, log, release, me, crashes, torn>>
    BY DEF P!Destroy
  <1>2. /\ dec' \in DecRecord /\ dec'.files = dec.files /\ dec'.filesDone = dec.filesDone
        /\ dec'.writing = dec.writing
        /\ dec'.info = dec.info /\ dec'.on = dec.on /\ dec'.exception = dec.exception
    BY DEF P!Destroy, Base, Types, DecRecord
  <1>3. Types'
    BY <1>1, <1>2, TypesAfter DEF Base, Types
  <1>4. Flying' = Flying /\ Done' = Done
    BY <1>2 DEF Flying, Done
  <1> QED
    BY <1>1, <1>2, <1>3, <1>4, LeavingBase DEF Updating

\* The Decompressor has ended.
LEMMA JoinBase ==
    ASSUME Base, UNCHANGED config, P!Join
    PROVE  Base'
  <1>1. me.at \in {"join", "abort"} /\ UNCHANGED <<disk, summary, release, crashes, torn>>
            /\ P!Logged(P!Added(dec.filesDone))
    BY DEF P!Join
  <1>2. me \in MeRecord /\ dec.filesDone \in Seq(P!Info)
    BY DEF Base, Types, DecRecord
  <1>3. log' \in LogRecord
    BY <1>1, <1>2, AddedIs, LoggedIs DEF Base
  <1>4. CASE P!Failed
    <2>1. /\ me' \in MeRecord /\ me'.at = "idle" /\ me'.updateFiles = {} /\ me'.updateFlags = {}
          /\ me'.good = TRUE
          /\ dec' = P!NoDecompressor
      BY <1>4, NoSessionIs DEF P!Failed, MeRecord
    <2>2. Types'
      BY <1>1, <1>3, <2>1, NoDecIs, TypesAfter DEF Base, Types
    <2> QED
      BY <1>1, <2>1, <2>2, RestAfter DEF Session, TornLate, Base
  <1>5. CASE /\ me' = [me EXCEPT !.at = "flags", !.todo = P!Within(me.updateFlags, me.part)]
             /\ dec' = P!NoDecompressor
    <2>1. P!Within(me.updateFlags, me.part) \in SUBSET P!Info
      BY <1>2 DEF MeRecord, P!Within
    <2>2. /\ me' \in MeRecord /\ me'.at = "flags"
          /\ me'.todo = P!Within(me'.updateFlags, me'.part)
          /\ me'.updateFiles = me.updateFiles /\ me'.updateFlags = me.updateFlags
          /\ me'.good = me.good
      BY <1>2, <1>5, <2>1 DEF MeRecord, Places
    <2>3. Types'
      BY <1>1, <1>3, <1>5, <2>2, NoDecIs, TypesAfter DEF Base, Types
    <2> QED
      BY <1>1, <1>5, <2>2, <2>3, QuietBase DEF Base, ListsOrderly
  <1> QED
    BY <1>4, <1>5 DEF P!Join

\* updateFlags() sets one flag, or fails.
LEMMA UpdateFlagBase ==
    ASSUME Base, UNCHANGED config, P!UpdateFlag
    PROVE  Base'
  <1>1. PICK r \in me.todo :
          IF Kind[r.path] = "dir"
          THEN me' = [me EXCEPT !.todo = @ \ {r}] /\ UNCHANGED <<disk, dec>>
          ELSE IF disk[r.path].c = P!Absent THEN P!Failed /\ UNCHANGED disk
          ELSE /\ disk' = [disk EXCEPT ![r.path].x = r.x]
               /\ me' = [me EXCEPT !.todo = @ \ {r}] /\ UNCHANGED dec
    BY DEF P!UpdateFlag
  <1>2. me.at = "flags" /\ UNCHANGED <<summary, log, release, crashes, torn>>
    BY DEF P!UpdateFlag, P!At
  <1>3. dec = P!NoDecompressor
    BY <1>2 DEF Base, DecOrderly, Updating
  <1>4. CASE P!Failed /\ UNCHANGED disk
    BY <1>2, <1>4, FailedBase
  <1>5. CASE me' = [me EXCEPT !.todo = @ \ {r}] /\ UNCHANGED dec
                 /\ disk' \in [Paths -> [c : Nat, x : BOOLEAN]]
    <2>1. /\ me' \in MeRecord /\ me'.at = "flags" /\ me'.updateFiles = me.updateFiles
          /\ me'.updateFlags = me.updateFlags
          /\ me'.good = me.good /\ me'.todo \subseteq me.todo /\ me'.part = me.part
      BY <1>2, <1>5 DEF Base, Types, MeRecord
    <2>2. Types'
      BY <1>2, <1>3, <1>5, <2>1, NoDecIs, TypesAfter DEF Base, Types
    <2>3. me.todo \subseteq P!Within(me.updateFlags, me.part)
              /\ me.updateFiles \subseteq P!Server /\ me.updateFlags \subseteq P!Server
      BY <1>2 DEF Base, ListsOrderly
    <2> QED
      BY <1>2, <1>3, <1>5, <2>1, <2>2, <2>3, QuietBase
  <1>6. disk \in [Paths -> [c : Nat, x : BOOLEAN]] /\ r.x \in BOOLEAN
    BY DEF Base, Types, MeRecord, P!Info
  <1>7. [disk EXCEPT ![r.path].x = r.x] \in [Paths -> [c : Nat, x : BOOLEAN]]
    BY <1>6
  <1> QED
    BY <1>1, <1>4, <1>5, <1>6, <1>7

\* All flags are set.
LEMMA UpdateFlagsEndBase ==
    ASSUME Base, UNCHANGED config, P!UpdateFlagsEnd
    PROVE  Base'
  <1> DEFINE files == P!Within(me.updateFlags, me.part)
             lf == P!WithoutFlags(me.localFiles, files) \cup files
  <1>1. /\ me.at = "flags" /\ UNCHANGED <<disk, summary, log, release, dec, crashes, torn>>
        /\ me' = [me EXCEPT !.at = "ready", !.full = @
               \/ me.all, !.localFiles = lf, !.updateFlags = @ \ files]
    BY DEF P!UpdateFlagsEnd, P!At
  <1>2. me \in MeRecord /\ files \in SUBSET P!Info /\ lf \in SUBSET P!Info
            /\ (me.full \/ me.all) \in BOOLEAN
    BY DEF Base, Types, MeRecord, P!Within, P!WithoutFlags
  <1> HIDE DEF files, lf
  <1>3. /\ me' \in MeRecord /\ me'.at = "ready" /\ me'.updateFiles = me.updateFiles
        /\ me'.updateFlags \subseteq me.updateFlags
        /\ me'.good = me.good
    BY <1>1, <1>2 DEF MeRecord, Places
  <1>4. Types'
    BY <1>1, <1>3, TypesAfter DEF Base, Types
  <1>5. dec' = P!NoDecompressor
    BY <1>1 DEF Base, DecOrderly, Updating
  <1> QED
    BY <1>1, <1>3, <1>4, <1>5, QuietBase DEF Base, ListsOrderly

\* Steps of the Decompressor.
LEMMA DecompressBase ==
    ASSUME Base, UNCHANGED config, P!Decompress
    PROVE  Base'
  <1>1. dec.on /\ UNCHANGED <<summary, log, release, me, crashes, torn>>
    BY DEF P!Decompress, P!DecompressorTake, P!DecompressorOpen, P!DecompressorDone,
           P!DecompressorFails, P!DecompressorExit
  <1>2. me.at \in Updating
    BY <1>1, NoDecIs DEF Base, DecOrderly
  <1>3. dec \in DecRecord /\ dec.files \in Seq(P!Info) /\ dec.filesDone \in Seq(P!Info)
            /\ dec.info \in P!Info
    BY DEF Base, Types, DecRecord
  <1>4. /\ dec' \in DecRecord /\ Flying' \subseteq Flying /\ Done' \subseteq Done \cup Flying
        /\ dec'.writing => dec'.info # P!NoFile
        /\ ~dec'.on /\ ~dec'.exception => Flying' = {}
    <2>1. CASE P!DecompressorTake
      <3>1. dec.files # <<>> /\ dec' = [dec EXCEPT !.info = Head(dec.files),
                !.files = Tail(dec.files)]
            /\ dec.info = P!NoFile
        BY <2>1 DEF P!DecompressorTake
      <3>2. /\ Head(dec.files) \in P!Info /\ Tail(dec.files) \in Seq(P!Info)
            /\ InSeq(dec.files) = {Head(dec.files)} \cup InSeq(Tail(dec.files))
        BY <1>3, <3>1, InSeqTail
      <3>3. /\ dec' \in DecRecord /\ dec'.info = Head(dec.files) /\ dec'.files = Tail(dec.files)
            /\ dec'.on = dec.on /\ dec'.writing = dec.writing /\ dec'.filesDone = dec.filesDone
        BY <1>3, <3>1, <3>2 DEF DecRecord
      <3>4. ~dec.writing
        BY <3>1 DEF Base, DecOrderly
      <3>5. Flying' \subseteq Flying /\ Done' = Done
        BY <3>2, <3>3 DEF Flying, Done
      <3> QED
        BY <1>1, <3>3, <3>4, <3>5
    <2>2. CASE P!DecompressorOpen
      <3>1. dec.info # P!NoFile /\ dec' = [dec EXCEPT !.writing = TRUE]
        BY <2>2 DEF P!DecompressorOpen
      <3>2. /\ dec' \in DecRecord /\ dec'.info = dec.info /\ dec'.files = dec.files
            /\ dec'.on = dec.on /\ dec'.filesDone = dec.filesDone
        BY <1>3, <3>1 DEF DecRecord
      <3> QED
        BY <1>1, <3>1, <3>2 DEF Flying, Done
    <2>3. CASE P!DecompressorDone
      <3>1. dec.writing /\ dec' = [dec EXCEPT !.filesDone = Append(dec.filesDone, dec.info),
                !.info = P!NoFile, !.writing = FALSE]
        BY <2>3 DEF P!DecompressorDone
      <3>2. dec.info # P!NoFile /\ Append(dec.filesDone, dec.info) \in Seq(P!Info)
        BY <1>3, <3>1 DEF Base, DecOrderly
      <3>3. /\ dec' \in DecRecord /\ dec'.info = P!NoFile /\ dec'.files = dec.files
            /\ dec'.writing = FALSE
            /\ dec'.on = dec.on /\ dec'.filesDone = Append(dec.filesDone, dec.info)
        BY <1>3, <3>1, <3>2, NoDecIs DEF DecRecord
      <3>4. InSeq(dec'.filesDone) = InSeq(dec.filesDone) \cup {dec.info}
        BY <1>3, <3>3, InSeqAppend
      <3> QED
        BY <1>1, <3>2, <3>3, <3>4 DEF Flying, Done
    <2>4. CASE P!DecompressorFails
      <3>1. dec.writing /\ dec' = [dec EXCEPT !.on = FALSE, !.destroy = TRUE, !.exception = TRUE]
        BY <2>4 DEF P!DecompressorFails
      <3>2. /\ dec' \in DecRecord /\ dec'.info = dec.info /\ dec'.files = dec.files
            /\ dec'.writing = dec.writing
            /\ dec'.exception = TRUE /\ dec'.filesDone = dec.filesDone
        BY <1>3, <3>1 DEF DecRecord
      <3>3. dec.info # P!NoFile
        BY <3>1 DEF Base, DecOrderly
      <3> QED
        BY <3>2, <3>3 DEF Flying, Done
    <2>5. CASE P!DecompressorExit
      <3>1. dec.info = P!NoFile /\ dec.files = <<>> /\ dec' = [dec EXCEPT !.on = FALSE]
        BY <2>5 DEF P!DecompressorExit
      <3>2. /\ dec' \in DecRecord /\ dec'.info = dec.info /\ dec'.files = dec.files
            /\ dec'.writing = dec.writing
            /\ dec'.filesDone = dec.filesDone
        BY <1>3, <3>1 DEF DecRecord
      <3>3. ~dec.writing
        BY <3>1 DEF Base, DecOrderly
      <3> QED
        BY <3>1, <3>2, <3>3 DEF Flying, Done, InSeq
    <2> QED
      BY <2>1, <2>2, <2>3, <2>4, <2>5 DEF P!Decompress
  <1>5. disk' \in [Paths -> [c : Nat, x : BOOLEAN]]
    <2>1. disk \in [Paths -> [c : Nat, x : BOOLEAN]]
      BY DEF Base, Types
    <2>2. [disk EXCEPT ![dec.info.path].c = P!Partial] \in [Paths -> [c : Nat, x : BOOLEAN]]
      BY <2>1 DEF P!Partial
    <2>3. [disk EXCEPT ![dec.info.path] = P!Described(dec.info)] \in [Paths -> [c : Nat, x : BOOLEAN]]
      BY <1>3, <2>1 DEF P!Described, P!Info
    <2>4. \/ disk' = disk \/ disk' = [disk EXCEPT ![dec.info.path].c = P!Partial]
          \/ disk' = [disk EXCEPT ![dec.info.path] = P!Described(dec.info)]
      BY DEF P!Decompress, P!DecompressorTake, P!DecompressorOpen, P!DecompressorDone,
             P!DecompressorFails, P!DecompressorExit
    <2> QED
      BY <2>1, <2>2, <2>3, <2>4
  <1>6. Types'
    BY <1>1, <1>4, <1>5, TypesAfter DEF Base, Types
  <1>7. ListsOrderly' /\ ChunkSound' /\ TornLate'
    BY <1>1 DEF Base, ListsOrderly, ChunkSound, TornLate, P!Server, P!Releases, P!Within,
           P!NextFiles
  <1>8. me.at \in Loading => (~dec'.on => dec'.exception) /\ (dec'.on => ~dec'.destroy)
    <2>1. CASE P!DecompressorExit
      <3>1. dec.destroy
        BY <2>1 DEF P!DecompressorExit
      <3> QED
        BY <1>1, <3>1 DEF Base, DecOrderly
    <2>2. CASE ~P!DecompressorExit
      <3>1. me.at \in Loading => ~dec.destroy
        BY <1>1 DEF Base, DecOrderly
      <3> QED
        BY <1>1, <1>3, <2>2, <3>1 DEF P!Decompress, P!DecompressorTake, P!DecompressorOpen,
               P!DecompressorDone, P!DecompressorFails, DecRecord
    <2> QED
      BY <2>1, <2>2
  <1>9. DecOrderly'
    <2>1. P!Server' = P!Server /\ me' = me
      BY <1>1 DEF P!Server, P!Releases
    <2> QED
      BY <1>2, <1>4, <1>8, <2>1 DEF Base, DecOrderly, P!Within
  <1> QED
    BY <1>6, <1>7, <1>9 DEF Base

\* Every step keeps the first part of the invariant.
LEMMA BaseStep ==
    ASSUME Base, P!Next
    PROVE  Base'
  <1>1. UNCHANGED config
    BY DEF P!Next
  <1>2. CASE \E thorough \in BOOLEAN : P!Prepare(thorough)
    BY <1>1, <1>2, PrepareBase
  <1>3. CASE P!SaveOpen \/ P!SaveClose \/ P!SaveEnd
    BY <1>1, <1>3, SaveBase
  <1>4. CASE P!List \/ P!RemoveFile \/ P!RemoveEnd \/ P!Finish
    BY <1>1, <1>4, ListBase, RemoveFileBase, RemoveEndBase, FinishBase
  <1>5. CASE \E dir \in {Paths} \cup {{p} : p \in Paths} : P!Patch(dir)
    BY <1>1, <1>5, PatchBase
  <1>6. CASE P!UpdatePlain \/ P!UpdateFile \/ P!DownloadChunk \/ P!DownloadEnd \/ P!UpdateEnd
                 \/ P!UpdateFails
    BY <1>1, <1>6, UpdatePlainBase, UpdateFileBase, DownloadChunkBase, DownloadEndBase,
           UpdateEndBase, UpdateFailsBase
  <1>7. CASE P!Destroy \/ P!Join \/ P!UpdateFlag \/ P!UpdateFlagsEnd
    BY <1>1, <1>7, DestroyBase, JoinBase, UpdateFlagBase, UpdateFlagsEndBase
  <1>8. CASE P!Decompress
    BY <1>1, <1>8, DecompressBase
  <1>9. CASE P!Crash \/ P!Publish
    BY <1>1, <1>9, CrashBase, PublishBase
  <1>10. CASE P!ListFails
    BY <1>1, <1>10, FailedBase DEF P!ListFails
  <1> QED
    BY <1>2, <1>3, <1>4, <1>5, <1>6, <1>7, <1>8, <1>9, <1>10 DEF P!Next, P!Work

-----------------------------------------------------------------------------
(* prepare(), saving the summary, finish(), crashes and releases *)

\* What a step leaves that changes neither the server nor the client.
LEMMA SameServer ==
    ASSUME UNCHANGED <<config, release>>
    PROVE  /\ P!Server' = P!Server /\ P!Releases' = P!Releases /\ P!RemoveLevel' = P!RemoveLevel
           /\ \A r : Past(r)' <=> Past(r)
  BY DEF P!Server, P!Releases, P!RemoveLevel, Past, PastContents, PastInfo

\* The files are what they were if a step touches none of them.
LEMMA StoredSame ==
    ASSUME Stored, UNCHANGED <<config, release, disk, summary, log, crashes>>,
           me.at \in {"saving", "saved"} => me'.at \in {"saving", "saved"}
    PROVE  Stored'
  <1>1. /\ P!Server' = P!Server /\ P!RemoveLevel' = P!RemoveLevel /\ \A r : Past(r)' <=> Past(r)
    BY SameServer
  <1>2. Plus' = Plus /\ Minus' = Minus
    BY DEF Plus, Minus, P!Lines
  <1>3. DiskPast' /\ AllPast'
    BY <1>1, <1>2 DEF Stored, DiskPast, AllPast
  <1>4. SummaryKnows'
    BY <1>1 DEF Stored, SummaryKnows, Knows
  <1>5. PlusSound'
    BY <1>2 DEF Stored, PlusSound
  <1>6. Unique'
    BY <1>1, <1>2 DEF Stored, Unique, Removed, Tidy
  <1>7. HonestSound'
    BY <1>1, <1>2 DEF Stored, HonestSound, Honest
  <1> QED
    BY <1>3, <1>4, <1>5, <1>6, <1>7 DEF Stored

\* Outside of a session.
LEMMA NoSessions ==
    ASSUME me'.at \notin Session
    PROVE  Sessions'
  <1>1. me'.at \notin Updating /\ me'.at \notin Loading /\ me'.at \notin {"join", "flags"}
    BY DEF Session, Updating, Loading
  <1> QED
    BY <1>1 DEF Sessions, ListsSound, TidySound, LocalSound, LogSound, RemoveSound, UpdateSound,
           LoadSound, FlagsSound

\* Steps within a session say nothing of its end.
LEMMA EndsInSession ==
    ASSUME Ends, me.at \in Session, me'.at \in Session, me'.ended = me.ended
    PROVE  Ends'
  <1>1. me.at \notin Saving \cup {"idle", "list"} /\ me'.at \notin Saving \cup {"idle", "list"}
    BY DEF Session, Saving
  <1>2. me.ended # "finished"
    BY <1>1 DEF Ends, FinishSound
  <1> QED
    BY <1>1, <1>2 DEF Ends, SaveSound, ListSound, FinishSound

\* A failed session is over, and has not finished.
LEMMA FailedIs ==
    ASSUME P!Failed
    PROVE  me'.at = "idle" /\ me'.ended = "failed" /\ Ends' /\ Sessions'
  <1>1. me'.at = "idle" /\ me'.ended = "failed" /\ me'.then = "idle"
    BY DEF P!Failed, P!NoSession
  <1> QED
    BY <1>1, NoSessions DEF Ends, SaveSound, ListSound, FinishSound, Saving, Session

\* A session that fails leaves the files as they are.
LEMMA FailedGood ==
    ASSUME Good, P!Failed, UNCHANGED <<config, disk, summary, log, release, crashes>>,
               me.at \notin {"saving", "saved"}
    PROVE  Good'
  BY FailedIs, StoredSame DEF Good

\* getFileInfoSeq(): what a scan finds is so.
LEMMA ScanIs ==
    ASSUME Base, Stored
    PROVE  /\ \A k \in P!Scan : Past(k) /\ Right(disk, k) /\ k.path \in Paths
           /\ Knows(disk, P!Scan, {})
           /\ Tidy => OneEach(P!Scan \cup Plus)
  <1>1. \A k \in P!Scan : /\ k.path \in Paths /\ k.c = disk[k.path].c /\ k.x = disk[k.path].x /\ k.c # P!Absent
                          /\ k = [path |-> k.path, c |-> disk[k.path].c, x |-> disk[k.path].x]
    BY DEF P!Scan
  <1>2. \A k \in P!Scan : Past(k)
    BY <1>1 DEF Stored, DiskPast
  <1>3. Knows(disk, P!Scan, {})
    BY <1>1 DEF Knows, Right, OnDisk, P!SameContents
  <1>4. \A k, l \in P!Scan : k.path = l.path => k = l
    BY <1>1
  <1>5. ASSUME NEW k \in P!Scan, NEW l \in Plus, k.path = l.path
        PROVE  k = l
    <2>1. l \in P!Info
      BY LogFacts DEF Plus, P!Lines, Base
    <2>2. l.c = disk[k.path].c /\ (Kind[k.path] = "file" => l.x = disk[k.path].x)
      BY <1>5 DEF Stored, PlusSound, OnDisk
    <2>3. l.x = disk[k.path].x
      <3>1. l.x \in BOOLEAN /\ Kind[k.path] \in {"dir", "empty", "file"} /\ Kind[k.path] # "empty"
        BY <1>1, <1>5, <2>1, PatcherAssumption DEF P!Info, Stored, PlusSound
      <3>2. Kind[k.path] = "dir" => ~l.x /\ disk[k.path].x = FALSE
        BY <1>1, <1>5 DEF Stored, PlusSound, DiskPast
      <3> QED
        BY <2>2, <3>1, <3>2
    <2>4. l = [path |-> l.path, c |-> l.c, x |-> l.x]
      BY <2>1 DEF P!Info
    <2> QED
      BY <1>1, <1>5, <2>2, <2>3, <2>4
  <1>6. Tidy => \A k, l \in Plus : k.path = l.path => k = l
    BY DEF Stored, Unique, OneEach
  <1> QED
    BY <1>1, <1>2, <1>3, <1>4, <1>5, <1>6 DEF OneEach, Right

\* loadFileInfoSeq(): the summary with the log describes the disk.
LEMMA MergedIs ==
    ASSUME Base, Stored
    PROVE  /\ P!Merged = (summary.infos \ Minus) \cup Plus
           /\ \A k \in P!Merged : Past(k)
           /\ Knows(disk, P!Merged, {})
           /\ Tidy => OneEach(P!Merged)
           /\ Honest /\ me.at = "idle" => \A k \in P!Merged : Right(disk, k)
  <1>1. P!Merged = (summary.infos \ Minus) \cup Plus
    <2>1. CASE log.there
      BY <2>1 DEF P!Merged, Minus, Plus
    <2>2. CASE ~log.there
      <3>1. log.lines = <<>>
        BY <2>2 DEF Stored, PlusSound
      <3>2. Minus = {} /\ Plus = {}
        BY <3>1 DEF Minus, Plus, P!Lines
      <3> QED
        BY <2>2, <3>2 DEF P!Merged
    <2> QED
      BY <2>1, <2>2
  <1>2. \A k \in P!Merged : Past(k)
    BY <1>1 DEF Stored, AllPast
  <1>3. ServerSound
    BY ServerIsSound DEF Base
  <1>4. Knows(disk, P!Merged, {})
    <2>1. Knows(disk, summary.infos, {})
      BY DEF Stored, SummaryKnows
    <2>2. \A k \in Plus : OnDisk(disk, k)
      BY DEF Stored, PlusSound
    <2> QED
      BY <1>1, <2>1, <2>2 DEF Knows, OnDisk, Right, P!SameContents
  <1>5. Tidy => OneEach(P!Merged)
    <2> SUFFICES ASSUME Tidy, NEW k \in summary.infos, k \notin Minus, NEW l \in Plus,
                            k.path = l.path PROVE k = l
      BY <1>1 DEF OneEach, Stored, Unique
    <2>1. PICK i \in DOMAIN log.lines : log.lines[i].op = "+" /\ log.lines[i].info = l
      BY DEF Plus, P!Lines
    <2>2. k = l \/ Removed(k, i)
      BY <2>1 DEF Stored, Unique
    <2>3. ASSUME Removed(k, i) PROVE FALSE
      <3>1. PICK j \in 1 .. i : log.lines[j].op = "-" /\ log.lines[j].info = k
        BY <2>3 DEF Removed
      <3>2. j \in DOMAIN log.lines
        BY <2>1, LogFacts DEF Base
      <3> QED
        BY <3>1, <3>2 DEF Minus, P!Lines
    <2> QED
      BY <2>2, <2>3
  <1>6. Honest /\ me.at = "idle" => \A k \in P!Merged : Right(disk, k)
    BY <1>1 DEF Stored, HonestSound, PlusSound, OnDisk, Right
  <1> QED
    BY <1>1, <1>2, <1>4, <1>5, <1>6

\* prepare() begins with a list that knows the server's files.
LEMMA PrepareGood ==
    ASSUME Base, Good, UNCHANGED config, NEW thorough \in BOOLEAN, P!Prepare(thorough)
    PROVE  Good'
  <1>1. me.at = "idle" /\ UNCHANGED <<disk, summary, log, release, dec, crashes, torn>>
    BY DEF P!Prepare, P!At
  <1>2. /\ me'.at = (IF thorough \/ log.there THEN "save" ELSE "list")
        /\ me'.localFiles = (IF thorough THEN P!Scan ELSE P!Merged) /\ me'.ended = "none"
        /\ me'.then = "list" /\ me'.full = FALSE /\ me'.all = FALSE
    BY DEF P!Prepare, P!NoSession
  <1>3. Stored'
    BY <1>1, StoredSame DEF Good
  <1>4. Sessions'
    BY <1>2, NoSessions DEF Session
  <1>5. /\ \A k \in me'.localFiles : Past(k)
        /\ Knows(disk, me'.localFiles, {})
        /\ Tidy => OneEach(me'.localFiles \cup Plus)
        /\ Honest => \A k \in me'.localFiles : Right(disk, k)
    <2>1. CASE thorough
      BY <1>2, <2>1, ScanIs DEF Good
    <2>2. CASE ~thorough
      <3>1. Plus \subseteq P!Merged
        BY MergedIs DEF Good
      <3> QED
        BY <1>1, <1>2, <2>2, <3>1, MergedIs DEF Good, OneEach
    <2> QED
      BY <2>1, <2>2
  <1>6. SaveSound'
    <2>1. P!Server' = P!Server /\ P!RemoveLevel' = P!RemoveLevel /\ \A r : Past(r)' <=> Past(r)
      BY <1>1, SameServer
    <2>2. Plus' = Plus
      BY <1>1 DEF Plus, P!Lines
    <2> QED
      BY <1>1, <1>2, <1>5, <2>1, <2>2 DEF SaveSound, Knows, Tidy, Honest
  <1>7. ListSound'
    <2> SUFFICES ASSUME ~thorough, ~log.there PROVE log.lines = <<>> /\ summary.infos = P!Merged
      BY <1>1, <1>2 DEF ListSound
    <2> QED
      BY DEF Good, Stored, PlusSound, P!Merged
  <1>8. FinishSound'
    BY <1>2 DEF FinishSound
  <1> QED
    BY <1>3, <1>4, <1>6, <1>7, <1>8 DEF Good, Ends

\* An empty log adds and removes nothing.
LEMMA LinesEmpty ==
    ASSUME log'.lines = <<>>
    PROVE  Plus' = {} /\ Minus' = {}
  BY DEF Plus, Minus, P!Lines

\* The summary is opened, and empty: the log still has its lines.
LEMMA SaveOpenGood ==
    ASSUME Base, Good, UNCHANGED config, P!SaveOpen
    PROVE  Good'
  <1>1. me.at = "save" /\ UNCHANGED <<disk, log, release, dec, crashes, torn>>
            /\ summary'.infos = {}
    BY DEF P!SaveOpen, P!At
  <1>2. /\ me'.at = "saving" /\ me'.localFiles = me.localFiles /\ me'.ended = me.ended
        /\ me'.full = me.full /\ me'.then = me.then /\ me'.all = me.all
    BY DEF P!SaveOpen, P!Goes, Base, Types, MeRecord
  <1>3. P!Server' = P!Server /\ P!RemoveLevel' = P!RemoveLevel /\ \A r : Past(r)' <=> Past(r)
    BY <1>1, SameServer
  <1>4. Plus' = Plus /\ Minus' = Minus
    BY <1>1 DEF Plus, Minus, P!Lines
  <1>5. DiskPast' /\ AllPast'
    BY <1>1, <1>3, <1>4 DEF Good, Stored, DiskPast, AllPast
  <1>6. SummaryKnows' /\ PlusSound'
    BY <1>1, <1>4 DEF Good, Stored, SummaryKnows, Knows, PlusSound
  <1>7. Unique' /\ HonestSound'
    BY <1>1, <1>2, <1>3, <1>4 DEF Good, Stored, Unique, HonestSound, Tidy, OneEach
  <1>8. SaveSound' /\ ListSound'
    BY <1>1, <1>2, <1>3, <1>4 DEF Good, Ends, SaveSound, ListSound, Saving, Session, Knows,
           Tidy, Honest
  <1>9. FinishSound'
    BY <1>1, <1>2, <1>3 DEF Good, Ends, FinishSound, Saving
  <1>10. Sessions'
    BY <1>2, NoSessions DEF Session
  <1> QED
    BY <1>5, <1>6, <1>7, <1>8, <1>9, <1>10 DEF Good, Stored, Ends

\* The summary is written: the log, not yet removed, agrees with it.
LEMMA SaveCloseGood ==
    ASSUME Base, Good, UNCHANGED config, P!SaveClose
    PROVE  Good'
  <1>1. me.at = "saving" /\ UNCHANGED <<disk, log, release, dec, crashes, torn>>
            /\ summary'.infos = me.localFiles
    BY DEF P!SaveClose, P!At, Base, Types
  <1>2. /\ me'.at = "saved" /\ me'.localFiles = me.localFiles /\ me'.ended = me.ended
        /\ me'.full = me.full /\ me'.then = me.then /\ me'.all = me.all
    BY DEF P!SaveClose, P!Goes, Base, Types, MeRecord
  <1>3. P!Server' = P!Server /\ P!RemoveLevel' = P!RemoveLevel /\ \A r : Past(r)' <=> Past(r)
    BY <1>1, SameServer
  <1>4. Plus' = Plus /\ Minus' = Minus
    BY <1>1 DEF Plus, Minus, P!Lines
  <1>0. /\ \A k \in me.localFiles : Past(k)
        /\ Knows(disk, me.localFiles, {})
        /\ Tidy => OneEach(me.localFiles \cup Plus)
        /\ Honest => \A k \in me.localFiles : Right(disk, k)
    BY <1>1 DEF Good, Ends, SaveSound, Saving
  <1>5. DiskPast' /\ AllPast'
    BY <1>0, <1>1, <1>3, <1>4 DEF Good, Stored, DiskPast, AllPast
  <1>6. SummaryKnows' /\ PlusSound'
    BY <1>0, <1>1, <1>3, <1>4 DEF Good, Stored, SummaryKnows, Knows, PlusSound
  <1>7. Unique' /\ HonestSound'
    <2>1. \A i \in DOMAIN log.lines : log.lines[i].op = "+" => log.lines[i].info \in Plus
      BY DEF Plus, P!Lines
    <2> QED
      BY <1>0, <1>1, <1>2, <1>3, <1>4, <2>1 DEF Unique, HonestSound, Tidy, OneEach
  <1>8. SaveSound' /\ ListSound'
    BY <1>0, <1>1, <1>2, <1>3, <1>4 DEF Good, Ends, SaveSound, ListSound, Saving, Session,
           Knows, Tidy, Honest
  <1>9. FinishSound'
    BY <1>1, <1>2, <1>3 DEF Good, Ends, FinishSound, Saving
  <1>10. Sessions'
    BY <1>2, NoSessions DEF Session
  <1> QED
    BY <1>5, <1>6, <1>7, <1>8, <1>9, <1>10 DEF Good, Stored, Ends

\* The log is removed: the summary alone describes the disk.
LEMMA SaveEndGood ==
    ASSUME Base, Good, UNCHANGED config, P!SaveEnd
    PROVE  Good'
  <1>1. me.at = "saved" /\ UNCHANGED <<disk, summary, release, dec, crashes, torn>>
            /\ log'.lines = <<>> /\ summary.infos = me.localFiles
    BY DEF P!SaveEnd, P!At, Good, Ends, SaveSound, Saving
  <1>2. /\ me'.at = me.then /\ me'.localFiles = me.localFiles /\ me'.ended = me.ended
        /\ me'.full = me.full /\ me'.then = me.then /\ me'.all = me.all
        /\ me.then \in {"idle", "list"}
    BY DEF P!SaveEnd, P!Goes, Base, Types, MeRecord
  <1>3. P!Server' = P!Server /\ P!RemoveLevel' = P!RemoveLevel /\ \A r : Past(r)' <=> Past(r)
    BY <1>1, SameServer
  <1>4. Plus' = {} /\ Minus' = {}
    BY <1>1, LinesEmpty
  <1>5. DiskPast' /\ AllPast'
    BY <1>1, <1>3, <1>4 DEF Good, Stored, DiskPast, AllPast
  <1>6. SummaryKnows' /\ PlusSound'
    BY <1>1, <1>3, <1>4 DEF Good, Stored, SummaryKnows, Knows, PlusSound
  <1>7. Unique'
    BY <1>1, <1>3, <1>4 DEF Good, Stored, Unique, Tidy, OneEach
  <1>8. HonestSound'
    BY <1>1, <1>3 DEF Good, Ends, SaveSound, HonestSound, Honest, Saving
  <1>9. SaveSound' /\ ListSound'
    BY <1>1, <1>2 DEF Good, Ends, SaveSound, ListSound, Saving, Session
  <1>10. FinishSound'
    BY <1>1, <1>2, <1>3 DEF Good, Ends, FinishSound
  <1>11. Sessions'
    BY <1>2, NoSessions DEF Session
  <1> QED
    BY <1>5, <1>6, <1>7, <1>8, <1>9, <1>10, <1>11 DEF Good, Stored, Ends

\* The server's files are either known, or in a list of what is to be updated.
LEMMA ListGood ==
    ASSUME Base, Base', Good, UNCHANGED config, P!List
    PROVE  Good'
  <1>1. /\ me.at = "list" /\ UNCHANGED <<disk, summary, release, dec, crashes, torn>>
        /\ log'.lines = <<>> /\ log'.there = TRUE
        /\ summary.infos = me.localFiles /\ me.full = FALSE /\ me.all = FALSE
    BY DEF P!List, P!At, Good, Ends, ListSound, Session
  <1>2. /\ me'.at = "ready" /\ me'.localFiles = me.localFiles /\ me'.ended = me.ended
        /\ me'.full = me.full
        /\ me'.removeFiles = P!WithoutFlags(me.localFiles, P!Server)
        /\ me'.updateFiles = P!WithoutFlags(P!Server, me.localFiles)
        /\ me'.updateFlags = (P!Server \ me.localFiles) \ P!WithoutFlags(P!Server, me.localFiles)
        /\ me'.all = me.all
    BY DEF P!List, P!Goes, Base, Types, MeRecord
  <1>3. P!Server' = P!Server /\ P!RemoveLevel' = P!RemoveLevel /\ \A r : Past(r)' <=> Past(r)
    BY <1>1, SameServer
  <1>4. Plus' = {} /\ Minus' = {}
    BY <1>1, LinesEmpty
  <1>5. DiskPast' /\ AllPast'
    BY <1>1, <1>3, <1>4 DEF Good, Stored, DiskPast, AllPast
  <1>6. SummaryKnows' /\ PlusSound'
    BY <1>1, <1>3, <1>4 DEF Good, Stored, SummaryKnows, Knows, PlusSound
  <1>7. Unique'
    BY <1>1, <1>3, <1>4 DEF Good, Stored, Unique, Tidy, OneEach
  <1>8. HonestSound'
    <2>1. Minus = {}
      BY <1>1 DEF Good, Ends, ListSound, Minus, P!Lines
    <2> QED
      BY <1>1, <1>2, <1>3, <1>4, <2>1 DEF Good, Stored, HonestSound, Honest
  <1>9. Ends'
    <2>1. me.ended # "finished"
      BY <1>1 DEF Good, Ends, FinishSound, Saving
    <2> QED
      BY <1>2, <2>1 DEF Ends, SaveSound, ListSound, FinishSound, Saving, Session
  <1>10. me'.at \in Session /\ me'.at \notin Updating /\ me'.at \notin Loading
             /\ me'.at \notin {"join", "flags"} /\ me'.at # "abort"
    BY <1>2 DEF Session, Updating, Loading
  <1>11. ListsSound'
    <2>1. me'.removeFiles \subseteq me'.localFiles \cap Old' /\ me'.updateFiles \subseteq New'
      BY <1>1, <1>2, <1>3 DEF New, Old, P!WithoutFlags
    <2>2. \A f \in me'.updateFiles : \A k \in me'.localFiles : ~P!SameContents(k, f)
      BY <1>2 DEF P!WithoutFlags, P!SameContents
    <2>3. \A f \in me'.updateFlags : \E k \in me'.localFiles \cap summary'.infos : P!SameContents(k, f)
      BY <1>1, <1>2 DEF P!WithoutFlags, P!SameContents
    <2>4. P!Server' \subseteq me'.updateFiles \cup me'.updateFlags \cup me'.localFiles
      BY <1>2, <1>3
    <2>5. \A k \in me'.localFiles : Past(k)'
      BY <1>1, <1>2, <1>3 DEF Good, Stored, AllPast
    <2> QED
      BY <1>1, <1>2, <2>1, <2>2, <2>3, <2>4, <2>5 DEF ListsSound
  <1>12. TidySound'
    BY <1>1, <1>2, <1>3 DEF TidySound, Good, Stored, Unique, Tidy, P!WithoutFlags, OneEach
  <1>13. LocalSound'
    BY <1>1, <1>2, <1>3 DEF LocalSound, Good, Stored, SummaryKnows, Knows
  <1>14. LogSound' /\ RemoveSound'
    BY <1>1, <1>2, <1>3, <1>4 DEF LogSound, RemoveSound, Old, P!WithoutFlags
  <1>15. UpdateSound' /\ LoadSound' /\ FlagsSound'
    BY <1>10 DEF UpdateSound, LoadSound, FlagsSound
  <1> QED
    BY <1>5, <1>6, <1>7, <1>8, <1>9, <1>11, <1>12, <1>13, <1>14, <1>15 DEF Good, Stored, Sessions

\* finish(): if everything was patched, every file of the server is on the disk.
LEMMA FinishGood ==
    ASSUME Base, Good, UNCHANGED config, P!Finish
    PROVE  Good'
  <1>1. me.at = "ready" /\ UNCHANGED <<disk, summary, log, release, dec, crashes, torn>>
    BY DEF P!Finish, P!At
  <1>2. /\ me'.at = "save" /\ me'.localFiles = me.localFiles /\ me'.ended = "finished"
        /\ me'.full = me.full /\ me'.then = "idle"
    BY DEF P!Finish, P!NoSession
  <1>3. P!Server' = P!Server /\ P!RemoveLevel' = P!RemoveLevel /\ \A r : Past(r)' <=> Past(r)
    BY <1>1, SameServer
  <1>4. Plus' = Plus
    BY <1>1 DEF Plus, P!Lines
  <1>5. Stored'
    BY <1>1, <1>2, StoredSame DEF Good
  <1>6. Sessions'
    BY <1>2, NoSessions DEF Session
  <1>7. Knows(disk, me.localFiles, {})
    <2>1. dec = P!NoDecompressor
      BY <1>1 DEF Base, DecOrderly, Updating
    <2> QED
      BY <1>1, <2>1, NothingFlies DEF Good, Sessions, LocalSound, Session
  <1>8. /\ \A k \in me.localFiles : Past(k)
        /\ me.removeFiles \subseteq me.localFiles \cap Old
        /\ P!Server \subseteq me.updateFiles \cup me.updateFlags \cup me.localFiles
        /\ me.full => me.updateFiles = {} /\ me.updateFlags = {}
    BY <1>1 DEF Good, Sessions, ListsSound, Session
  <1>9. Plus \subseteq me.localFiles
    BY <1>1 DEF Good, Sessions, LogSound, Session
  <1>10. Tidy => OneEach(me.localFiles)
    BY <1>1 DEF Good, Sessions, TidySound, Session
  <1>11. Honest => \A k \in me.localFiles : Right(disk, k)
    <2> SUFFICES ASSUME Honest, NEW k \in me.localFiles PROVE Right(disk, k)
      OBVIOUS
    <2>1. CASE k \in me.removeFiles
      <3>1. k \notin Minus
        BY <1>1, <2>1 DEF Good, Sessions, RemoveSound, Session
      <3>2. k \in summary.infos
        BY <1>8, <2>1 DEF Old, P!WithoutFlags
      <3> QED
        BY <1>1, <3>1, <3>2 DEF Good, Stored, HonestSound
    <2>2. CASE \E s \in P!Server : P!SameContents(k, s)
      BY <1>7, <2>2 DEF Knows, P!SameContents, Right
    <2>3. Tidy
      BY DEF Honest, Tidy
    <2> QED
      BY <1>1, <2>1, <2>2, <2>3 DEF Good, Sessions, TidySound, Session
  <1>12. SaveSound' /\ ListSound'
    <2>1. Tidy => OneEach(me.localFiles \cup Plus)
      BY <1>9, <1>10 DEF OneEach
    <2> QED
      BY <1>1, <1>2, <1>3, <1>4, <1>7, <1>8, <1>11, <2>1 DEF SaveSound, ListSound, Knows, Tidy,
             Honest
  <1>13. FinishSound'
    <2>1. me.full => P!Server \subseteq me.localFiles
      BY <1>8
    <2>2. me.full => \A s \in P!Server : OnDisk(disk, s)
      BY <1>7, <2>1 DEF Knows
    <2> QED
      BY <1>1, <1>2, <1>3, <2>2 DEF FinishSound, Saving
  <1> QED
    BY <1>5, <1>6, <1>12, <1>13 DEF Good, Ends

\* There is no session after a crash.
LEMMA NoSessionGood ==
    ASSUME me' = P!NoSession
    PROVE  Ends' /\ Sessions' /\ me'.at = "idle"
  <1>1. me'.at = "idle" /\ me'.ended = "none" /\ me'.then = "idle"
    BY DEF P!NoSession
  <1> QED
    BY <1>1, NoSessions DEF Ends, SaveSound, ListSound, FinishSound, Saving, Session

\* A file of the new release that is known is one of a past release.  That it is on the
\* disk follows because no version comes back.
LEMMA PublishGood ==
    ASSUME Base, Good, UNCHANGED config, P!Publish
    PROVE  Good'
  <1>1. me.at = "idle" /\ release' = release + 1
            /\ UNCHANGED <<disk, summary, log, dec, crashes, torn>> /\ me' = P!NoSession
    BY DEF P!Publish, P!At
  <1>2. Ends' /\ Sessions' /\ me'.at = "idle"
    BY <1>1, NoSessionGood
  <1>3. P!Releases' = P!Releases /\ P!RemoveLevel' = P!RemoveLevel
    BY DEF P!Releases, P!RemoveLevel
  <1>4. /\ P!Fits(config) /\ release \in Nat /\ release >= 1
        /\ release + 1 \in DOMAIN P!Releases /\ release \in DOMAIN P!Releases
        /\ 1 .. release \subseteq DOMAIN P!Releases
    <2>1. P!Fits(config)
      BY PatcherAssumption DEF Base, Types
    <2>2. config.releases \in Seq(SUBSET P!Info)
      BY <2>1 DEF P!Fits
    <2>3. DOMAIN P!Releases = 1 .. Len(P!Releases) /\ Len(P!Releases) \in Nat
              /\ release \in DOMAIN P!Releases /\ release < Len(P!Releases)
      BY <2>2 DEF P!Releases, Base, Types, P!Publish
    <2> QED
      BY <2>1, <2>3
  <1>5. \A r : Past(r) => Past(r)'
    <2>1. 1 .. release \subseteq 1 .. release'
      BY <1>1, <1>4
    <2> QED
      BY <1>3, <2>1 DEF Past, PastContents, PastInfo
  <1>6. Plus' = Plus /\ Minus' = Minus
    BY <1>1 DEF Plus, Minus, P!Lines
  <1>7. DiskPast' /\ AllPast'
    BY <1>1, <1>5, <1>6 DEF Good, Stored, DiskPast, AllPast
  <1>8. SummaryKnows'
    <2> SUFFICES ASSUME NEW k \in summary.infos, NEW s \in P!Releases[release + 1],
                            P!SameContents(k, s)
                 PROVE  Right(disk, s) /\ (k = s => OnDisk(disk, s))
      BY <1>1, <1>3 DEF SummaryKnows, Knows, P!Server, P!SameContents
    <2>1. s.c \in 1 .. P!Partial - 1 /\ s.path \in Paths
      BY <1>4 DEF P!Fits, P!Releases
    <2>2. k.c # P!Partial /\ Past(k)
      BY <2>1 DEF P!SameContents, P!Partial, Good, Stored, AllPast
    <2>3. PICK i \in 1 .. release : \E t \in P!Releases[i] : t.path = k.path /\ t.c = k.c
      BY <2>2 DEF Past, PastContents
    <2>4. PICK t \in P!Releases[i] : t.path = k.path /\ t.c = k.c
      BY <2>3
    <2>5. \E u \in P!Server : P!SameContents(k, u)
      <3>1. CASE i = release
        BY <2>4, <3>1 DEF P!Server, P!SameContents
      <3>2. CASE i < release
        <4>1. i \in DOMAIN P!Releases /\ release < release + 1
          BY <1>4
        <4>2. P!SameContents(t, s)
          BY <2>4 DEF P!SameContents
        <4>3. \E u \in P!Releases[release] : P!SameContents(t, u)
          BY <1>4, <3>2, <4>1, <4>2 DEF P!Fits, P!Releases
        <4> QED
          BY <2>4, <4>3 DEF P!SameContents, P!Server
      <3> QED
        BY <1>4, <3>1, <3>2
    <2>6. Right(disk, s)
      BY <2>5 DEF Good, Stored, SummaryKnows, Knows, P!SameContents, Right
    <2>7. ASSUME k = s, Kind[s.path] = "file" PROVE disk[s.path].x = s.x
      <3>1. PICK j \in 1 .. release : k \in P!Releases[j]
        BY <2>2, <2>7 DEF Past, PastInfo
      <3>2. k \in P!Server
        <4>1. CASE j = release
          BY <3>1, <4>1 DEF P!Server
        <4>2. CASE j < release
          <5>1. j \in DOMAIN P!Releases /\ release < release + 1 /\ P!SameContents(k, s)
            BY <1>4
          <5> QED
            BY <1>4, <2>7, <3>1, <4>2, <5>1 DEF P!Fits, P!Releases, P!Server
        <4> QED
          BY <1>4, <4>1, <4>2
      <3>3. OnDisk(disk, k)
        BY <3>2 DEF Good, Stored, SummaryKnows, Knows
      <3> QED
        BY <2>7, <3>3 DEF OnDisk
    <2> QED
      BY <2>6, <2>7 DEF OnDisk, Right
  <1>9. PlusSound' /\ Unique'
    BY <1>1, <1>3, <1>6 DEF Good, Stored, PlusSound, Unique, Removed, Tidy
  <1>10. HonestSound'
    BY <1>1, <1>3, <1>6 DEF Good, Stored, HonestSound, Honest
  <1> QED
    BY <1>2, <1>7, <1>8, <1>9, <1>10 DEF Good, Stored

\* A crash that tears no line leaves a prefix of the log or of the summary: what they say
\* is still so.
LEMMA CrashGood ==
    ASSUME Base, Good, UNCHANGED config, P!Crash, Sound'
    PROVE  Good'
  <1>1. /\ crashes' = crashes + 1 /\ me' = P!NoSession /\ UNCHANGED <<disk, release>>
        /\ torn' = FALSE
    <2>1. torn' = TRUE \/ torn' = torn
      BY DEF P!Crash, P!CrashSaving, P!CrashLogging
    <2> QED
      BY <2>1 DEF P!Crash, Sound, Base, Types
  <1>2. Ends' /\ Sessions' /\ me'.at = "idle"
    BY <1>1, NoSessionGood
  <1>3. P!Server' = P!Server /\ P!RemoveLevel' = P!RemoveLevel /\ \A r : Past(r)' <=> Past(r)
    BY <1>1, SameServer
  <1>4. HonestSound' /\ DiskPast'
    <2>1. crashes' # 0
      BY <1>1 DEF Base, Types
    <2> QED
      BY <1>1, <1>3, <2>1 DEF HonestSound, Honest, Good, Stored, DiskPast
  <1>5. CASE P!CrashSaving
    <2>1. me.at = "saving" /\ log' = log
      BY <1>5 DEF P!CrashSaving, P!At
    <2>2. PICK saved \in SUBSET me.localFiles : summary' = [summary EXCEPT !.infos = saved]
      BY <1>1, <1>5 DEF P!CrashSaving
    <2>3. summary'.infos = saved
      BY <2>2 DEF Base, Types
    <2>4. Plus' = Plus /\ Minus' = Minus
      BY <2>1 DEF Plus, Minus, P!Lines
    <2>5. /\ \A k \in me.localFiles : Past(k)
          /\ Knows(disk, me.localFiles, {})
          /\ Tidy => OneEach(me.localFiles \cup Plus)
      BY <2>1 DEF Good, Ends, SaveSound, Saving
    <2>6. AllPast' /\ SummaryKnows' /\ PlusSound'
      BY <1>1, <1>3, <2>1, <2>3, <2>4, <2>5 DEF Good, Stored, AllPast, SummaryKnows, Knows,
             PlusSound
    <2>7. Unique'
      <3>1. \A i \in DOMAIN log.lines : log.lines[i].op = "+" => log.lines[i].info \in Plus
        BY DEF Plus, P!Lines
      <3> QED
        BY <1>3, <2>1, <2>3, <2>4, <2>5, <3>1 DEF Unique, Tidy, OneEach
    <2> QED
      BY <1>2, <1>4, <2>6, <2>7 DEF Good, Stored
  <1>6. CASE P!CrashLogging
    <2>1. summary' = summary
      BY <1>6 DEF P!CrashLogging
    <2>2. PICK n \in 0 .. Len(log.lines) : log' = [log EXCEPT !.lines = SubSeq(@, 1, n)]
      BY <1>1, <1>6 DEF P!CrashLogging
    <2>3. log'.lines = SubSeq(log.lines, 1, n) /\ log'.there = log.there
      BY <2>2, LogFacts DEF Base
    <2>4. /\ log'.lines \in Seq(Line) /\ Len(log'.lines) = n
          /\ \A i \in 1 .. n : log'.lines[i] = log.lines[i]
      BY <2>3, PrefixLog DEF Base
    <2>5. DOMAIN log'.lines = 1 .. n /\ 1 .. n \subseteq DOMAIN log.lines
              /\ DOMAIN log.lines = 1 .. Len(log.lines) /\ n \in Nat
      BY <2>4, LogFacts DEF Base
    <2>6. Plus' \subseteq Plus /\ Minus' \subseteq Minus
      BY <2>4, <2>5 DEF Plus, Minus, P!Lines
    <2>7. AllPast' /\ SummaryKnows'
      BY <1>1, <1>3, <2>1, <2>6 DEF Good, Stored, AllPast, SummaryKnows, Knows
    <2>8. PlusSound'
      <3>1. ~log.there => n = 0
        BY <2>2 DEF Good, Stored, PlusSound
      <3>2. n = 0 => log'.lines = <<>>
        BY <2>4
      <3> QED
        BY <1>1, <2>3, <2>6, <3>1, <3>2 DEF Good, Stored, PlusSound
    <2>9. Unique'
      <3> SUFFICES ASSUME Tidy, NEW i \in 1 .. n, log'.lines[i].op = "+", NEW k \in summary.infos,
                          k.path = log'.lines[i].info.path, k # log'.lines[i].info
                   PROVE  \E j \in 1 .. i : log'.lines[j].op = "-" /\ log'.lines[j].info = k
        BY <1>3, <2>1, <2>5, <2>6 DEF Unique, Tidy, Removed, OneEach, Good, Stored
      <3>1. i \in DOMAIN log.lines /\ log.lines[i] = log'.lines[i]
        BY <2>4, <2>5
      <3>2. Removed(k, i)
        BY <3>1 DEF Good, Stored, Unique
      <3>3. \A j \in 1 .. i : j \in 1 .. n
        BY <2>5
      <3> QED
        BY <2>4, <3>2, <3>3 DEF Removed
    <2> QED
      BY <1>2, <1>4, <2>7, <2>8, <2>9 DEF Good, Stored
  <1>7. CASE UNCHANGED <<summary, log>>
    <2>1. Plus' = Plus /\ Minus' = Minus
      BY <1>7 DEF Plus, Minus, P!Lines
    <2>2. AllPast' /\ SummaryKnows' /\ PlusSound'
      BY <1>1, <1>3, <1>7, <2>1 DEF Good, Stored, AllPast, SummaryKnows, Knows, PlusSound
    <2>3. Unique'
      BY <1>3, <1>7, <2>1 DEF Good, Stored, Unique, Removed, Tidy
    <2> QED
      BY <1>2, <1>4, <2>2, <2>3 DEF Good, Stored
  <1> QED
    BY <1>5, <1>6, <1>7 DEF P!Crash

-----------------------------------------------------------------------------
(* patch(): files are removed *)

\* What a step leaves that does not change the summary.
LEMMA SameLists ==
    ASSUME UNCHANGED <<config, release, summary>>
    PROVE  /\ P!Server' = P!Server /\ New' = New /\ Old' = Old /\ P!RemoveLevel' = P!RemoveLevel
           /\ (Tidy' <=> Tidy)
           /\ \A r : Past(r)' <=> Past(r)
  BY SameServer DEF New, Old, Tidy

\* A step that does not write to the log.
LEMMA SameLog ==
    ASSUME log' = log
    PROVE  Plus' = Plus /\ Minus' = Minus
  BY DEF Plus, Minus, P!Lines

\* What the server holds, and what the summary says that it does not.
LEMMA NewAndOld ==
    ASSUME Base
    PROVE  /\ New \subseteq P!Server /\ Old \subseteq summary.infos /\ New \cap summary.infos = {}
           /\ \A k \in Old : \A s \in P!Server : ~P!SameContents(k, s)
           /\ \A k \in summary.infos : k \in Old \/ \E s \in P!Server : P!SameContents(k, s)
           /\ \A k \in New : \A s \in summary.infos : ~P!SameContents(k, s)
           /\ Old \cap P!Server = {}
  BY DEF New, Old, P!WithoutFlags, P!SameContents

\* The server's files are of a past release, or of this one.
LEMMA ServerPast ==
    ASSUME Base, NEW s \in P!Server
    PROVE  Past(s) /\ \A x : s.path \in Paths
               /\ (Kind[s.path] # "file" => Past([path |-> s.path, c |-> s.c, x |-> x]))
  <1>1. release \in 1 .. release /\ s \in P!Releases[release]
    <2>1. config.releases \in Seq(SUBSET P!Info)
      BY PatcherAssumption DEF Base, Types, P!Fits
    <2>2. release \in 1 .. Len(config.releases)
      BY <2>1 DEF Base, Types, P!Releases
    <2> QED
      BY <2>1, <2>2 DEF P!Server
  <1>2. s.path \in Paths
    BY ServerIsSound DEF Base, ServerSound
  <1> QED
    BY <1>1, <1>2 DEF Past, PastContents, PastInfo

\* A file of a past release has contents and a path.
LEMMA PastIsThere ==
    ASSUME Base, NEW r, Past(r)
    PROVE  r.c # P!Absent /\ r.path \in Paths /\ r.path # P!Nowhere
  <1>1. r.path \in Paths /\ r.path # P!Nowhere
    BY PatcherAssumption DEF Past
  <1>2. ASSUME r.c = P!Absent PROVE FALSE
    <2>1. PastContents(r.path, r.c)
      BY <1>2 DEF Past, P!Absent, P!Partial
    <2>2. PICK i \in 1 .. release : \E t \in P!Releases[i] : t.c = P!Absent
      BY <1>2, <2>1 DEF PastContents
    <2>3. config.releases \in Seq(SUBSET P!Info) /\ P!Fits(config)
      BY PatcherAssumption DEF Base, Types, P!Fits
    <2>4. i \in DOMAIN config.releases
      BY <2>3 DEF Base, Types, P!Releases
    <2> QED
      BY <2>2, <2>3, <2>4 DEF P!Fits, P!Releases, P!Absent
  <1> QED
    BY <1>1, <1>2

\* IcePatch2Client.Remove is a number.
LEMMA LevelIs ==
    ASSUME Base
    PROVE  P!RemoveLevel \in Nat /\ (Tidy <=> P!RemoveLevel >= 1)
               /\ (Tidy <=> ~(P!RemoveLevel < 1))
  <1>1. P!RemoveLevel \in Nat
    BY PatcherAssumption DEF Base, Types, P!Fits, P!RemoveLevel
  <1> QED
    BY <1>1 DEF Tidy

\* patch() begins: what is to be removed is in the part and in no other list.
LEMMA PatchGood ==
    ASSUME Base, Good, UNCHANGED config, NEW dir, P!Patch(dir)
    PROVE  Good'
  <1>1. me.at = "ready" /\ UNCHANGED <<disk, summary, log, release, dec, crashes, torn>>
    BY DEF P!Patch, P!At
  <1>2. /\ me'.at = "remove" /\ me'.part = dir /\ (me'.all <=> dir = Paths)
               /\ me'.localFiles = me.localFiles
        /\ me'.removeFiles = me.removeFiles /\ me'.updateFiles = me.updateFiles
        /\ me'.updateFlags = me.updateFlags
        /\ me'.ended = me.ended /\ me'.full = me.full
        /\ me'.todo = (IF P!RemoveLevel < 1 THEN {}
               ELSE P!Within(me.removeFiles, dir \cup {P!Nowhere}))
    BY DEF P!Patch, Base, Types, MeRecord
  <1>3. me.at \in Session /\ me'.at \in Session /\ me'.at \notin Updating
            /\ me'.at \notin Loading /\ me'.at \notin {"join", "flags", "abort"}
    BY <1>1, <1>2 DEF Session, Updating, Loading
  <1>4. dec = P!NoDecompressor /\ Flying = {} /\ Flying' = {}
    BY <1>1, NothingFlies, NothingFliesAfter DEF Base, DecOrderly, Updating
  <1>5. Stored'
    BY <1>1, <1>2, StoredSame DEF Good
  <1>6. Ends'
    BY <1>2, <1>3, EndsInSession DEF Good
  <1>7. /\ P!Server' = P!Server /\ New' = New /\ Old' = Old /\ P!RemoveLevel' = P!RemoveLevel
        /\ (Tidy' <=> Tidy)
        /\ \A r : Past(r)' <=> Past(r)
    BY <1>1, SameLists
  <1>8. Plus' = Plus /\ Minus' = Minus
    BY <1>1, SameLog
  <1>9. ListsSound'
    BY <1>1, <1>2, <1>3, <1>7 DEF ListsSound, Good, Sessions
  <1>10. TidySound'
    BY <1>1, <1>2, <1>3, <1>7 DEF TidySound, Good, Sessions
  <1>11. LocalSound'
    BY <1>1, <1>2, <1>3, <1>4, <1>7 DEF LocalSound, Good, Sessions, Knows
  <1>12. LogSound'
    BY <1>1, <1>2, <1>3, <1>7, <1>8 DEF LogSound, Good, Sessions
  <1>13. RemoveSound'
    <2>1. \A k \in me.removeFiles : k \notin Minus
      BY <1>1, <1>3 DEF RemoveSound, Good, Sessions
    <2>2. Tidy => \A k \in me.removeFiles : k.path \in dir => k \in me'.todo
      BY <1>2, LevelIs DEF P!Within
    <2>3. ~Tidy => me'.todo = {}
      BY <1>2, LevelIs
    <2> QED
      BY <1>1, <1>2, <1>3, <1>7, <1>8, <2>1, <2>2, <2>3 DEF RemoveSound, Good, Sessions
  <1>14. UpdateSound' /\ LoadSound' /\ FlagsSound'
    BY <1>3 DEF UpdateSound, LoadSound, FlagsSound
  <1> QED
    BY <1>5, <1>6, <1>9, <1>10, <1>11, <1>12, <1>13, <1>14 DEF Good, Sessions

\* removeFiles(): a file that the server does not have, at least not with these contents, is
\* removed and this is logged; nothing that is known of the server's files is touched.
LEMMA RemoveFileGood ==
    ASSUME Base, Good, Sound, UNCHANGED config, P!RemoveFile
    PROVE  Good'
  <1>1. PICK r \in me.todo :
          IF r.path = P!Nowhere \/ (r.path \in Paths /\ disk[r.path].c = P!Absent)
          THEN /\ \/ P!RemoveLevel < 2 /\ P!Failed
                  \/ P!RemoveLevel >= 2 /\ me' = [me EXCEPT !.todo = @ \ {r}] /\ UNCHANGED dec
               /\ UNCHANGED <<disk, log>>
          ELSE /\ disk' = [disk EXCEPT ![r.path] = [c |-> P!Absent, x |-> FALSE]]
               /\ P!Logged(<<[op |-> "-", info |-> r]>>)
               /\ me' = [me EXCEPT !.todo = @ \ {r}] /\ UNCHANGED dec
    BY DEF P!RemoveFile
  <1>2. me.at = "remove" /\ UNCHANGED <<summary, release, crashes, torn>>
    BY DEF P!RemoveFile, P!At
  <1>3. me.at \in Session /\ me.at \notin {"saving", "saved"}
    BY <1>2 DEF Session
  <1>4. Tidy
    BY <1>1, <1>2, <1>3 DEF Good, Sessions, RemoveSound
  <1>5. r \in me.removeFiles /\ r \in me.localFiles /\ r \in Old /\ r \in summary.infos
            /\ r \in P!Info /\ Past(r)
    <2>1. r \in me.removeFiles
      BY <1>1, <1>2 DEF Base, ListsOrderly, P!Within
    <2>2. r \in me.localFiles /\ r \in Old /\ Past(r) /\ r \in P!Info
      BY <1>3, <2>1 DEF Good, Sessions, ListsSound, Base, Types, MeRecord
    <2> QED
      BY <2>1, <2>2, NewAndOld
  <1>6. r.c # P!Absent /\ r.path \in Paths /\ r.path # P!Nowhere /\ r.path \in me.part
    <2>1. r.c # P!Absent /\ r.path \in Paths /\ r.path # P!Nowhere
      BY <1>5, PastIsThere
    <2> QED
      BY <1>1, <1>2, <2>1 DEF Base, ListsOrderly, P!Within
  <1>7. r \notin Minus
    BY <1>1, <1>2, <1>3, <1>5 DEF Good, Sessions, RemoveSound
  <1>8. CASE P!Failed /\ UNCHANGED <<disk, log>>
    BY <1>2, <1>3, <1>8, FailedGood
  <1>9. CASE disk[r.path].c = P!Absent /\ P!RemoveLevel >= 2
    <2>1. crashes = 0
      BY <1>9, LevelIs DEF Sound
    <2>2. Right(disk, r)
      BY <1>3, <1>4, <1>5, <1>7, <2>1 DEF Good, Stored, HonestSound, Honest, Tidy
    <2> QED
      BY <1>6, <1>9, <2>2 DEF Right
  <1>10. CASE /\ disk' = [disk EXCEPT ![r.path] = [c |-> P!Absent, x |-> FALSE]]
              /\ P!Logged(<<[op |-> "-", info |-> r]>>)
              /\ me' = [me EXCEPT !.todo = @ \ {r}] /\ UNCHANGED dec
    <2> DEFINE q == <<[op |-> "-", info |-> r]>>
    <2>1. q \in Seq(Line) /\ Len(q) = 1 /\ q[1].op = "-" /\ q[1].info = r
      BY <1>5 DEF Line
    <2> HIDE DEF q
    <2>2. P!Logged(q)
      BY <1>10 DEF q
    <2>3. /\ log' \in LogRecord /\ log'.there = log.there /\ Len(log'.lines) = Len(log.lines) + 1
          /\ \A i \in 1 .. Len(log.lines) : log'.lines[i] = log.lines[i]
          /\ log'.lines[Len(log.lines) + 1].op = "-" /\ log'.lines[Len(log.lines) + 1].info = r
      <3>1. Types
        BY DEF Base
      <3>2. /\ log' \in LogRecord /\ log'.there = log.there
            /\ Len(log'.lines) = Len(log.lines) + Len(q)
            /\ \A i \in 1 .. Len(log.lines) : log'.lines[i] = log.lines[i]
            /\ \A i \in 1 .. Len(q) : log'.lines[Len(log.lines) + i] = q[i]
        BY <2>1, <2>2, <3>1, LoggedIs
      <3>3. 1 \in 1 .. Len(q)
        BY <2>1
      <3> QED
        BY <2>1, <3>2, <3>3
    <2>4. /\ DOMAIN log.lines = 1 .. Len(log.lines) /\ Len(log.lines) \in Nat
          /\ DOMAIN log'.lines = 1 .. Len(log.lines) + 1
          /\ \A i \in DOMAIN log.lines : i \in DOMAIN log'.lines
          /\ \A i \in DOMAIN log'.lines : i \in DOMAIN log.lines \/ i = Len(log.lines) + 1
          /\ Len(log.lines) + 1 \in DOMAIN log'.lines
      <3>1. DOMAIN log.lines = 1 .. Len(log.lines) /\ Len(log.lines) \in Nat
        BY LogFacts DEF Base
      <3>2. DOMAIN log'.lines = 1 .. Len(log.lines) + 1
        BY <2>3 DEF LogRecord
      <3> QED
        BY <3>1, <3>2
    <2>5. Plus' = Plus
      BY <2>3, <2>4 DEF Plus, P!Lines
    <2>6. Minus' = Minus \cup {r}
      BY <2>3, <2>4 DEF Minus, P!Lines
    <2>7. /\ disk'[r.path].c = P!Absent /\ disk'[r.path].x = FALSE
          /\ \A p \in Paths : p # r.path => disk'[p] = disk[p]
      BY <1>6, <1>10 DEF Base, Types
    <2>8. /\ P!Server' = P!Server /\ New' = New /\ Old' = Old /\ P!RemoveLevel' = P!RemoveLevel
          /\ (Tidy' <=> Tidy)
          /\ \A k : Past(k)' <=> Past(k)
      BY <1>2, SameLists
    <2>9. /\ me'.at = "remove" /\ me'.part = me.part /\ me'.all = me.all
          /\ me'.localFiles = me.localFiles
          /\ me'.removeFiles = me.removeFiles /\ me'.updateFiles = me.updateFiles
          /\ me'.updateFlags = me.updateFlags
          /\ me'.ended = me.ended /\ me'.full = me.full /\ me'.todo = me.todo \ {r}
      BY <1>2, <1>10 DEF Base, Types, MeRecord
    <2>10. ASSUME NEW K, OneEach(K), r \in K, Knows(disk, K, {})
           PROVE  Knows(disk', K, {})
      <3> SUFFICES ASSUME NEW k \in K, NEW s \in P!Server, P!SameContents(k, s)
                   PROVE  Right(disk', s) /\ (k = s => OnDisk(disk', s))
        BY <2>8 DEF Knows, P!SameContents
      <3>1. s.path # r.path
        BY <1>5, <2>10, NewAndOld DEF OneEach, P!SameContents
      <3>2. s.path \in Paths
        BY ServerIsSound DEF Base, ServerSound
      <3> QED
        BY <2>7, <2>10, <3>1, <3>2 DEF Knows, Right, OnDisk
    <2>11. DiskPast'
      BY <1>6, <2>7, <2>8 DEF Good, Stored, DiskPast
    <2>12. AllPast'
      BY <1>2, <2>5, <2>8 DEF Good, Stored, AllPast
    <2>13. SummaryKnows'
      <3>1. OneEach(summary.infos) /\ Knows(disk, summary.infos, {})
        BY <1>4 DEF Good, Stored, Unique, SummaryKnows
      <3>2. Knows(disk', summary.infos, {})
        BY <1>5, <2>10, <3>1
      <3> QED
        BY <1>2, <2>8, <3>2 DEF SummaryKnows, Knows
    <2>14. PlusSound'
      <3>1. \A k \in Plus : k.path # r.path /\ k.path \in Paths
        BY <1>3, <1>4, <1>5 DEF Good, Sessions, RemoveSound, Stored, AllPast, Past
      <3>2. log.there
        BY <1>3 DEF Good, Sessions, LogSound
      <3>3. r \notin Plus
        BY <3>1
      <3> QED
        BY <2>3, <2>5, <2>6, <2>7, <3>1, <3>2, <3>3 DEF Good, Stored, PlusSound, OnDisk
    <2>15. Unique'
      <3> SUFFICES ASSUME NEW i \in DOMAIN log'.lines, log'.lines[i].op = "+",
                              NEW k \in summary.infos,
                          k.path = log'.lines[i].info.path, k # log'.lines[i].info
                   PROVE  \E j \in 1 .. i : log'.lines[j].op = "-" /\ log'.lines[j].info = k
        BY <1>2, <1>4, <2>5, <2>8 DEF Unique, Removed, Good, Stored, OneEach
      <3>1. i \in DOMAIN log.lines /\ log.lines[i] = log'.lines[i]
        BY <2>3, <2>4
      <3>2. Removed(k, i)
        BY <1>4, <3>1 DEF Good, Stored, Unique
      <3>3. \A j \in 1 .. i : j \in 1 .. Len(log.lines)
        BY <2>4, <3>1
      <3> QED
        BY <2>3, <3>2, <3>3 DEF Removed
    <2>16. HonestSound'
      <3> SUFFICES ASSUME Honest, NEW k \in summary.infos, k \notin Minus,
                              k # r PROVE Right(disk', k)
        BY <1>2, <2>6, <2>8 DEF HonestSound, Honest
      <3>1. k.path # r.path /\ k.path \in Paths
        BY <1>4, <1>5 DEF Good, Stored, Unique, OneEach, AllPast, Past
      <3>2. Right(disk, k)
        BY <1>3 DEF Good, Stored, HonestSound
      <3> QED
        BY <2>7, <3>1, <3>2 DEF Right
    <2>17. me'.at \in Session /\ me'.at \notin Updating /\ me'.at \notin Loading
               /\ me'.at \notin {"join", "flags", "abort"}
      BY <2>9 DEF Session, Updating, Loading
    <2>18. Ends'
      BY <1>3, <2>9, <2>17, EndsInSession DEF Good
    <2>19. ListsSound' /\ TidySound'
      BY <1>2, <1>3, <2>8, <2>9, <2>17 DEF ListsSound, TidySound, Good, Sessions
    <2>20. LocalSound'
      <3>1. dec = P!NoDecompressor /\ Flying = {} /\ Flying' = {}
        BY <1>2, <1>10, NothingFlies, NothingFliesAfter DEF Base, DecOrderly, Updating
      <3>2. Knows(disk, me.localFiles, {}) /\ OneEach(me.localFiles)
        BY <1>2, <1>3, <1>4, <3>1 DEF Good, Sessions, LocalSound, TidySound
      <3>3. Knows(disk', me.localFiles, {})
        BY <1>5, <2>10, <3>2
      <3> QED
        BY <2>8, <2>9, <3>1, <3>3 DEF LocalSound, Knows
    <2>21. LogSound'
      BY <1>2, <1>3, <1>5, <2>3, <2>5, <2>6, <2>8, <2>9 DEF LogSound, Good, Sessions
    <2>22. RemoveSound'
      BY <1>2, <1>3, <1>4, <1>6, <2>5, <2>6, <2>8, <2>9 DEF RemoveSound, Good, Sessions
    <2>23. UpdateSound' /\ LoadSound' /\ FlagsSound'
      BY <2>17 DEF UpdateSound, LoadSound, FlagsSound
    <2> QED
      BY <2>11, <2>12, <2>13, <2>14, <2>15, <2>16, <2>18, <2>19, <2>20, <2>21, <2>22,
             <2>23 DEF Good, Stored, Sessions
  <1> QED
    BY <1>1, <1>6, <1>8, <1>9, <1>10

-----------------------------------------------------------------------------
(* patch(): files are updated *)

\* What was removed is no longer local.
LEMMA RemoveEndGood ==
    ASSUME Base, Good, UNCHANGED config, P!RemoveEnd
    PROVE  Good'
  <1> DEFINE files == P!Within(me.removeFiles, me.part \cup {P!Nowhere})
             update == P!Within(me.updateFiles, me.part)
  <1>1. me.at = "remove" /\ me.todo = {}
            /\ UNCHANGED <<disk, summary, log, release, crashes, torn>>
    BY DEF P!RemoveEnd, P!At
  <1>2. /\ me'.at = (IF update = {} THEN "flags" ELSE "update")
        /\ me'.localFiles = (IF P!RemoveLevel < 1 THEN me.localFiles ELSE me.localFiles \ files)
        /\ me'.removeFiles = (IF P!RemoveLevel < 1 THEN me.removeFiles
               ELSE me.removeFiles \ files)
        /\ me'.todo = (IF update = {} THEN P!Within(me.updateFlags, me.part) ELSE update)
        /\ me'.part = me.part /\ me'.all = me.all /\ me'.updateFiles = me.updateFiles
        /\ me'.updateFlags = me.updateFlags /\ me'.ended = me.ended /\ me'.full = me.full
    BY DEF P!RemoveEnd, Base, Types, MeRecord
  <1>3. me.at \in Session /\ me'.at \in Session
            /\ me'.at \notin {"join", "abort", "ready", "remove", "chunk"}
    BY <1>1, <1>2 DEF Session
  <1>4. dec = P!NoDecompressor /\ Flying = {} /\ Flying' = {} /\ Done' = {}
            /\ DOMAIN dec'.files = {}
    <2>1. dec = P!NoDecompressor
      BY <1>1 DEF Base, DecOrderly, Updating
    <2>2. dec'.files = <<>> /\ dec'.filesDone = <<>> /\ dec'.info = P!NoFile
      BY <2>1, NoDecIs DEF P!RemoveEnd, DecRecord
    <2>3. InSeq(<<>>) = {} /\ DOMAIN <<>> = {}
      BY DEF InSeq
    <2>4. Flying' = {} /\ Done' = {}
      BY <2>2, <2>3 DEF Flying, Done, InSeq
    <2> QED
      BY <2>1, <2>2, <2>3, <2>4, NothingFlies
  <1>5. Stored'
    BY <1>1, <1>2, StoredSame DEF Good
  <1>6. Ends'
    BY <1>2, <1>3, EndsInSession DEF Good
  <1>7. /\ P!Server' = P!Server /\ New' = New /\ Old' = Old /\ P!RemoveLevel' = P!RemoveLevel
        /\ (Tidy' <=> Tidy)
        /\ \A r : Past(r)' <=> Past(r)
    BY <1>1, SameLists
  <1>8. Plus' = Plus /\ Minus' = Minus
    BY <1>1, SameLog
  <1>9. /\ files \subseteq me.removeFiles /\ me'.localFiles \subseteq me.localFiles
        /\ me'.removeFiles \subseteq me.removeFiles
        /\ me.localFiles \subseteq me'.localFiles \cup me.removeFiles
        /\ me.removeFiles \subseteq me'.removeFiles \cup files
        /\ me'.removeFiles \subseteq me'.localFiles
        /\ \A k \in me.localFiles : k \notin me.removeFiles => k \in me'.localFiles
        /\ Tidy => me'.localFiles \cap files = {} /\ me'.removeFiles \cap files = {}
        /\ ~Tidy => me'.removeFiles = me.removeFiles
        /\ \A k \in me.removeFiles : k.path \in me.part => k \in files
    BY <1>2, <1>3, LevelIs DEF P!Within, Good, Sessions, ListsSound
  <1>10. me.removeFiles \subseteq Old /\ \A k \in me.removeFiles : k \notin P!Server
             /\ \A s \in P!Server : ~P!SameContents(k, s)
    BY <1>3, NewAndOld DEF Good, Sessions, ListsSound
  <1>11. /\ me.updateFiles \subseteq P!Server /\ me.updateFlags \subseteq P!Server
         /\ New \subseteq P!Server
    BY NewAndOld DEF Base, ListsOrderly
  <1> HIDE DEF files
  <1>12. ListsSound'
    <2>1. me'.removeFiles \subseteq me'.localFiles \cap Old
      BY <1>9, <1>10
    <2>2. \A f \in me.updateFlags : \E k \in me'.localFiles \cap summary.infos : P!SameContents(k, f)
      BY <1>3, <1>9, <1>10, <1>11 DEF Good, Sessions, ListsSound
    <2>3. P!Server \subseteq me.updateFiles \cup me.updateFlags \cup me'.localFiles
      BY <1>3, <1>9, <1>10 DEF Good, Sessions, ListsSound
    <2> QED
      BY <1>1, <1>2, <1>3, <1>7, <1>9, <2>1, <2>2, <2>3 DEF Good, Sessions, ListsSound
  <1>13. TidySound'
    BY <1>3, <1>7, <1>9 DEF Good, Sessions, TidySound, OneEach
  <1>14. LocalSound'
    <2>1. Knows(disk, me.localFiles, {})
      BY <1>1, <1>3, <1>4 DEF Good, Sessions, LocalSound
    <2> QED
      BY <1>1, <1>4, <1>7, <1>9, <2>1 DEF LocalSound, Knows
  <1>15. Plus \subseteq me.localFiles
    BY <1>1, <1>3 DEF Good, Sessions, LogSound
  <1>16. LogSound'
    <2>1. Plus \subseteq me'.localFiles
      <3>1. Plus \subseteq P!Server
        BY <1>3, <1>11 DEF Good, Sessions, LogSound
      <3> QED
        BY <1>9, <1>10, <1>15, <3>1
    <2> QED
      BY <1>1, <1>3, <1>7, <1>8, <2>1 DEF Good, Sessions, LogSound
  <1>17. RemoveSound'
    <2>1. ASSUME Tidy, NEW k \in files PROVE k \in Minus
      <3>1. k \in me.removeFiles /\ k.path \in me.part \cup {P!Nowhere}
        BY <2>1 DEF files, P!Within
      <3>2. k.path # P!Nowhere
        BY <1>3, <3>1, PastIsThere DEF Good, Sessions, ListsSound
      <3> QED
        BY <1>1, <1>3, <2>1, <3>1, <3>2 DEF Good, Sessions, RemoveSound
    <2>2. \A k \in me'.removeFiles : k \notin Minus
      <3>1. CASE Tidy
        BY <1>3, <1>9, <3>1 DEF Good, Sessions, RemoveSound
      <3>2. CASE ~Tidy
        BY <1>3, <3>2 DEF Good, Sessions, RemoveSound
      <3> QED
        BY <3>1, <3>2
    <2>3. Tidy => \A k \in me'.removeFiles : k.path \notin me.part
      BY <1>9
    <2>4. Tidy => \A k \in Old : k \in me'.removeFiles \/ k \in Minus
      BY <1>3, <1>9, <2>1 DEF Good, Sessions, RemoveSound
    <2> QED
      BY <1>2, <1>3, <1>7, <1>8, <1>9, <2>2, <2>3, <2>4 DEF Good, Sessions, RemoveSound
  <1>18. UpdateSound'
    BY <1>4 DEF UpdateSound
  <1>19. LoadSound'
    <2> SUFFICES ASSUME me'.at = "update" PROVE LoadSound'
      BY <1>2 DEF LoadSound, Loading
    <2>1. me'.todo = P!Within(me.updateFiles, me.part) /\ me'.todo \subseteq me.updateFiles
      BY <1>2 DEF P!Within
    <2>2. \A f \in me.updateFiles : f \notin me.localFiles
      BY <1>3 DEF Good, Sessions, ListsSound, P!SameContents
    <2> QED
      BY <1>2, <1>4, <1>8, <1>15, <2>1, <2>2 DEF LoadSound
  <1>20. FlagsSound'
    BY <1>2, <1>3 DEF FlagsSound
  <1> QED
    BY <1>5, <1>6, <1>12, <1>13, <1>14, <1>16, <1>17, <1>18, <1>19, <1>20 DEF Good, Sessions

\* A file of the summary where another one is put has been removed.
LEMMA Replaced ==
    ASSUME Base, Good, me.at \in Session \ {"ready", "remove"}, Tidy, NEW q \in New,
               q.path \in me.part,
           NEW k \in summary.infos, k.path = q.path
    PROVE  k \in Minus
  <1>1. q \in P!Server /\ ServerSound /\ ~P!SameContents(q, k)
    BY NewAndOld, ServerIsSound DEF Base
  <1>2. k \in Old
    BY <1>1, NewAndOld DEF P!SameContents, ServerSound
  <1> QED
    BY <1>2 DEF Good, Sessions, RemoveSound

\* The log after lines for added files.
LEMMA LogGrows ==
    ASSUME Types, NEW q \in Seq(P!Info), P!Logged(P!Added(q))
    PROVE  /\ Plus' = Plus \cup InSeq(q) /\ Minus' = Minus /\ log'.there = log.there
           /\ \A i \in DOMAIN log.lines : i \in DOMAIN log'.lines /\ log'.lines[i] = log.lines[i]
           /\ \A i \in DOMAIN log'.lines : \/ i \in DOMAIN log.lines
                                           \/ log'.lines[i].info \in InSeq(q)
                                                  /\ \A j \in DOMAIN log.lines : j \in 1 .. i
           /\ \A i \in DOMAIN log.lines : \A j \in 1 .. i : j \in DOMAIN log.lines
  <1>1. /\ P!Added(q) \in Seq(Line) /\ Len(P!Added(q)) = Len(q) /\ Len(q) \in Nat
        /\ DOMAIN q = 1 .. Len(q)
        /\ \A i \in 1 .. Len(q) : P!Added(q)[i].op = "+" /\ P!Added(q)[i].info = q[i]
    BY AddedIs
  <1>2. /\ log' \in LogRecord /\ log'.there = log.there
        /\ Len(log'.lines) = Len(log.lines) + Len(q)
        /\ \A i \in 1 .. Len(log.lines) : log'.lines[i] = log.lines[i]
        /\ \A i \in 1 .. Len(q) : log'.lines[Len(log.lines) + i] = P!Added(q)[i]
    BY <1>1, LoggedIs
  <1>3. /\ DOMAIN log.lines = 1 .. Len(log.lines) /\ Len(log.lines) \in Nat
        /\ DOMAIN log'.lines = 1 .. Len(log.lines) + Len(q)
    BY <1>2, LogFacts DEF LogRecord
  <1>4. \A i \in 1 .. Len(q) : /\ Len(log.lines) + i \in DOMAIN log'.lines
                               /\ log'.lines[Len(log.lines) + i].op = "+"
                               /\ log'.lines[Len(log.lines) + i].info = q[i]
    BY <1>1, <1>2, <1>3
  <1>5. \A i \in DOMAIN log.lines : i \in DOMAIN log'.lines /\ log'.lines[i] = log.lines[i]
    BY <1>1, <1>2, <1>3
  <1>6. ASSUME NEW i \in DOMAIN log'.lines, i \notin DOMAIN log.lines
        PROVE  /\ log'.lines[i].op = "+" /\ log'.lines[i].info \in InSeq(q)
               /\ \A j \in DOMAIN log.lines : j \in 1 .. i
    <2>1. i - Len(log.lines) \in 1 .. Len(q) /\ i = Len(log.lines) + (i - Len(log.lines))
      BY <1>1, <1>3, <1>6
    <2>2. log'.lines[i].op = "+" /\ log'.lines[i].info = q[i - Len(log.lines)]
      BY <1>4, <2>1
    <2>3. \A j \in DOMAIN log.lines : j \in 1 .. i
      BY <1>1, <1>3, <1>6
    <2> QED
      BY <1>1, <2>1, <2>2, <2>3 DEF InSeq
  <1>7. \A x \in InSeq(q) : x \in Plus'
    <2> SUFFICES ASSUME NEW i \in 1 .. Len(q) PROVE q[i] \in Plus'
      BY <1>1 DEF InSeq
    <2> QED
      BY <1>4 DEF Plus, P!Lines
  <1>8. Plus \subseteq Plus' /\ Minus \subseteq Minus'
    BY <1>5 DEF Plus, Minus, P!Lines
  <1>9. Plus' \subseteq Plus \cup InSeq(q)
    BY <1>5, <1>6 DEF Plus, P!Lines
  <1>10. Minus' \subseteq Minus
    BY <1>5, <1>6 DEF Minus, P!Lines
  <1>11. \A i \in DOMAIN log.lines : \A j \in 1 .. i : j \in DOMAIN log.lines
    BY <1>3
  <1> QED
    BY <1>2, <1>5, <1>6, <1>7, <1>8, <1>9, <1>10, <1>11

\* A file is logged as added only after what the summary has at its path was removed.
LEMMA UniqueGrows ==
    ASSUME Base, Good, me.at \in Session \ {"ready", "remove"}, NEW q \in Seq(P!Info),
               P!Logged(P!Added(q)),
           InSeq(q) \subseteq New, \A s \in InSeq(q) : s.path \in me.part,
           UNCHANGED <<config, summary, release>>
    PROVE  Unique'
  <1>1. /\ Plus' = Plus \cup InSeq(q) /\ Minus' = Minus /\ log'.there = log.there
        /\ \A i \in DOMAIN log.lines : i \in DOMAIN log'.lines /\ log'.lines[i] = log.lines[i]
        /\ \A i \in DOMAIN log'.lines : \/ i \in DOMAIN log.lines
                                        \/ log'.lines[i].info \in InSeq(q)
                                               /\ \A j \in DOMAIN log.lines : j \in 1 .. i
        /\ \A i \in DOMAIN log.lines : \A j \in 1 .. i : j \in DOMAIN log.lines
    BY LogGrows DEF Base
  <1>2. Tidy' <=> Tidy
    BY SameLists
  <1>3. OneEach(Plus')
    <2>1. Plus' \subseteq P!Server
      BY <1>1, NewAndOld DEF Good, Sessions, LogSound
    <2> QED
      BY <2>1, ServerIsSound DEF Base, ServerSound, OneEach
  <1> SUFFICES ASSUME Tidy, NEW i \in DOMAIN log'.lines, log'.lines[i].op = "+",
                          NEW k \in summary.infos,
                      k.path = log'.lines[i].info.path, k # log'.lines[i].info
               PROVE  \E j \in 1 .. i : log'.lines[j].op = "-" /\ log'.lines[j].info = k
    BY <1>2, <1>3 DEF Unique, Removed, Good, Stored
  <1>4. CASE i \in DOMAIN log.lines
    <2>1. Removed(k, i)
      BY <1>1, <1>4 DEF Good, Stored, Unique
    <2> QED
      BY <1>1, <1>4, <2>1 DEF Removed
  <1>5. CASE i \notin DOMAIN log.lines
    <2>1. log'.lines[i].info \in InSeq(q) /\ \A j \in DOMAIN log.lines : j \in 1 .. i
      BY <1>1, <1>5
    <2>2. k \in Minus
      BY <2>1, Replaced
    <2>3. PICK j \in DOMAIN log.lines : log.lines[j].op = "-" /\ log.lines[j].info = k
      BY <2>2 DEF Minus, P!Lines
    <2> QED
      BY <1>1, <2>1, <2>3
  <1> QED
    BY <1>4, <1>5

\* A directory or an empty file comes to be what the server has.
LEMMA UpdatePlainGood ==
    ASSUME Base, Good, UNCHANGED config, P!UpdatePlain
    PROVE  Good'
  <1>1. me.at = "update" /\ UNCHANGED <<summary, release, dec, crashes, torn>>
    BY DEF P!UpdatePlain, P!At
  <1>2. PICK r \in me.todo :
          /\ Kind[r.path] # "file" /\ disk' = [disk EXCEPT ![r.path].c = r.c]
          /\ IF Kind[r.path] = "dir" THEN P!Logged(P!Added(<<r>>)) ELSE UNCHANGED log
          /\ me' = [me EXCEPT !.todo = @ \ {r}]
    BY DEF P!UpdatePlain
  <1>3. /\ me'.at = "update" /\ me'.part = me.part /\ me'.all = me.all
        /\ me'.localFiles = me.localFiles
        /\ me'.removeFiles = me.removeFiles /\ me'.updateFiles = me.updateFiles
        /\ me'.updateFlags = me.updateFlags
        /\ me'.ended = me.ended /\ me'.full = me.full /\ me'.todo = me.todo \ {r}
    BY <1>1, <1>2 DEF Base, Types, MeRecord
  <1>4. me.at \in Session \ {"ready", "remove", "abort"} /\ me'.at \in Session
            /\ me.at \in Updating /\ me.at \in Loading /\ me.at \notin {"saving", "saved"}
    BY <1>1, <1>3 DEF Session, Updating, Loading
  <1>5. r \in P!Server /\ r \in P!Info /\ r.path \in Paths /\ r.path \in me.part
            /\ r \in me.updateFiles /\ r \in New /\ ServerSound
    <2>1. r \in me.updateFiles /\ r \in P!Server /\ r \in P!Info /\ r.path \in Paths
              /\ r.path \in me.part
      BY <1>4, TodoFacts
    <2> QED
      BY <1>4, <2>1, ServerIsSound DEF Good, Sessions, ListsSound, Base
  <1>6. r \notin Plus /\ r \notin Flying /\ r \notin Done
    BY <1>2, <1>4 DEF Good, Sessions, LoadSound
  <1>7. /\ disk'[r.path].c = r.c /\ disk'[r.path].x = disk[r.path].x
        /\ \A p \in Paths : p # r.path => disk'[p] = disk[p]
    BY <1>2, <1>5 DEF Base, Types
  <1>8. /\ P!Server' = P!Server /\ New' = New /\ Old' = Old /\ P!RemoveLevel' = P!RemoveLevel
        /\ (Tidy' <=> Tidy)
        /\ \A k : Past(k)' <=> Past(k)
    BY <1>1, SameLists
  <1>9. /\ Plus' = (IF Kind[r.path] = "dir" THEN Plus \cup {r} ELSE Plus) /\ Minus' = Minus
        /\ log'.there = log.there
        /\ Unique'
    <2>1. CASE Kind[r.path] = "dir"
      <3>1. <<r>> \in Seq(P!Info) /\ InSeq(<<r>>) = {r}
        BY <1>5 DEF InSeq
      <3>2. P!Logged(P!Added(<<r>>))
        BY <1>2, <2>1
      <3>3. Plus' = Plus \cup {r} /\ Minus' = Minus /\ log'.there = log.there
        BY <3>1, <3>2, LogGrows DEF Base
      <3>4. Unique'
        BY <1>1, <1>4, <1>5, <3>1, <3>2, UniqueGrows
      <3> QED
        BY <2>1, <3>3, <3>4
    <2>2. CASE Kind[r.path] # "dir"
      <3>1. log' = log
        BY <1>2, <2>2
      <3>2. Plus' = Plus /\ Minus' = Minus
        BY <3>1, SameLog
      <3> QED
        BY <1>1, <1>8, <2>2, <3>1, <3>2 DEF Good, Stored, Unique, Removed
    <2> QED
      BY <2>1, <2>2
  <1>10. \A s \in P!Server : (OnDisk(disk, s) => OnDisk(disk', s))
             /\ (Right(disk, s) => Right(disk', s))
    BY <1>2, <1>5, <1>7 DEF ServerSound, OnDisk, Right
  <1>11. ASSUME NEW K, NEW F, Knows(disk, K, F) PROVE Knows(disk', K, F)
    BY <1>10, <1>11 DEF Knows
  <1>12. DiskPast'
    <2>1. \A x : Past([path |-> r.path, c |-> r.c, x |-> x])
      BY <1>2, <1>5, ServerPast
    <2> QED
      BY <1>7, <1>8, <2>1 DEF Good, Stored, DiskPast
  <1>13. AllPast'
    BY <1>1, <1>5, <1>8, <1>9, ServerPast DEF Good, Stored, AllPast
  <1>14. SummaryKnows'
    <2>1. Knows(disk', summary.infos, {})
      BY <1>11 DEF Good, Stored, SummaryKnows
    <2> QED
      BY <1>1, <1>8, <2>1 DEF SummaryKnows, Knows
  <1>15. Plus \subseteq New /\ Minus \subseteq Old /\ log.there = TRUE
    BY <1>4 DEF Good, Sessions, LogSound
  <1>16. PlusSound'
    <2>1. \A k \in Plus : OnDisk(disk', k)
      BY <1>10, <1>15, NewAndOld DEF Good, Stored, PlusSound
    <2>2. OnDisk(disk', r) /\ r.c # P!Partial /\ r.c # P!Absent /\ (Kind[r.path] = "dir" => ~r.x)
      BY <1>2, <1>5, <1>7 DEF OnDisk, ServerSound
    <2>3. r \notin Minus
      BY <1>5, <1>15, NewAndOld
    <2> QED
      BY <1>9, <1>15, <2>1, <2>2, <2>3 DEF Good, Stored, PlusSound
  <1>17. HonestSound'
    <2> SUFFICES ASSUME Honest, NEW k \in summary.infos, k \notin Minus PROVE Right(disk', k)
      BY <1>1, <1>8, <1>9 DEF HonestSound, Honest
    <2>1. k.path # r.path /\ k.path \in Paths
      BY <1>4, <1>5, Replaced DEF Honest, Tidy, Good, Stored, AllPast, Past
    <2>2. Right(disk, k)
      BY <1>4 DEF Good, Stored, HonestSound
    <2> QED
      BY <1>7, <2>1, <2>2 DEF Right
  <1>18. Ends'
    BY <1>3, <1>4, EndsInSession DEF Good
  <1>19. ListsSound' /\ TidySound'
    BY <1>1, <1>3, <1>4, <1>8 DEF Good, Sessions, ListsSound, TidySound
  <1>20. Flying' = Flying /\ Done' = Done
    BY <1>1 DEF Flying, Done
  <1>21. LocalSound'
    <2>1. Knows(disk', me.localFiles, Flying)
      BY <1>4, <1>11 DEF Good, Sessions, LocalSound
    <2> QED
      BY <1>3, <1>8, <1>20, <2>1 DEF LocalSound, Knows
  <1>22. LogSound'
    <2>1. r \in P!Within(me.updateFiles, me.part)
      BY <1>5 DEF P!Within
    <2> QED
      BY <1>1, <1>3, <1>4, <1>5, <1>8, <1>9, <2>1 DEF Good, Sessions, LogSound
  <1>23. RemoveSound'
    BY <1>1, <1>3, <1>4, <1>5, <1>8, <1>9 DEF Good, Sessions, RemoveSound
  <1>24. UpdateSound'
    <2>1. \A k \in Done : OnDisk(disk', k)
      BY <1>4, <1>10, NewAndOld DEF Good, Sessions, UpdateSound
    <2>2. \A k \in Flying : k \notin Plus'
      BY <1>4, <1>6, <1>9 DEF Good, Sessions, UpdateSound
    <2> QED
      BY <1>1, <1>3, <1>4, <1>8, <1>20, <2>1, <2>2 DEF Good, Sessions, UpdateSound
  <1>25. LoadSound'
    <2>1. OnDisk(disk', r)
      BY <1>2, <1>7 DEF OnDisk
    <2>2. \A f \in P!Within(me.updateFiles, me.part) : f \in P!Server
      BY DEF Base, ListsOrderly, P!Within
    <2> QED
      BY <1>1, <1>3, <1>4, <1>9, <1>10, <1>20, <2>1, <2>2 DEF Good, Sessions, LoadSound
  <1>26. FlagsSound'
    BY <1>3 DEF FlagsSound
  <1> QED
    BY <1>9, <1>12, <1>13, <1>14, <1>16, <1>17, <1>18, <1>19, <1>21, <1>22, <1>23, <1>24, <1>25,
           <1>26 DEF Good, Stored, Sessions

\* The patching thread goes on, and nothing else changes.
LEMMA MoveGood ==
    ASSUME Base, Good, UNCHANGED <<config, disk, summary, log, release, crashes, dec>>,
           me.at \in Loading, me'.at \in {"update", "chunk", "abort"},
           me'.localFiles = me.localFiles, me'.removeFiles = me.removeFiles,
               me'.updateFiles = me.updateFiles,
           me'.updateFlags = me.updateFlags, me'.part = me.part, me'.all = me.all,
               me'.full = me.full,
           me'.ended = me.ended, LoadSound'
    PROVE  Good'
  <1>1. /\ me.at \in Session /\ me'.at \in Session /\ me.at \in Updating
        /\ me.at \notin {"saving", "saved", "abort", "join", "ready", "remove", "flags"}
        /\ me'.at \notin {"saving", "saved", "join", "ready", "remove", "flags"}
        /\ me.at \in {"update", "chunk", "abort"}
    BY DEF Loading, Session, Updating
  <1>2. Stored' /\ Ends'
    BY <1>1, StoredSame, EndsInSession DEF Good
  <1>3. /\ P!Server' = P!Server /\ New' = New /\ Old' = Old /\ P!RemoveLevel' = P!RemoveLevel
        /\ (Tidy' <=> Tidy)
        /\ \A k : Past(k)' <=> Past(k)
    BY SameLists
  <1>4. Plus' = Plus /\ Minus' = Minus /\ Flying' = Flying /\ Done' = Done
    BY SameLog DEF Flying, Done
  <1>5. ListsSound' /\ TidySound'
    BY <1>1, <1>3 DEF Good, Sessions, ListsSound, TidySound
  <1>6. LocalSound'
    BY <1>1, <1>3, <1>4 DEF Good, Sessions, LocalSound, Knows
  <1>7. LogSound'
    BY <1>1, <1>3, <1>4 DEF Good, Sessions, LogSound
  <1>8. RemoveSound'
    BY <1>1, <1>3, <1>4 DEF Good, Sessions, RemoveSound
  <1>9. UpdateSound'
    BY <1>1, <1>3, <1>4 DEF Good, Sessions, UpdateSound
  <1>10. FlagsSound'
    BY <1>1 DEF FlagsSound
  <1> QED
    BY <1>2, <1>5, <1>6, <1>7, <1>8, <1>9, <1>10 DEF Good, Sessions

\* The download of a file begins.
LEMMA UpdateFileGood ==
    ASSUME Base, Good, UNCHANGED config, P!UpdateFile
    PROVE  Good'
  <1>1. me.at = "update" /\ me.at \in Loading
            /\ UNCHANGED <<disk, summary, log, release, dec, crashes, torn>>
    BY DEF P!UpdateFile, P!At, Loading
  <1>2. PICK r \in me.todo :
          me' = [me EXCEPT !.at = "chunk", !.file = r, !.todo = @ \ {r}, !.pos = 0, !.bz2 = <<>>]
    BY DEF P!UpdateFile
  <1>3. /\ me'.at = "chunk" /\ me'.part = me.part /\ me'.all = me.all
        /\ me'.localFiles = me.localFiles
        /\ me'.removeFiles = me.removeFiles /\ me'.updateFiles = me.updateFiles
        /\ me'.updateFlags = me.updateFlags
        /\ me'.ended = me.ended /\ me'.full = me.full /\ me'.todo = me.todo \ {r} /\ me'.file = r
    BY <1>1, <1>2 DEF Base, Types, MeRecord
  <1>4. Plus' = Plus /\ Flying' = Flying /\ Done' = Done
    BY <1>1, SameLog DEF Flying, Done
  <1>5. LoadSound'
    BY <1>1, <1>3, <1>4 DEF Good, Sessions, LoadSound
  <1> QED
    BY <1>1, <1>3, <1>5, MoveGood

\* A chunk arrives.
LEMMA DownloadChunkGood ==
    ASSUME Base, Good, UNCHANGED config, P!DownloadChunk
    PROVE  Good'
  <1>1. me.at = "chunk" /\ me.at \in Loading
            /\ UNCHANGED <<disk, summary, log, release, dec, crashes, torn>>
    BY DEF P!DownloadChunk, P!At, Loading
  <1>2. \E c, n : me' = [me EXCEPT !.cur = c, !.nxt = n, !.bz2 = Append(@, c), !.pos = @ + 1]
    BY DEF P!DownloadChunk
  <1>3. /\ me'.at = "chunk" /\ me'.part = me.part /\ me'.all = me.all
        /\ me'.localFiles = me.localFiles
        /\ me'.removeFiles = me.removeFiles /\ me'.updateFiles = me.updateFiles
        /\ me'.updateFlags = me.updateFlags
        /\ me'.ended = me.ended /\ me'.full = me.full /\ me'.todo = me.todo /\ me'.file = me.file
    BY <1>1, <1>2 DEF Base, Types, MeRecord
  <1>4. Plus' = Plus /\ Flying' = Flying /\ Done' = Done
    BY <1>1, SameLog DEF Flying, Done
  <1>5. LoadSound'
    BY <1>1, <1>3, <1>4 DEF Good, Sessions, LoadSound
  <1> QED
    BY <1>1, <1>3, <1>5, MoveGood

\* A failure while files are downloaded.
LEMMA UpdateFailsGood ==
    ASSUME Base, Good, UNCHANGED config, P!UpdateFails
    PROVE  Good'
  <1>1. me.at \in Loading /\ UNCHANGED <<disk, summary, log, release, dec, crashes, torn>>
    BY DEF P!UpdateFails, P!At, Loading
  <1>2. /\ me'.at = "abort" /\ me'.part = me.part /\ me'.all = me.all
        /\ me'.localFiles = me.localFiles
        /\ me'.removeFiles = me.removeFiles /\ me'.updateFiles = me.updateFiles
        /\ me'.updateFlags = me.updateFlags
        /\ me'.ended = me.ended /\ me'.full = me.full
    BY DEF P!UpdateFails, P!Goes, Base, Types, MeRecord
  <1>3. LoadSound'
    BY <1>2 DEF LoadSound, Loading
  <1> QED
    BY <1>1, <1>2, <1>3, MoveGood

\* What the Decompressor has done is logged.
LEMMA DoneLogged ==
    ASSUME Base, Good, me.at \in Updating, P!Logged(P!Added(dec.filesDone)),
           UNCHANGED <<config, disk, summary, release, crashes>>
    PROVE  /\ Stored' /\ Plus' = Plus \cup Done /\ Minus' = Minus /\ log'.there = TRUE
           /\ Plus' \subseteq New
           /\ Tidy => \A k \in me.removeFiles : \A s \in Plus' : k.path # s.path
  <1>1. /\ me.at \in Session \ {"ready", "remove"} /\ me.at \in Session
        /\ me.at \notin {"saving", "saved"}
    BY DEF Updating, Session
  <1>2. dec.filesDone \in Seq(P!Info) /\ InSeq(dec.filesDone) = Done
    BY DEF Base, Types, DecRecord, Done
  <1>3. Plus' = Plus \cup Done /\ Minus' = Minus /\ log'.there = log.there
    BY <1>2, LogGrows DEF Base
  <1>4. /\ Done \subseteq New /\ \A k \in Done : OnDisk(disk, k) /\ Kind[k.path] = "file"
    BY DEF Good, Sessions, UpdateSound
  <1>5. Done \subseteq P!Server /\ \A k \in Done : k.path \in me.part
    BY DEF Base, DecOrderly, P!Within
  <1>6. Unique'
    BY <1>1, <1>2, <1>4, <1>5, UniqueGrows
  <1>7. Plus \subseteq New /\ Minus \subseteq Old /\ log.there = TRUE
    BY <1>1 DEF Good, Sessions, LogSound
  <1>8. /\ P!Server' = P!Server /\ P!RemoveLevel' = P!RemoveLevel /\ \A k : Past(k)' <=> Past(k)
    BY SameLists
  <1>9. DiskPast' /\ AllPast'
    BY <1>3, <1>5, <1>8, ServerPast DEF Good, Stored, DiskPast, AllPast
  <1>10. SummaryKnows'
    BY <1>8 DEF Good, Stored, SummaryKnows, Knows
  <1>11. PlusSound'
    <2>1. \A k \in Done : OnDisk(disk, k) /\ k.c # P!Partial /\ k.c # P!Absent
              /\ (Kind[k.path] = "dir" => ~k.x)
                          /\ Kind[k.path] # "empty"
      BY <1>4, <1>5, ServerIsSound DEF ServerSound, Base
    <2>2. Done \cap Minus = {}
      BY <1>5, <1>7, NewAndOld
    <2> QED
      BY <1>3, <1>7, <2>1, <2>2 DEF Good, Stored, PlusSound
  <1>12. HonestSound'
    BY <1>1, <1>3, <1>8 DEF Good, Stored, HonestSound, Honest
  <1>13. Tidy => \A k \in me.removeFiles : \A s \in Plus' : k.path # s.path
    BY <1>1, <1>3, <1>5 DEF Good, Sessions, RemoveSound
  <1> QED
    BY <1>3, <1>4, <1>6, <1>7, <1>9, <1>10, <1>11, <1>12, <1>13 DEF Stored

\* A file is given to the Decompressor, and those that it has done are logged.
LEMMA DownloadEndGood ==
    ASSUME Base, Good, UNCHANGED config, P!DownloadEnd
    PROVE  Good'
  <1>1. me.at = "chunk" /\ UNCHANGED <<disk, summary, release, crashes, torn>>
            /\ P!Logged(P!Added(dec.filesDone))
    BY DEF P!DownloadEnd, P!At
  <1>2. me.at \in Updating /\ me.at \in Loading /\ me.at \in Session \ {"abort"}
    BY <1>1 DEF Updating, Loading, Session
  <1>3. /\ Stored' /\ Plus' = Plus \cup Done /\ Minus' = Minus /\ log'.there = TRUE
        /\ Plus' \subseteq New
        /\ Tidy => \A k \in me.removeFiles : \A s \in Plus' : k.path # s.path
    BY <1>1, <1>2, DoneLogged
  <1>4. /\ me'.at = (IF dec.exception THEN "abort" ELSE "update") /\ me'.part = me.part
        /\ me'.all = me.all /\ me'.localFiles = me.localFiles
        /\ me'.removeFiles = me.removeFiles /\ me'.updateFiles = me.updateFiles
        /\ me'.updateFlags = me.updateFlags
        /\ me'.ended = me.ended /\ me'.full = me.full /\ me'.todo = me.todo
    <2>1. me \in MeRecord
      BY DEF Base, Types
    <2>2. CASE dec.exception
      <3>1. me' = [me EXCEPT !.at = "abort"]
        BY <2>2 DEF P!DownloadEnd, P!Goes
      <3> QED
        BY <2>1, <2>2, <3>1 DEF MeRecord
    <2>3. CASE ~dec.exception
      <3>1. \E b : me' = [me EXCEPT !.at = "update", !.file = P!NoFile, !.good = b]
        BY <2>3 DEF P!DownloadEnd
      <3> QED
        BY <2>1, <2>3, <3>1 DEF MeRecord
    <2> QED
      BY <2>2, <2>3
  <1>5. dec \in DecRecord /\ dec.files \in Seq(P!Info) /\ me.file \in P!Info
            /\ <<>> \in Seq(P!Info)
    BY DEF Base, Types, DecRecord, MeRecord
  <1>6. /\ dec'.filesDone = <<>> /\ dec'.info = dec.info
        /\ dec'.files = (IF dec.exception THEN dec.files ELSE Append(dec.files, me.file))
    BY <1>5 DEF P!DownloadEnd, DecRecord
  <1>7. Done' = {}
    BY <1>6 DEF Done, InSeq
  <1>8. Flying' = (IF dec.exception THEN Flying ELSE Flying \cup {me.file})
    <2>1. CASE dec.exception
      BY <1>6, <2>1 DEF Flying
    <2>2. CASE ~dec.exception
      <3>1. InSeq(dec'.files) = InSeq(dec.files) \cup {me.file}
        BY <1>5, <1>6, <2>2, InSeqAppend
      <3> QED
        BY <1>6, <2>2, <3>1 DEF Flying
    <2> QED
      BY <2>1, <2>2
  <1>9. /\ me.file \in P!Within(me.updateFiles, me.part) /\ Kind[me.file.path] = "file"
        /\ me.file \in New
        /\ me.file \notin Plus /\ me.file \notin Flying /\ me.file \notin Done
        /\ me.file \notin me.todo /\ me.file # P!NoFile
    <2>1. me.file \in P!Within(me.updateFiles, me.part) /\ Kind[me.file.path] = "file"
              /\ me.file \in P!Server
      BY <1>1 DEF Base, ListsOrderly, P!Within
    <2>2. me.file \in New
      BY <1>2, <2>1 DEF Good, Sessions, ListsSound, P!Within
    <2>3. me.file # P!NoFile
      BY <2>1, ServerIsSound DEF Base, ServerSound
    <2> QED
      BY <1>1, <1>2, <2>1, <2>2, <2>3 DEF Good, Sessions, LoadSound
  <1>10. /\ P!Server' = P!Server /\ New' = New /\ Old' = Old /\ P!RemoveLevel' = P!RemoveLevel
         /\ (Tidy' <=> Tidy)
         /\ \A k : Past(k)' <=> Past(k)
    BY <1>1, SameLists
  <1>11. me'.at \in Session /\ me'.at \in {"update", "chunk", "abort"}
             /\ me'.at \notin {"ready", "remove", "join", "flags", "chunk"}
    BY <1>4 DEF Session
  <1>12. Ends'
    BY <1>2, <1>4, <1>11, EndsInSession DEF Good
  <1>13. ListsSound' /\ TidySound'
    BY <1>1, <1>2, <1>4, <1>10, <1>11 DEF Good, Sessions, ListsSound, TidySound
  <1>14. LocalSound'
    <2>1. Knows(disk, me.localFiles, Flying) /\ Flying \subseteq Flying'
      BY <1>2, <1>8 DEF Good, Sessions, LocalSound
    <2> QED
      BY <1>1, <1>4, <1>10, <2>1 DEF LocalSound, Knows
  <1>15. Done \subseteq P!Within(me.updateFiles, me.part)
    BY <1>1, <1>2 DEF Good, Sessions, UpdateSound
  <1>16. LogSound'
    <2>1. Plus \subseteq me.localFiles \cup P!Within(me.updateFiles, me.part)
      BY <1>1, <1>2 DEF Good, Sessions, LogSound
    <2>2. Minus \subseteq Old
      BY <1>1, <1>2 DEF Good, Sessions, LogSound
    <2> QED
      BY <1>3, <1>4, <1>10, <1>11, <1>15, <2>1, <2>2 DEF LogSound
  <1>17. RemoveSound'
    BY <1>1, <1>2, <1>3, <1>4, <1>10, <1>11 DEF Good, Sessions, RemoveSound
  <1>18. UpdateSound'
    <2>1. \A k \in Flying' : k \in New /\ k \notin Plus' /\ Kind[k.path] = "file"
              /\ k \in P!Within(me.updateFiles, me.part)
      BY <1>1, <1>2, <1>3, <1>8, <1>9 DEF Good, Sessions, UpdateSound
    <2>2. /\ \A i, j \in DOMAIN dec'.files : i # j => dec'.files[i] # dec'.files[j]
          /\ \A i \in DOMAIN dec'.files : dec'.info # dec'.files[i]
      <3>1. /\ \A i, j \in DOMAIN dec.files : i # j => dec.files[i] # dec.files[j]
            /\ \A i \in DOMAIN dec.files : dec.info # dec.files[i]
        BY <1>2 DEF Good, Sessions, UpdateSound
      <3>2. CASE dec.exception
        BY <1>6, <3>1, <3>2
      <3>3. CASE ~dec.exception
        <4>1. /\ DOMAIN dec'.files = 1 .. Len(dec.files) + 1
              /\ DOMAIN dec.files = 1 .. Len(dec.files) /\ Len(dec.files) \in Nat
              /\ \A i \in 1 .. Len(dec.files) : dec'.files[i] = dec.files[i]
              /\ dec'.files[Len(dec.files) + 1] = me.file
          BY <1>5, <1>6, <3>3
        <4>2. \A i \in DOMAIN dec'.files : i \in DOMAIN dec.files \/ i = Len(dec.files) + 1
          BY <4>1
        <4>3. (\A i \in DOMAIN dec.files : dec.files[i] # me.file) /\ dec.info # me.file
          BY <1>9 DEF Flying, InSeq
        <4> QED
          BY <1>6, <3>1, <4>1, <4>2, <4>3
      <3> QED
        BY <3>2, <3>3
    <2> QED
      BY <1>4, <1>7, <1>10, <1>11, <2>1, <2>2 DEF UpdateSound
  <1>19. LoadSound'
    <2> SUFFICES ASSUME ~dec.exception PROVE LoadSound'
      BY <1>4 DEF LoadSound, Loading
    <2>1. \A k \in me.todo : k \notin Plus /\ k \notin Flying /\ k \notin Done
      BY <1>2 DEF Good, Sessions, LoadSound
    <2>2. \A f \in P!Within(me.updateFiles, me.part) :
              f \in me.todo \/ f \in Flying \/ f = me.file \/ OnDisk(disk, f)
      BY <1>2 DEF Good, Sessions, LoadSound
    <2> QED
      BY <1>1, <1>3, <1>4, <1>7, <1>8, <1>9, <1>11, <2>1, <2>2 DEF LoadSound
  <1>20. FlagsSound'
    BY <1>11 DEF FlagsSound
  <1> QED
    BY <1>3, <1>12, <1>13, <1>14, <1>16, <1>17, <1>18, <1>19, <1>20 DEF Good, Sessions

-----------------------------------------------------------------------------
(* The Decompressor *)

\* All files of the part are downloaded: they are local ones though some may still be
\* decompressed.
LEMMA UpdateEndGood ==
    ASSUME Base, Good, UNCHANGED config, P!UpdateEnd
    PROVE  Good'
  <1> DEFINE files == P!Within(me.updateFiles, me.part)
  <1>1. me.at = "update" /\ me.todo = {}
            /\ UNCHANGED <<disk, summary, log, release, dec, crashes, torn>>
    BY DEF P!UpdateEnd, P!At
  <1>2. /\ me'.at = "join" /\ me'.localFiles = me.localFiles \cup files
        /\ me'.updateFiles = me.updateFiles \ files
        /\ me'.part = me.part /\ me'.all = me.all /\ me'.removeFiles = me.removeFiles
        /\ me'.updateFlags = me.updateFlags /\ me'.ended = me.ended /\ me'.full = me.full
    BY DEF P!UpdateEnd, Base, Types, MeRecord
  <1>3. /\ me.at \in Session \ {"ready", "remove", "abort"} /\ me.at \in Session
        /\ me.at \in Updating /\ me.at \in Loading
        /\ me'.at \in Session /\ me'.at \notin Loading
    BY <1>1, <1>2 DEF Session, Updating, Loading
  <1>4. Stored' /\ Ends'
    BY <1>1, <1>2, <1>3, StoredSame, EndsInSession DEF Good
  <1>5. /\ P!Server' = P!Server /\ New' = New /\ Old' = Old /\ P!RemoveLevel' = P!RemoveLevel
        /\ (Tidy' <=> Tidy)
        /\ \A k : Past(k)' <=> Past(k)
    BY <1>1, SameLists
  <1>6. Plus' = Plus /\ Minus' = Minus /\ Flying' = Flying /\ Done' = Done
    BY <1>1, SameLog DEF Flying, Done
  <1>7. /\ files \subseteq P!Server /\ files \subseteq me.updateFiles /\ ServerSound
        /\ \A f \in files : f.path \in me.part
        /\ \A f \in me.updateFiles \ files : f.path \notin me.part
    BY ServerIsSound DEF Base, ListsOrderly, P!Within
  <1>8. P!Within(me.updateFiles \ files, me.part) = {}
    BY DEF P!Within
  <1>9. \A f \in files : f \in Flying \/ OnDisk(disk, f)
    BY <1>1, <1>3 DEF Good, Sessions, LoadSound
  <1>10. /\ \A f \in files : \A k \in me.localFiles : ~P!SameContents(k, f)
    BY <1>3, <1>7 DEF Good, Sessions, ListsSound
  <1>11. LogSound'
    BY <1>1, <1>2, <1>3, <1>5, <1>6 DEF Good, Sessions, LogSound
  <1>12. UpdateSound'
    BY <1>1, <1>2, <1>3, <1>5, <1>6 DEF Good, Sessions, UpdateSound
  <1>13. FlagsSound' /\ LoadSound'
    BY <1>2, <1>3, <1>8 DEF FlagsSound, LoadSound
  <1> HIDE DEF files
  <1>14. ListsSound'
    <2>1. \A f \in me'.updateFiles : \A k \in me'.localFiles : ~P!SameContents(k, f)
      BY <1>2, <1>3, <1>7 DEF Good, Sessions, ListsSound, P!SameContents
    <2>2. \A k \in me'.localFiles : Past(k)
      BY <1>2, <1>3, <1>7, ServerPast DEF Good, Sessions, ListsSound
    <2>3. \A f \in me.updateFlags : \E k \in me'.localFiles \cap summary.infos : P!SameContents(k, f)
      BY <1>2, <1>3 DEF Good, Sessions, ListsSound
    <2>4. P!Server \subseteq me'.updateFiles \cup me'.updateFlags \cup me'.localFiles
      BY <1>2, <1>3 DEF Good, Sessions, ListsSound
    <2>5. me'.removeFiles \subseteq me'.localFiles \cap Old /\ me'.updateFiles \subseteq New
      BY <1>2, <1>3 DEF Good, Sessions, ListsSound
    <2>6. (me'.full => me'.updateFiles = {} /\ me'.updateFlags = {})
              /\ (me'.all => me'.part = Paths)
      BY <1>2, <1>3 DEF Good, Sessions, ListsSound
    <2> QED
      BY <1>1, <1>2, <1>3, <1>5, <2>1, <2>2, <2>3, <2>4, <2>5, <2>6 DEF ListsSound
  <1>15. TidySound'
    <2> SUFFICES ASSUME Tidy
                 PROVE  /\ OneEach(me.localFiles \cup files)
                        /\ \A k \in me.localFiles \cup files : k \in me.removeFiles
                               \/ \E s \in P!Server : P!SameContents(k, s)
      BY <1>2, <1>5 DEF TidySound
    <2>1. /\ OneEach(me.localFiles)
          /\ \A k \in me.localFiles : k \in me.removeFiles
                 \/ \E s \in P!Server : P!SameContents(k, s)
      BY <1>3 DEF Good, Sessions, TidySound
    <2>2. \A k \in me.removeFiles : k.path \notin me.part
      BY <1>3 DEF Good, Sessions, RemoveSound
    <2>3. ASSUME NEW k \in me.localFiles, NEW f \in files, k.path = f.path PROVE FALSE
      <3>1. k \notin me.removeFiles
        BY <1>7, <2>2, <2>3
      <3>2. PICK s \in P!Server : P!SameContents(k, s)
        BY <2>1, <3>1
      <3>3. s = f
        BY <1>7, <2>3, <3>2 DEF P!SameContents, ServerSound
      <3> QED
        BY <1>10, <3>2, <3>3
    <2>4. \A k, l \in files : k.path = l.path => k = l
      BY <1>7 DEF ServerSound
    <2>5. \A k \in files : \E s \in P!Server : P!SameContents(k, s)
      BY <1>7 DEF P!SameContents
    <2> QED
      BY <2>1, <2>3, <2>4, <2>5 DEF OneEach
  <1>16. LocalSound'
    <2>1. Knows(disk, me.localFiles, Flying)
      BY <1>3 DEF Good, Sessions, LocalSound
    <2>2. Knows(disk, files, Flying)
      BY <1>7, <1>9 DEF Knows, ServerSound, P!SameContents, OnDisk, Right
    <2>3. Knows(disk, me.localFiles \cup files, Flying)
      BY <2>1, <2>2 DEF Knows
    <2> QED
      BY <1>1, <1>2, <1>5, <1>6, <2>3 DEF LocalSound, Knows
  <1>17. RemoveSound'
    BY <1>1, <1>2, <1>3, <1>5, <1>6 DEF Good, Sessions, RemoveSound
  <1> QED
    BY <1>4, <1>11, <1>12, <1>13, <1>14, <1>15, <1>16, <1>17 DEF Good, Sessions

\* The Decompressor goes on and does not touch the disk.
LEMMA DecMoveGood ==
    ASSUME Base, Good, UNCHANGED <<config, disk, summary, log, release, crashes, me>>,
               me.at \in Updating,
           Flying' = Flying, Done' = Done,
           \A i, j \in DOMAIN dec'.files : i # j => dec'.files[i] # dec'.files[j],
           \A i \in DOMAIN dec'.files : dec'.info # dec'.files[i]
    PROVE  Good'
  <1>1. me.at \in Session /\ me'.at = me.at
    BY DEF Updating, Session
  <1>2. Stored' /\ Ends'
    BY <1>1, StoredSame, EndsInSession DEF Good
  <1>3. /\ P!Server' = P!Server /\ New' = New /\ Old' = Old /\ P!RemoveLevel' = P!RemoveLevel
        /\ (Tidy' <=> Tidy)
        /\ \A k : Past(k)' <=> Past(k)
    BY SameLists
  <1>4. Plus' = Plus /\ Minus' = Minus
    BY SameLog
  <1>5. ListsSound' /\ TidySound'
    BY <1>3 DEF Good, Sessions, ListsSound, TidySound
  <1>6. LocalSound'
    BY <1>3 DEF Good, Sessions, LocalSound, Knows
  <1>7. LogSound' /\ RemoveSound'
    BY <1>3, <1>4 DEF Good, Sessions, LogSound, RemoveSound
  <1>8. UpdateSound'
    BY <1>3, <1>4 DEF Good, Sessions, UpdateSound
  <1>9. LoadSound' /\ FlagsSound'
    BY <1>4 DEF Good, Sessions, LoadSound, FlagsSound
  <1> QED
    BY <1>2, <1>5, <1>6, <1>7, <1>8, <1>9 DEF Good, Sessions

\* The Decompressor is told to end, fails or ends.
LEMMA EndingGood ==
    ASSUME Base, Good, UNCHANGED config, P!Destroy \/ P!DecompressorFails \/ P!DecompressorExit
    PROVE  Good'
  <1>1. UNCHANGED <<disk, summary, log, release, me, crashes, torn>>
    BY DEF P!Destroy, P!DecompressorFails, P!DecompressorExit
  <1>2. me.at \in Updating
    BY NoDecIs DEF P!Destroy, P!DecompressorFails, P!DecompressorExit, Updating, Base, DecOrderly
  <1>3. dec'.files = dec.files /\ dec'.info = dec.info /\ dec'.filesDone = dec.filesDone
    BY DEF P!Destroy, P!DecompressorFails, P!DecompressorExit, Base, Types, DecRecord
  <1>4. Flying' = Flying /\ Done' = Done
    BY <1>3 DEF Flying, Done
  <1> QED
    BY <1>1, <1>2, <1>3, <1>4, DecMoveGood DEF Good, Sessions, UpdateSound

\* The Decompressor takes a file, which is not logged while it is written.
LEMMA TakeGood ==
    ASSUME Base, Good, UNCHANGED config, P!DecompressorTake
    PROVE  Good'
  <1>1. /\ UNCHANGED <<disk, summary, log, release, me, crashes, torn>> /\ dec.info = P!NoFile
        /\ dec.files # <<>>
        /\ dec' = [dec EXCEPT !.info = Head(dec.files), !.files = Tail(dec.files)]
    BY DEF P!DecompressorTake
  <1>2. me.at \in Updating
    BY NoDecIs DEF P!DecompressorTake, Updating, Base, DecOrderly
  <1>3. dec \in DecRecord /\ dec.files \in Seq(P!Info)
    BY DEF Base, Types, DecRecord
  <1>4. /\ Head(dec.files) = dec.files[1] /\ 1 \in DOMAIN dec.files
        /\ \A i \in DOMAIN Tail(dec.files) : i + 1 \in DOMAIN dec.files
               /\ Tail(dec.files)[i] = dec.files[i + 1] /\ i \in Nat /\ i >= 1
        /\ InSeq(dec.files) = {Head(dec.files)} \cup InSeq(Tail(dec.files))
    BY <1>1, <1>3, InSeqTail
  <1>5. dec'.info = Head(dec.files) /\ dec'.files = Tail(dec.files)
            /\ dec'.filesDone = dec.filesDone
    BY <1>1, <1>3 DEF DecRecord
  <1>6. Head(dec.files) # P!NoFile
    <2>1. Head(dec.files) \in Flying
      BY <1>4 DEF Flying
    <2> QED
      BY <2>1, ServerIsSound DEF Base, DecOrderly, P!Within, ServerSound
  <1>7. Flying' = Flying /\ Done' = Done
    BY <1>1, <1>4, <1>5, <1>6 DEF Flying, Done
  <1>8. \A i, j \in DOMAIN dec.files : i # j => dec.files[i] # dec.files[j]
    BY <1>2 DEF Good, Sessions, UpdateSound
  <1>9. \A i, j \in DOMAIN dec'.files : i # j => dec'.files[i] # dec'.files[j]
    <2> SUFFICES ASSUME NEW i \in DOMAIN Tail(dec.files), NEW j \in DOMAIN Tail(dec.files), i # j
                 PROVE  Tail(dec.files)[i] # Tail(dec.files)[j]
      BY <1>5
    <2>1. i + 1 # j + 1
      BY <1>4
    <2> QED
      BY <1>4, <1>8, <2>1
  <1>10. \A i \in DOMAIN dec'.files : dec'.info # dec'.files[i]
    <2> SUFFICES ASSUME NEW i \in DOMAIN Tail(dec.files) PROVE dec.files[1] # Tail(dec.files)[i]
      BY <1>4, <1>5
    <2>1. i + 1 # 1
      BY <1>4
    <2> QED
      BY <1>4, <1>8, <2>1
  <1> QED
    BY <1>1, <1>2, <1>7, <1>9, <1>10, DecMoveGood

\* The Decompressor begins or ends to write a file.
LEMMA WriteGood ==
    ASSUME Base, Good, UNCHANGED <<config, summary, log, release, me, crashes>>,
               me.at \in Updating,
           NEW q \in Flying, \A p \in Paths : p # q.path => disk'[p] = disk[p],
           disk'[q.path].c # P!Absent =>
               Past([path |-> q.path, c |-> disk'[q.path].c, x |-> disk'[q.path].x]),
           \/ Flying' = Flying /\ Done' = Done
           \/ Flying' = Flying \ {q} /\ Done' = Done \cup {q} /\ OnDisk(disk', q),
           \A i, j \in DOMAIN dec'.files : i # j => dec'.files[i] # dec'.files[j],
           \A i \in DOMAIN dec'.files : dec'.info # dec'.files[i]
    PROVE  Good'
  <1>1. me.at \in Session \ {"ready", "remove"} /\ me.at \in Session /\ me'.at = me.at
            /\ me.at \notin {"saving", "saved"}
    BY DEF Updating, Session
  <1>2. Ends'
    BY <1>1, EndsInSession DEF Good
  <1>3. /\ P!Server' = P!Server /\ New' = New /\ Old' = Old /\ P!RemoveLevel' = P!RemoveLevel
        /\ (Tidy' <=> Tidy)
        /\ \A k : Past(k)' <=> Past(k)
    BY SameLists
  <1>4. Plus' = Plus /\ Minus' = Minus
    BY SameLog
  <1>5. /\ q \in New /\ q \in P!Server /\ q.path \in me.part /\ q.path \in Paths
        /\ q \notin Plus /\ q \notin Done
        /\ Kind[q.path] = "file" /\ ServerSound
    <2>1. q \in P!Server /\ q.path \in me.part
      BY DEF Base, DecOrderly, P!Within
    <2>2. q \in New /\ q \notin Plus /\ q \notin Done /\ Kind[q.path] = "file"
      BY DEF Good, Sessions, UpdateSound
    <2> QED
      BY <2>1, <2>2, ServerIsSound DEF Base, ServerSound
  <1>6. \A s \in P!Server : s # q =>
            s.path # q.path /\ s.path \in Paths /\ disk'[s.path] = disk[s.path]
    BY <1>5 DEF ServerSound
  <1>7. \A s \in P!Server : s # q =>
            (OnDisk(disk, s) => OnDisk(disk', s)) /\ (Right(disk, s) => Right(disk', s))
    BY <1>6 DEF OnDisk, Right
  <1>8. DiskPast'
    BY <1>3, <1>5 DEF Good, Stored, DiskPast
  <1>9. AllPast'
    BY <1>3, <1>4 DEF Good, Stored, AllPast
  <1>10. SummaryKnows'
    <2> SUFFICES ASSUME NEW k \in summary.infos, NEW s \in P!Server, P!SameContents(k, s)
                 PROVE  Right(disk', s) /\ (k = s => OnDisk(disk', s))
      BY <1>3 DEF SummaryKnows, Knows, P!SameContents
    <2>1. s # q
      BY <1>5, NewAndOld DEF P!SameContents
    <2> QED
      BY <1>7, <2>1 DEF Good, Stored, SummaryKnows, Knows
  <1>11. Plus \subseteq P!Server
    BY <1>1, NewAndOld DEF Good, Sessions, LogSound
  <1>12. PlusSound'
    <2>1. \A k \in Plus : OnDisk(disk', k)
      BY <1>5, <1>7, <1>11 DEF Good, Stored, PlusSound
    <2> QED
      BY <1>4, <2>1 DEF Good, Stored, PlusSound
  <1>13. Unique'
    BY <1>3, <1>4 DEF Good, Stored, Unique, Removed
  <1>14. HonestSound'
    <2> SUFFICES ASSUME Honest, NEW k \in summary.infos, k \notin Minus PROVE Right(disk', k)
      BY <1>3, <1>4 DEF HonestSound, Honest
    <2>1. k.path # q.path /\ k.path \in Paths
      BY <1>1, <1>5, Replaced DEF Honest, Tidy, Good, Stored, AllPast, Past
    <2>2. Right(disk, k)
      BY <1>1 DEF Good, Stored, HonestSound
    <2> QED
      BY <2>1, <2>2 DEF Right
  <1>15. ListsSound' /\ TidySound'
    BY <1>3 DEF Good, Sessions, ListsSound, TidySound
  <1>16. LocalSound'
    <2> SUFFICES ASSUME me.at # "abort", NEW k \in me.localFiles, NEW s \in P!Server,
                            s \notin Flying', P!SameContents(k, s)
                 PROVE  Right(disk', s) /\ (k = s => OnDisk(disk', s))
      BY <1>3 DEF LocalSound, Knows, P!SameContents
    <2>1. CASE s = q
      BY <2>1 DEF OnDisk, Right
    <2>2. CASE s # q
      <3>1. s \notin Flying
        BY <2>2
      <3> QED
        BY <1>1, <1>7, <2>2, <3>1 DEF Good, Sessions, LocalSound, Knows
    <2> QED
      BY <2>1, <2>2
  <1>17. LogSound' /\ RemoveSound'
    BY <1>3, <1>4 DEF Good, Sessions, LogSound, RemoveSound
  <1>18. UpdateSound'
    <2>1. /\ Flying \subseteq New /\ Done \subseteq New
          /\ \A k \in Done : k \notin Flying /\ OnDisk(disk, k) /\ Kind[k.path] = "file"
          /\ \A k \in Flying : k \notin Plus /\ Kind[k.path] = "file"
      BY DEF Good, Sessions, UpdateSound
    <2>2. \A k \in Done : OnDisk(disk', k)
      BY <1>5, <1>7, <2>1, NewAndOld
    <2>3. /\ Flying' \subseteq New /\ Done' \subseteq New
          /\ \A k \in Done' : k \notin Flying' /\ OnDisk(disk', k) /\ Kind[k.path] = "file"
          /\ \A k \in Flying' : k \notin Plus /\ Kind[k.path] = "file"
      BY <1>5, <2>1, <2>2
    <2>4. /\ me.at # "join" => Flying' \subseteq P!Within(me.updateFiles, me.part)
                 /\ Done' \subseteq P!Within(me.updateFiles, me.part)
          /\ me.at = "join" => Flying' \subseteq me.localFiles /\ Done' \subseteq me.localFiles
      BY DEF Good, Sessions, UpdateSound
    <2> QED
      BY <1>3, <1>4, <2>3, <2>4 DEF UpdateSound
  <1>19. LoadSound'
    <2> SUFFICES ASSUME me.at \in Loading PROVE LoadSound'
      BY DEF LoadSound
    <2>1. P!Within(me.updateFiles, me.part) \subseteq P!Server
      BY DEF Base, ListsOrderly, P!Within
    <2>2. ASSUME NEW f \in P!Within(me.updateFiles, me.part)
          PROVE  f \in me.todo \/ f \in Flying' \/ (me.at = "chunk" /\ f = me.file)
                     \/ OnDisk(disk', f)
      BY <1>7, <2>1 DEF Good, Sessions, LoadSound
    <2> QED
      BY <1>4, <2>2 DEF Good, Sessions, LoadSound
  <1>20. FlagsSound'
    <2>1. me.at # "flags"
      BY DEF Updating
    <2> QED
      BY <2>1 DEF Good, Sessions, FlagsSound
  <1> QED
    BY <1>2, <1>8, <1>9, <1>10, <1>12, <1>13, <1>14, <1>15, <1>16, <1>17, <1>18, <1>19,
           <1>20 DEF Good, Stored, Sessions

\* The file's old contents are gone: nothing is known of it, for what the summary had
\* at its path was removed.
LEMMA OpenGood ==
    ASSUME Base, Good, UNCHANGED config, P!DecompressorOpen
    PROVE  Good'
  <1>1. /\ UNCHANGED <<summary, log, release, me, crashes, torn>> /\ dec.info # P!NoFile
        /\ dec' = [dec EXCEPT !.writing = TRUE]
        /\ disk' = [disk EXCEPT ![dec.info.path].c = P!Partial]
    BY DEF P!DecompressorOpen
  <1>2. me.at \in Updating
    BY NoDecIs DEF P!DecompressorOpen, Updating, Base, DecOrderly
  <1>3. dec'.files = dec.files /\ dec'.info = dec.info /\ dec'.filesDone = dec.filesDone
    BY <1>1 DEF Base, Types, DecRecord
  <1>4. Flying' = Flying /\ Done' = Done /\ dec.info \in Flying
    BY <1>1, <1>3 DEF Flying, Done
  <1>5. dec.info.path \in Paths
    BY <1>4, ServerIsSound DEF Base, DecOrderly, P!Within, ServerSound
  <1>6. /\ \A p \in Paths : p # dec.info.path => disk'[p] = disk[p]
        /\ disk'[dec.info.path].c = P!Partial
    BY <1>1, <1>5 DEF Base, Types
  <1>7. Past([path |-> dec.info.path, c |-> disk'[dec.info.path].c, x |-> disk'[dec.info.path].x])
    BY <1>5, <1>6 DEF Past
  <1>8. /\ \A i, j \in DOMAIN dec'.files : i # j => dec'.files[i] # dec'.files[j]
        /\ \A i \in DOMAIN dec'.files : dec'.info # dec'.files[i]
    BY <1>2, <1>3 DEF Good, Sessions, UpdateSound
  <1> QED
    BY <1>1, <1>2, <1>4, <1>6, <1>7, <1>8, WriteGood

\* The file is on the disk with its flag, and may be logged.
LEMMA DoneGood ==
    ASSUME Base, Good, UNCHANGED config, P!DecompressorDone
    PROVE  Good'
  <1> DEFINE q == dec.info
  <1>1. /\ UNCHANGED <<summary, log, release, me, crashes, torn>> /\ q # P!NoFile
        /\ dec' = [dec EXCEPT !.filesDone = Append(@, q), !.info = P!NoFile, !.writing = FALSE]
        /\ disk' = [disk EXCEPT ![q.path] = P!Described(q)]
    BY DEF P!DecompressorDone, Base, DecOrderly
  <1>2. me.at \in Updating
    BY NoDecIs DEF P!DecompressorDone, Updating, Base, DecOrderly
  <1>3. dec'.files = dec.files /\ dec'.info = P!NoFile
            /\ dec'.filesDone = Append(dec.filesDone, q)
    BY <1>1 DEF Base, Types, DecRecord
  <1>4. q \in Flying /\ q \in P!Info /\ dec.filesDone \in Seq(P!Info)
    BY <1>1 DEF Flying, Base, Types, DecRecord
  <1>5. /\ \A i, j \in DOMAIN dec.files : i # j => dec.files[i] # dec.files[j]
        /\ \A i \in DOMAIN dec.files : q # dec.files[i]
    BY <1>2 DEF Good, Sessions, UpdateSound
  <1>6. Flying' = Flying \ {q} /\ Done' = Done \cup {q}
    <2>1. Done' = Done \cup {q}
      BY <1>3, <1>4, InSeqAppend DEF Done
    <2>2. q \notin InSeq(dec.files)
      BY <1>5 DEF InSeq
    <2> QED
      BY <1>3, <2>1, <2>2 DEF Flying
  <1>7. q \in P!Server /\ q.path \in Paths /\ ServerSound
    BY <1>4, ServerIsSound DEF Base, DecOrderly, P!Within, ServerSound
  <1>8. /\ \A p \in Paths : p # q.path => disk'[p] = disk[p]
        /\ disk'[q.path].c = q.c /\ disk'[q.path].x = q.x
    BY <1>1, <1>7 DEF Base, Types, P!Described
  <1>9. Past([path |-> q.path, c |-> disk'[q.path].c, x |-> disk'[q.path].x])
    <2>1. q = [path |-> q.path, c |-> q.c, x |-> q.x]
      BY <1>4 DEF P!Info
    <2> QED
      BY <1>7, <1>8, <2>1, ServerPast
  <1>10. OnDisk(disk', q)
    BY <1>8 DEF OnDisk
  <1>11. \A i \in DOMAIN dec'.files : dec'.info # dec'.files[i]
    <2> SUFFICES ASSUME NEW i \in DOMAIN dec.files PROVE dec.files[i] # P!NoFile
      BY <1>3
    <2>1. dec.files[i] \in Flying
      BY DEF Flying, InSeq
    <2> QED
      BY <1>7, <2>1 DEF Base, DecOrderly, P!Within, ServerSound
  <1>12. \A i, j \in DOMAIN dec'.files : i # j => dec'.files[i] # dec'.files[j]
    BY <1>3, <1>5
  <1>13. disk'[q.path].c # P!Absent =>
             Past([path |-> q.path, c |-> disk'[q.path].c, x |-> disk'[q.path].x])
    BY <1>9
  <1>14. UNCHANGED <<config, summary, log, release, me, crashes>>
             /\ \A p \in Paths : p # q.path =>
             disk'[p] = disk[p]
    BY <1>1, <1>8
  <1> HIDE DEF q
  <1> QED
    BY <1>2, <1>4, <1>6, <1>10, <1>11, <1>12, <1>13, <1>14, WriteGood

-----------------------------------------------------------------------------
(* patch(): flags are updated *)

\* The Decompressor has ended: after a failure the session fails with the files that are
\* done logged, otherwise all files of the part are on the disk.
LEMMA JoinGood ==
    ASSUME Base, Good, UNCHANGED config, P!Join
    PROVE  Good'
  <1>1. /\ me.at \in {"join", "abort"} /\ ~dec.on
        /\ UNCHANGED <<disk, summary, release, crashes, torn>>
        /\ P!Logged(P!Added(dec.filesDone))
    BY DEF P!Join
  <1>2. me.at \in Updating /\ me.at \in Session
    BY <1>1 DEF Updating, Session
  <1>3. /\ Stored' /\ Plus' = Plus \cup Done /\ Minus' = Minus /\ log'.there = TRUE
        /\ Plus' \subseteq New
        /\ Tidy => \A k \in me.removeFiles : \A s \in Plus' : k.path # s.path
    BY <1>1, <1>2, DoneLogged
  <1>4. CASE P!Failed
    BY <1>3, <1>4, FailedIs DEF Good
  <1>5. CASE ~(me.at = "abort" \/ dec.exception)
    <2>1. me.at = "join" /\ dec' = P!NoDecompressor
              /\ me' = [me EXCEPT !.at = "flags", !.todo = P!Within(me.updateFlags, me.part)]
      BY <1>1, <1>5 DEF P!Join, P!At
    <2>2. /\ me'.at = "flags" /\ me'.part = me.part /\ me'.all = me.all
          /\ me'.localFiles = me.localFiles
          /\ me'.removeFiles = me.removeFiles /\ me'.updateFiles = me.updateFiles
          /\ me'.updateFlags = me.updateFlags
          /\ me'.ended = me.ended /\ me'.full = me.full
          /\ me'.todo = P!Within(me.updateFlags, me.part)
      BY <2>1 DEF Base, Types, MeRecord
    <2>3. Flying = {} /\ Flying' = {}
      BY <1>1, <1>5, <2>1, NothingFliesAfter DEF Base, DecOrderly
    <2>4. /\ P!Server' = P!Server /\ New' = New /\ Old' = Old /\ P!RemoveLevel' = P!RemoveLevel
          /\ (Tidy' <=> Tidy)
          /\ \A k : Past(k)' <=> Past(k)
      BY <1>1, SameLists
    <2>5. me'.at \in Session /\ me'.at \notin Updating /\ me'.at \notin Loading
              /\ me'.at \notin {"update", "chunk", "abort", "ready", "remove"}
      BY <2>2 DEF Session, Updating, Loading
    <2>6. Ends'
      BY <1>2, <2>2, <2>5, EndsInSession DEF Good
    <2>7. ListsSound' /\ TidySound'
      BY <1>1, <1>2, <2>2, <2>4, <2>5 DEF Good, Sessions, ListsSound, TidySound
    <2>8. LocalSound'
      <3>1. Knows(disk, me.localFiles, {})
        BY <1>2, <2>1, <2>3 DEF Good, Sessions, LocalSound
      <3> QED
        BY <1>1, <2>2, <2>3, <2>4, <3>1 DEF LocalSound, Knows
    <2>9. LogSound'
      <3>1. Plus \subseteq me.localFiles /\ Minus \subseteq Old /\ Done \subseteq me.localFiles
        BY <1>2, <2>1 DEF Good, Sessions, LogSound, UpdateSound
      <3> QED
        BY <1>3, <2>2, <2>4, <3>1 DEF LogSound
    <2>10. RemoveSound'
      BY <1>2, <1>3, <2>1, <2>2, <2>4, <2>5 DEF Good, Sessions, RemoveSound
    <2>11. UpdateSound' /\ LoadSound'
      BY <2>5 DEF UpdateSound, LoadSound
    <2>12. FlagsSound'
      BY <2>1, <2>2 DEF Good, Sessions, FlagsSound
    <2> QED
      BY <1>3, <2>6, <2>7, <2>8, <2>9, <2>10, <2>11, <2>12 DEF Good, Sessions
  <1> QED
    BY <1>4, <1>5 DEF P!Join, P!At

\* The facts about a session in updateFlags().
LEMMA FlagFacts ==
    ASSUME Base, Good, me.at = "flags"
    PROVE  /\ me.at \in Session \ {"ready", "remove", "abort"} /\ me.at \in Session
           /\ me.at \notin Updating /\ me.at \notin Loading
           /\ dec = P!NoDecompressor /\ Flying = {} /\ Knows(disk, me.localFiles, {})
           /\ P!Within(me.updateFlags, me.part) \subseteq P!Server /\ ServerSound
           /\ \A f \in me.updateFlags : f \in P!Server /\ Right(disk, f)
  <1>1. /\ me.at \in Session \ {"ready", "remove", "abort"} /\ me.at \in Session
        /\ me.at \notin Updating /\ me.at \notin Loading
    BY DEF Session, Updating, Loading
  <1>2. dec = P!NoDecompressor /\ Flying = {}
    BY <1>1, NothingFlies DEF Base, DecOrderly
  <1>3. Knows(disk, me.localFiles, {})
    BY <1>1, <1>2 DEF Good, Sessions, LocalSound
  <1>4. P!Within(me.updateFlags, me.part) \subseteq P!Server
            /\ me.updateFlags \subseteq P!Server /\ ServerSound
    BY ServerIsSound DEF Base, ListsOrderly, P!Within
  <1>5. \A f \in me.updateFlags : Right(disk, f)
    BY <1>1, <1>4 DEF Good, Sessions, ListsSound, Stored, SummaryKnows, Knows
  <1> QED
    BY <1>1, <1>2, <1>3, <1>4, <1>5

\* The flag of a file comes to be what the server has.
LEMMA FlagSetGood ==
    ASSUME Base, Good, UNCHANGED <<config, summary, log, release, crashes, dec>>,
               me.at = "flags", NEW r \in me.todo,
           me' = [me EXCEPT !.todo = @ \ {r}],
           OnDisk(disk', r), \A p \in Paths : p # r.path => disk'[p] = disk[p],
           disk'[r.path].c = disk[r.path].c,
           disk' = disk \/ (Kind[r.path] # "dir" /\ disk'[r.path].x = r.x)
    PROVE  Good'
  <1>1. /\ me.at \in Session \ {"ready", "remove", "abort"} /\ me.at \in Session
        /\ me.at \notin Updating /\ me.at \notin Loading /\ ServerSound
        /\ dec = P!NoDecompressor /\ Flying = {} /\ Knows(disk, me.localFiles, {})
    BY FlagFacts
  <1>2. r \in me.updateFlags /\ r \in P!Server /\ r.path \in Paths /\ r \in P!Info
    <2>1. r \in me.updateFlags
      BY DEF Base, ListsOrderly, P!Within
    <2> QED
      BY <1>1, <2>1, FlagFacts DEF ServerSound
  <1>3. /\ me'.at = "flags" /\ me'.part = me.part /\ me'.all = me.all
        /\ me'.localFiles = me.localFiles
        /\ me'.removeFiles = me.removeFiles /\ me'.updateFiles = me.updateFiles
        /\ me'.updateFlags = me.updateFlags
        /\ me'.ended = me.ended /\ me'.full = me.full /\ me'.todo = me.todo \ {r}
    BY DEF Base, Types, MeRecord
  <1>4. /\ P!Server' = P!Server /\ New' = New /\ Old' = Old /\ P!RemoveLevel' = P!RemoveLevel
        /\ (Tidy' <=> Tidy)
        /\ \A k : Past(k)' <=> Past(k)
    BY SameLists
  <1>5. Plus' = Plus /\ Minus' = Minus
    BY SameLog
  <1>6. \A s \in P!Server : s = r
            \/ (s.path # r.path /\ s.path \in Paths /\ disk'[s.path] = disk[s.path])
    BY <1>1, <1>2 DEF ServerSound
  <1>7. \A s \in P!Server : (OnDisk(disk, s) => OnDisk(disk', s))
            /\ (Right(disk, s) => Right(disk', s))
    BY <1>6 DEF OnDisk, Right
  <1>8. \A p \in Paths : disk'[p].c = disk[p].c
    BY <1>2
  <1>9. ASSUME NEW K, Knows(disk, K, {}) PROVE Knows(disk', K, {})
    BY <1>7, <1>9 DEF Knows
  <1>10. DiskPast'
    <2>1. CASE disk' = disk
      BY <1>4, <2>1 DEF Good, Stored, DiskPast
    <2>2. CASE Kind[r.path] # "dir" /\ disk'[r.path].x = r.x
      <3>1. [path |-> r.path, c |-> disk'[r.path].c, x |-> disk'[r.path].x] = r
        BY <1>2, <2>2 DEF OnDisk, P!Info
      <3>2. Past(r)
        BY <1>2, ServerPast
      <3> QED
        BY <1>2, <1>4, <2>2, <3>1, <3>2 DEF Good, Stored, DiskPast
    <2> QED
      BY <2>1, <2>2
  <1>11. AllPast' /\ Unique'
    BY <1>4, <1>5 DEF Good, Stored, AllPast, Unique, Removed
  <1>12. SummaryKnows'
    <2>1. Knows(disk', summary.infos, {})
      BY <1>9 DEF Good, Stored, SummaryKnows
    <2> QED
      BY <1>4, <2>1 DEF SummaryKnows, Knows
  <1>13. PlusSound'
    <2>1. \A k \in Plus : OnDisk(disk', k)
      BY <1>1, <1>7, NewAndOld DEF Good, Stored, PlusSound, Sessions, LogSound
    <2> QED
      BY <1>5, <2>1 DEF Good, Stored, PlusSound
  <1>14. HonestSound'
    <2> SUFFICES ASSUME Honest, NEW k \in summary.infos, k \notin Minus PROVE Right(disk', k)
      BY <1>4, <1>5 DEF HonestSound, Honest
    <2>1. k.path \in Paths /\ Right(disk, k)
      BY DEF Good, Stored, HonestSound, AllPast, Past
    <2> QED
      BY <1>8, <2>1 DEF Right
  <1>15. Ends'
    BY <1>1, <1>3, EndsInSession DEF Good
  <1>16. ListsSound' /\ TidySound'
    BY <1>1, <1>3, <1>4 DEF Good, Sessions, ListsSound, TidySound
  <1>17. LocalSound'
    <2>1. Knows(disk', me.localFiles, {})
      BY <1>1, <1>9
    <2> QED
      BY <1>3, <1>4, <2>1 DEF LocalSound, Knows
  <1>18. LogSound' /\ RemoveSound'
    BY <1>1, <1>3, <1>4, <1>5 DEF Good, Sessions, LogSound, RemoveSound
  <1>19. UpdateSound' /\ LoadSound'
    BY <1>1, <1>3 DEF UpdateSound, LoadSound
  <1>20. FlagsSound'
    <2>1. P!Within(me.updateFlags, me.part) \subseteq P!Server
      BY FlagFacts
    <2>2. \A f \in P!Within(me.updateFlags, me.part) : f \in me.todo \/ OnDisk(disk, f)
      BY DEF Good, Sessions, FlagsSound
    <2>3. \A f \in P!Within(me.updateFlags, me.part) : f \in me'.todo \/ OnDisk(disk', f)
      BY <1>3, <1>7, <2>1, <2>2
    <2>4. P!Within(me.updateFiles, me.part) = {}
      BY DEF Good, Sessions, FlagsSound
    <2> QED
      BY <1>3, <2>3, <2>4 DEF FlagsSound
  <1> QED
    BY <1>10, <1>11, <1>12, <1>13, <1>14, <1>15, <1>16, <1>17, <1>18, <1>19, <1>20 DEF Good,
           Stored, Sessions

\* updateFlags(): the flag of one file.
LEMMA UpdateFlagGood ==
    ASSUME Base, Good, UNCHANGED config, P!UpdateFlag
    PROVE  Good'
  <1>1. me.at = "flags" /\ UNCHANGED <<summary, log, release, crashes, torn>>
    BY DEF P!UpdateFlag, P!At
  <1>2. PICK r \in me.todo :
          IF Kind[r.path] = "dir"
          THEN me' = [me EXCEPT !.todo = @ \ {r}] /\ UNCHANGED <<disk, dec>>
          ELSE IF disk[r.path].c = P!Absent THEN P!Failed /\ UNCHANGED disk
          ELSE /\ disk' = [disk EXCEPT ![r.path].x = r.x]
               /\ me' = [me EXCEPT !.todo = @ \ {r}] /\ UNCHANGED dec
    BY DEF P!UpdateFlag
  <1>3. r \in P!Server /\ Right(disk, r) /\ r.path \in Paths
    <2>1. r \in me.updateFlags
      BY <1>1 DEF Base, ListsOrderly, P!Within
    <2> QED
      BY <1>1, <2>1, FlagFacts DEF ServerSound
  <1>4. CASE P!Failed /\ UNCHANGED disk
    BY <1>1, <1>4, FailedGood
  <1>5. CASE Kind[r.path] = "dir"
    <2>1. OnDisk(disk, r)
      BY <1>3, <1>5 DEF OnDisk, Right
    <2>2. me' = [me EXCEPT !.todo = @ \ {r}] /\ disk' = disk /\ dec' = dec
      BY <1>2, <1>5
    <2> QED
      BY <1>1, <2>1, <2>2, FlagSetGood
  <1>6. CASE Kind[r.path] # "dir" /\ disk[r.path].c # P!Absent
    <2>1. disk' = [disk EXCEPT ![r.path].x = r.x] /\ me' = [me EXCEPT !.todo = @ \ {r}]
              /\ dec' = dec
      BY <1>2, <1>6
    <2>2. /\ disk'[r.path].c = disk[r.path].c /\ disk'[r.path].x = r.x
          /\ \A p \in Paths : p # r.path => disk'[p] = disk[p]
      BY <1>3, <2>1 DEF Base, Types
    <2>3. OnDisk(disk', r)
      BY <1>3, <2>2 DEF OnDisk, Right
    <2> QED
      BY <1>1, <1>6, <2>1, <2>2, <2>3, FlagSetGood
  <1> QED
    BY <1>2, <1>4, <1>5, <1>6

\* After updateFlags() the part is up to date; and everything, if the part is everything.
LEMMA UpdateFlagsEndGood ==
    ASSUME Base, Good, UNCHANGED config, P!UpdateFlagsEnd
    PROVE  Good'
  <1> DEFINE files == P!Within(me.updateFlags, me.part)
             kept == P!WithoutFlags(me.localFiles, files)
  <1>1. me.at = "flags" /\ me.todo = {}
            /\ UNCHANGED <<disk, summary, log, release, dec, crashes, torn>>
    BY DEF P!UpdateFlagsEnd, P!At
  <1>2. /\ me'.at = "ready" /\ me'.localFiles = kept \cup files
        /\ me'.updateFlags = me.updateFlags \ files
        /\ me'.part = me.part /\ me'.all = me.all /\ me'.removeFiles = me.removeFiles
        /\ me'.updateFiles = me.updateFiles /\ me'.ended = me.ended
        /\ me'.full = (me.full \/ me.all)
    BY DEF P!UpdateFlagsEnd, Base, Types, MeRecord
  <1>3. /\ me.at \in Session \ {"ready", "remove", "abort"} /\ me.at \in Session
        /\ dec = P!NoDecompressor /\ Flying = {} /\ Knows(disk, me.localFiles, {})
        /\ files \subseteq P!Server /\ ServerSound
        /\ \A f \in me.updateFlags : f \in P!Server
    BY <1>1, FlagFacts
  <1>4. me'.at \in Session /\ me'.at \notin Updating /\ me'.at \notin Loading
            /\ me'.at \notin {"update", "chunk", "abort", "remove", "join", "flags"}
    BY <1>2 DEF Session, Updating, Loading
  <1>5. Stored' /\ Ends'
    BY <1>1, <1>2, <1>3, <1>4, StoredSame, EndsInSession DEF Good
  <1>6. /\ P!Server' = P!Server /\ New' = New /\ Old' = Old /\ P!RemoveLevel' = P!RemoveLevel
        /\ (Tidy' <=> Tidy)
        /\ \A k : Past(k)' <=> Past(k)
    BY <1>1, SameLists
  <1>7. Plus' = Plus /\ Minus' = Minus /\ Flying' = {}
    BY <1>1, <1>3, SameLog, NothingFliesAfter
  <1>8. /\ files \subseteq me.updateFlags /\ \A f \in files : f.path \in me.part
        /\ \A f \in me.updateFlags \ files : f.path \notin me.part
        /\ kept \subseteq me.localFiles /\ \A k \in kept : \A f \in files : ~P!SameContents(k, f)
        /\ \A k \in me.localFiles : k \in kept \/ \E f \in files : P!SameContents(k, f)
    BY DEF P!Within, P!WithoutFlags
  <1>9. \A f \in files : OnDisk(disk, f)
    BY <1>1 DEF Good, Sessions, FlagsSound
  <1>10. \A s \in P!Server : s \in me.localFiles => s \in kept \cup files
    BY <1>3, <1>8 DEF P!SameContents, ServerSound
  <1>11. P!Within(me.updateFiles, me.part) = {}
    BY <1>1 DEF Good, Sessions, FlagsSound
  <1> HIDE DEF files, kept
  <1>12. /\ me.removeFiles \subseteq me.localFiles \cap Old /\ me.updateFiles \subseteq New
         /\ \A f \in me.updateFiles : \A k \in me.localFiles : ~P!SameContents(k, f)
         /\ \A f \in me.updateFlags : \E k \in me.localFiles \cap summary.infos : P!SameContents(k, f)
         /\ P!Server \subseteq me.updateFiles \cup me.updateFlags \cup me.localFiles
         /\ \A k \in me.localFiles : Past(k)
         /\ me.full => me.updateFiles = {} /\ me.updateFlags = {}
         /\ me.all => me.part = Paths
    BY <1>3 DEF Good, Sessions, ListsSound
  <1>13. ListsSound'
    <2>1. me.removeFiles \subseteq (kept \cup files) \cap Old
      BY <1>3, <1>8, <1>12, NewAndOld
    <2>2. ASSUME NEW f \in me.updateFiles, NEW k \in kept \cup files,
                     P!SameContents(k, f) PROVE FALSE
      <3>1. CASE k \in kept
        BY <1>8, <1>12, <2>2, <3>1
      <3>2. CASE k \in files
        <4>1. PICK l \in me.localFiles : P!SameContents(l, k)
          BY <1>8, <1>12, <3>2
        <4> QED
          BY <1>12, <2>2, <4>1 DEF P!SameContents
      <3> QED
        BY <3>1, <3>2
    <2>3. ASSUME NEW f \in me.updateFlags \ files
          PROVE  \E k \in (kept \cup files) \cap summary.infos : P!SameContents(k, f)
      <3>1. PICK k \in me.localFiles \cap summary.infos : P!SameContents(k, f)
        BY <1>12
      <3>2. k \in kept
        BY <1>3, <1>8, <3>1 DEF P!SameContents, ServerSound
      <3> QED
        BY <3>1, <3>2
    <2>4. P!Server \subseteq me.updateFiles \cup (me.updateFlags \ files) \cup (kept \cup files)
      BY <1>10, <1>12
    <2>5. \A k \in kept \cup files : Past(k)
      BY <1>3, <1>8, <1>12, ServerPast
    <2>6. me.full \/ me.all => me.updateFiles = {} /\ me.updateFlags \ files = {}
      <3>1. CASE me.full
        BY <1>12, <3>1
      <3>2. CASE me.all
        <4>1. me.part = Paths /\ me.updateFiles \subseteq P!Server
                  /\ \A s \in P!Server : s.path \in Paths
          BY <1>3, <1>12, <3>2 DEF Base, ListsOrderly, ServerSound
        <4> QED
          BY <1>3, <1>8, <1>11, <4>1 DEF P!Within
      <3> QED
        BY <3>1, <3>2
    <2> QED
      BY <1>1, <1>2, <1>6, <1>12, <2>1, <2>2, <2>3, <2>4, <2>5, <2>6 DEF ListsSound
  <1>14. TidySound'
    <2> SUFFICES ASSUME Tidy
                 PROVE  /\ OneEach(kept \cup files)
                        /\ \A k \in kept \cup files : k \in me.removeFiles
                               \/ \E s \in P!Server : P!SameContents(k, s)
      BY <1>2, <1>6 DEF TidySound
    <2>1. /\ OneEach(me.localFiles)
          /\ \A k \in me.localFiles : k \in me.removeFiles
                 \/ \E s \in P!Server : P!SameContents(k, s)
      BY <1>3 DEF Good, Sessions, TidySound
    <2>2. \A k \in me.removeFiles : k.path \notin me.part
      BY <1>3 DEF Good, Sessions, RemoveSound
    <2>3. ASSUME NEW k \in kept, NEW f \in files, k.path = f.path PROVE FALSE
      <3>1. k \notin me.removeFiles
        BY <1>8, <2>2, <2>3
      <3>2. PICK s \in P!Server : P!SameContents(k, s)
        BY <1>8, <2>1, <3>1
      <3>3. s = f
        BY <1>3, <2>3, <3>2 DEF P!SameContents, ServerSound
      <3> QED
        BY <1>8, <3>2, <3>3
    <2>4. \A k, l \in files : k.path = l.path => k = l
      BY <1>3 DEF ServerSound
    <2>5. \A k \in files : \E s \in P!Server : P!SameContents(k, s)
      BY <1>3 DEF P!SameContents
    <2> QED
      BY <1>8, <2>1, <2>3, <2>4, <2>5 DEF OneEach
  <1>15. LocalSound'
    <2>1. Knows(disk, files, {})
      BY <1>3, <1>9 DEF Knows, ServerSound, P!SameContents, OnDisk, Right
    <2>2. Knows(disk, kept \cup files, {})
      BY <1>3, <1>8, <2>1 DEF Knows
    <2> QED
      BY <1>1, <1>2, <1>6, <1>7, <2>2 DEF LocalSound, Knows
  <1>16. LogSound'
    <2>1. Plus \subseteq me.localFiles /\ Plus \subseteq New /\ Minus \subseteq Old
              /\ log.there = TRUE
      BY <1>1, <1>3 DEF Good, Sessions, LogSound
    <2>2. Plus \subseteq kept \cup files
      BY <1>10, <2>1, NewAndOld
    <2> QED
      BY <1>1, <1>2, <1>6, <1>7, <2>1, <2>2 DEF LogSound
  <1>17. RemoveSound'
    BY <1>1, <1>2, <1>3, <1>4, <1>6, <1>7 DEF Good, Sessions, RemoveSound
  <1>18. UpdateSound' /\ LoadSound' /\ FlagsSound'
    BY <1>4 DEF UpdateSound, LoadSound, FlagsSound
  <1> QED
    BY <1>5, <1>13, <1>14, <1>15, <1>16, <1>17, <1>18 DEF Good, Sessions

\* A failure before the lists are compared.
LEMMA ListFailsGood ==
    ASSUME Base, Good, UNCHANGED config, P!ListFails
    PROVE  Good'
  BY FailedGood DEF P!ListFails, P!At

\* The invariant holds in an empty directory.
LEMMA PatchBegins == P!Init => PatchInv
  <1> SUFFICES ASSUME P!Init PROVE Base /\ Good
    BY DEF PatchInv, Good
  <1>1. Base
    BY BaseBegins
  <1>2. me.at = "idle" /\ me.ended = "none" /\ me.then = "idle" /\ me.at \notin Session
            /\ me.at \notin Saving
    BY DEF P!Init, P!NoSession, Session, Saving
  <1>3. summary.infos = {} /\ log.lines = <<>> /\ \A p \in Paths : disk[p].c = P!Absent
            /\ disk[p].x = FALSE
    BY DEF P!Init
  <1>4. Plus = {} /\ Minus = {}
    BY <1>3 DEF Plus, Minus, P!Lines
  <1>5. Stored
    BY <1>3, <1>4 DEF Stored, DiskPast, AllPast, SummaryKnows, Knows, PlusSound, Unique,
           OneEach, HonestSound
  <1>6. Ends
    BY <1>2 DEF Ends, SaveSound, ListSound, FinishSound
  <1>7. me.at \notin Updating /\ me.at \notin Loading /\ me.at \notin {"join", "flags"}
    BY <1>2 DEF Updating, Loading
  <1>8. Sessions
    BY <1>2, <1>7 DEF Sessions, ListsSound, TidySound, LocalSound, LogSound, RemoveSound,
           UpdateSound, LoadSound, FlagsSound
  <1> QED
    BY <1>1, <1>5, <1>6, <1>8 DEF Good

\* What makes the summary and the log unreliable does not go away.
LEMMA SoundBefore ==
    ASSUME Base, P!Next, Sound'
    PROVE  Sound
  <1>1. P!RemoveLevel' = P!RemoveLevel
    BY DEF P!Next, P!RemoveLevel
  <1>2. CASE P!Crash
    <2>1. torn' = TRUE \/ torn' = torn
      BY <1>2 DEF P!Crash, P!CrashSaving, P!CrashLogging
    <2>2. crashes' # 0
      BY <1>2 DEF P!Crash, Base, Types
    <2> QED
      BY <1>1, <2>1, <2>2 DEF Sound
  <1>3. CASE UNCHANGED <<crashes, torn>>
    BY <1>1, <1>3 DEF Sound
  <1> QED
    BY <1>2, <1>3 DEF P!Next, P!Prepare, P!Work, P!SaveOpen, P!SaveClose, P!SaveEnd, P!List,
           P!Patch, P!RemoveFile, P!RemoveEnd, P!UpdatePlain,
        P!UpdateFile, P!DownloadChunk, P!DownloadEnd, P!UpdateEnd, P!Destroy, P!Join,
            P!UpdateFlag, P!UpdateFlagsEnd, P!Finish, P!ListFails,
        P!UpdateFails, P!Decompress, P!DecompressorTake, P!DecompressorOpen, P!DecompressorDone,
            P!DecompressorFails,
        P!DecompressorExit, P!Publish

\* Every step keeps the invariant.
LEMMA PatchStep == PatchInv /\ P!Next => PatchInv'
  <1> SUFFICES ASSUME PatchInv, P!Next PROVE PatchInv'
    OBVIOUS
  <1>1. Base /\ UNCHANGED config
    BY DEF PatchInv, P!Next
  <1>2. Base'
    BY <1>1, BaseStep
  <1> SUFFICES ASSUME Sound' PROVE Good'
    BY <1>2 DEF PatchInv, Good
  <1>3. Sound /\ Good
    BY <1>1, SoundBefore DEF PatchInv, Good
  <1>4. CASE \E thorough \in BOOLEAN : P!Prepare(thorough)
    BY <1>1, <1>3, <1>4, PrepareGood
  <1>5. CASE P!SaveOpen \/ P!SaveClose \/ P!SaveEnd \/ P!List \/ P!Finish
    BY <1>1, <1>2, <1>3, <1>5, SaveOpenGood, SaveCloseGood, SaveEndGood, ListGood, FinishGood
  <1>6. CASE \E dir \in {Paths} \cup {{p} : p \in Paths} : P!Patch(dir)
    BY <1>1, <1>3, <1>6, PatchGood
  <1>7. CASE P!RemoveFile \/ P!RemoveEnd \/ P!UpdatePlain \/ P!UpdateFile \/ P!DownloadChunk
    BY <1>1, <1>3, <1>7, RemoveFileGood, RemoveEndGood, UpdatePlainGood, UpdateFileGood,
           DownloadChunkGood
  <1>8. CASE P!DownloadEnd \/ P!UpdateEnd \/ P!Join \/ P!UpdateFlag \/ P!UpdateFlagsEnd
    BY <1>1, <1>3, <1>8, DownloadEndGood, UpdateEndGood, JoinGood, UpdateFlagGood,
           UpdateFlagsEndGood
  <1>9. CASE P!Destroy \/ P!DecompressorFails \/ P!DecompressorExit
    BY <1>1, <1>3, <1>9, EndingGood
  <1>10. CASE P!DecompressorTake \/ P!DecompressorOpen \/ P!DecompressorDone
    BY <1>1, <1>3, <1>10, TakeGood, OpenGood, DoneGood
  <1>11. CASE P!ListFails \/ P!UpdateFails \/ P!Publish
    BY <1>1, <1>3, <1>11, ListFailsGood, UpdateFailsGood, PublishGood
  <1>12. CASE P!Crash
    BY <1>1, <1>3, <1>12, CrashGood
  <1> QED
    BY <1>4, <1>5, <1>6, <1>7, <1>8, <1>9, <1>10, <1>11, <1>12 DEF P!Next, P!Work, P!Decompress

\* What the invariant is for.
LEMMA PatchUse ==
    ASSUME PatchInv
    PROVE  P!TypeOK /\ P!PatchedExactly /\ P!ChunksInOrder /\ P!LogHonest
  <1>1. Base
    BY DEF PatchInv
  <1>2. P!TypeOK
    <2>1. \A p \in Paths : disk[p].c \in Nat /\ disk[p].x \in BOOLEAN
      BY <1>1 DEF Base, Types
    <2>2. /\ summary.there \in BOOLEAN /\ log.there \in BOOLEAN
          /\ release \in DOMAIN P!Releases /\ crashes \in 0 .. MaxCrashes /\ me.at \in Places
      BY <1>1 DEF Base, Types, LogRecord, MeRecord
    <2>3. dec.on => me.at \in Updating
      BY <1>1, NoDecIs DEF Base, DecOrderly
    <2> QED
      BY <2>1, <2>2, <2>3 DEF P!TypeOK, Places, Updating
  <1>3. P!ChunksInOrder
    BY <1>1 DEF Base, ChunkSound, P!ChunksInOrder
  <1>4. P!PatchedExactly
    BY DEF PatchInv, Good, Sound, Ends, FinishSound, P!PatchedExactly, OnDisk, P!At
  <1>5. P!LogHonest
    <2> SUFFICES ASSUME me.at = "idle", crashes = 0,
                            P!RemoveLevel > 0 PROVE \A r \in P!Merged : disk[r.path].c = r.c
      BY DEF P!LogHonest, P!At
    <2>1. Sound /\ Honest
      BY <1>1 DEF Base, TornLate, Sound, Honest
    <2> QED
      BY <1>1, <2>1, MergedIs DEF PatchInv, Good, Right
  <1> QED
    BY <1>2, <1>3, <1>4, <1>5

\* A step that changes nothing keeps it.
LEMMA PatchRests == ASSUME PatchInv, UNCHANGED P!vars PROVE PatchInv'
  <1>1. UNCHANGED <<config, disk, summary, log, release, me, dec, crashes, torn>>
    BY DEF P!vars
  <1>2. /\ P!Server' = P!Server /\ P!Releases' = P!Releases /\ P!RemoveLevel' = P!RemoveLevel
        /\ New' = New /\ Old' = Old /\ (Tidy' <=> Tidy) /\ \A r : Past(r)' <=> Past(r)
    BY <1>1, SameServer, SameLists
  <1>3. Plus' = Plus /\ Minus' = Minus
    BY <1>1, SameLog
  <1>4. Flying' = Flying /\ Done' = Done /\ P!NextFiles' = P!NextFiles
    BY <1>1 DEF Flying, Done, P!NextFiles
  <1>5. Base'
    <2>1. Types'
      BY <1>1, <1>2 DEF PatchInv, Base, Types
    <2>2. ListsOrderly'
      BY <1>1, <1>2 DEF PatchInv, Base, ListsOrderly
    <2>3. DecOrderly' /\ TornLate'
      BY <1>1, <1>2, <1>4 DEF PatchInv, Base, DecOrderly, TornLate
    <2>4. ChunkSound'
      BY <1>1, <1>4 DEF PatchInv, Base, ChunkSound
    <2> QED
      BY <2>1, <2>2, <2>3, <2>4 DEF Base
  <1> SUFFICES ASSUME Good PROVE Good'
    BY <1>1, <1>2, <1>5 DEF PatchInv, Good, Sound
  <1>6. Stored'
    BY <1>1, StoredSame DEF Good
  <1>7. Ends'
    <2>1. SaveSound'
      BY <1>1, <1>2, <1>3 DEF Good, Ends, SaveSound, Knows, Honest
    <2>2. ListSound' /\ FinishSound'
      BY <1>1, <1>2 DEF Good, Ends, ListSound, FinishSound
    <2> QED
      BY <2>1, <2>2 DEF Ends
  <1>8. Sessions'
    <2>1. ListsSound' /\ TidySound'
      BY <1>1, <1>2 DEF Good, Sessions, ListsSound, TidySound
    <2>2. LocalSound'
      BY <1>1, <1>2, <1>4 DEF Good, Sessions, LocalSound, Knows
    <2>3. LogSound'
      BY <1>1, <1>2, <1>3 DEF Good, Sessions, LogSound
    <2>4. RemoveSound'
      BY <1>1, <1>2, <1>3 DEF Good, Sessions, RemoveSound
    <2>5. UpdateSound' /\ LoadSound'
      BY <1>1, <1>2, <1>3, <1>4 DEF Good, Sessions, UpdateSound, LoadSound
    <2>6. FlagsSound'
      BY <1>1 DEF Good, Sessions, FlagsSound
    <2> QED
      BY <2>1, <2>2, <2>3, <2>4, <2>5, <2>6 DEF Sessions
  <1> QED
    BY <1>6, <1>7, <1>8 DEF Good

-----------------------------------------------------------------------------
(* The theorems about Patcher *)

\* PatchInv is an inductive invariant of sessions that finish, fail or die.
THEOREM PatchInductive == P!Spec => []PatchInv
  <1>1. PatchInv /\ [P!Next]_P!vars => PatchInv'
    <2> SUFFICES ASSUME PatchInv, [P!Next]_P!vars PROVE PatchInv'
      OBVIOUS
    <2>1. CASE P!Next
      BY <2>1, PatchStep
    <2>2. CASE UNCHANGED P!vars
      BY <2>2, PatchRests
    <2> QED
      BY <2>1, <2>2
  <1> QED
    BY <1>1, PatchBegins, PTL DEF P!Spec

\* Patcher::prepare(), patch() and finish(), with loadFileInfoSeq() and saveFileInfoSeq(): a
\* session that patched everything and finished leaves the files of the server, whatever
\* earlier sessions left behind by failing or dying at any point; files are put together
\* from their own chunks in their order; and without a crash the summary and the log
\* describe the disk.
THEOREM PatchIsExact == P!Spec => []PatchExact
  <1>1. PatchInv => PatchExact
    BY PatchUse DEF PatchExact
  <1> QED
    BY <1>1, PatchInductive, PTL

-----------------------------------------------------------------------------
(* The definitions of a Slice unit *)

\* A sequence, whatever its elements are.
IsSequence(s) == \E S : s \in Seq(S)

\* KindOf(), Scope() and IsLocal() of the model with the definitions as a parameter.
KindAt(s, c) == IF c = 0 THEN "unit" ELSE s[c].kind
ScopeAt(s, c) == IF c = 0 THEN <<>> ELSE s[c].scoped
LocalAt(s, t) == t.b = "LocalObject" \/ (t.b \in {"named", "proxy"} /\ s[t.node].local)

\* A type of the k-th definition is builtin, or an earlier definition of a type.
TypeFine(s, k, t) ==
    \/ t.node = 0 /\ t.b \notin {"named", "proxy"}
    \/ t.node \in 1 .. (k - 1) /\ t.b \in {"named", "proxy"} /\ s[t.node].kind \in U!TypeKinds

\* A base is an earlier class or exception, and not local unless the derived one is.
BaseFine(s, k, x, b) ==
    /\ b \in 1 .. (k - 1) /\ s[b].kind \in {"exception", "classdef"}
    /\ ~x.local => ~s[b].local

\* The containers in which a definition of some kind can be.
ParentFine(kind, p) ==
    /\ kind = "member" => p \in {"classdef", "struct", "exception"}
    /\ kind = "operation" => p = "classdef"
    /\ kind = "parameter" => p = "operation"
    /\ kind \notin {"member", "operation", "parameter"} => p \in {"unit", "module"}

\* The kinds of definitions that have a local qualifier and contents.
Sendable == {"struct", "sequence", "dictionary", "exception", "classdef"}
\* The types of a definition are not local where its container, the class of its operation
\* or itself is not.
LocalFine(s, x) ==
    /\ x.kind \in Sendable /\ ~x.local => ~LocalAt(s, x.type) /\ ~LocalAt(s, x.value)
    /\ x.kind \in {"member", "operation"} /\ ~s[x.in].local => ~LocalAt(s, x.type)
    /\ x.kind = "parameter" /\ ~s[s[x.in].in].local => ~LocalAt(s, x.type)

\* A scoped name is the one of the container and the name.
ScopeFine(s, x) == IsSequence(x.scoped) /\ x.scoped = Append(ScopeAt(s, x.in), x.name)

\* What holds of x as the k-th definition of s; only the definitions before it matter.
NodeFine(s, x, k) ==
    /\ x.kind \in U!Kinds /\ x.in \in 0 .. (k - 1)
    /\ TypeFine(s, k, x.type) /\ TypeFine(s, k, x.value)
    /\ \A b \in U!Range(x.bases) : BaseFine(s, k, x, b)
    /\ ParentFine(x.kind, KindAt(s, x.in))
    /\ LocalFine(s, x)
    /\ ScopeFine(s, x)

\* What two definitions of a unit may have in common: scoped names that differ at most in
\* capitalization are openings of one module, or declarations and definition of one class.
Apart(x, y) ==
    U!Lower(x.scoped) = U!Lower(y.scoped) =>
        \/ x.kind = "module" /\ y.kind = "module" /\ x.scoped = y.scoped
        \/ /\ {x.kind, y.kind} \subseteq {"classdecl", "classdef"}
           /\ ~(x.kind = "classdef" /\ y.kind = "classdef")
           /\ x.intf = y.intf /\ x.local = y.local

\* All definitions of a unit.
TreeFine(s) ==
    /\ IsSequence(s)
    /\ \A k \in DOMAIN s : NodeFine(s, s[k], k) /\ \A i \in 1 .. (k - 1) : Apart(s[i], s[k])

-----------------------------------------------------------------------------
\* The domain of a sequence.
LEMMA SequenceFacts ==
    ASSUME NEW s, IsSequence(s)
    PROVE  /\ Len(s) \in Nat /\ DOMAIN s = 1 .. Len(s)
  BY DEF IsSequence

\* What a concatenation consists of.
LEMMA ConcatFacts ==
    ASSUME NEW s, NEW t, IsSequence(s), IsSequence(t)
    PROVE  /\ IsSequence(s \o t) /\ Len(s \o t) = Len(s) + Len(t)
           /\ \A i \in 1 .. Len(s) : (s \o t)[i] = s[i]
           /\ \A i \in 1 .. Len(t) : (s \o t)[Len(s) + i] = t[i]
  <1>1. PICK S : s \in Seq(S)
    BY DEF IsSequence
  <1>2. PICK T : t \in Seq(T)
    BY DEF IsSequence
  <1>3. s \in Seq(S \cup T) /\ t \in Seq(S \cup T)
    BY <1>1, <1>2
  <1>4. Len(s) \in Nat /\ Len(t) \in Nat
    BY <1>3
  <1> QED
    BY <1>3, <1>4, ConcatProperties DEF IsSequence

\* What an appended sequence consists of.
LEMMA AppendFacts ==
    ASSUME NEW s, NEW x, IsSequence(s)
    PROVE  /\ IsSequence(Append(s, x)) /\ Len(Append(s, x)) = Len(s) + 1
           /\ \A i \in 1 .. Len(s) : Append(s, x)[i] = s[i]
           /\ Append(s, x)[Len(s) + 1] = x
  <1>1. PICK S : s \in Seq(S)
    BY DEF IsSequence
  <1>2. s \in Seq(S \cup {x}) /\ x \in S \cup {x}
    BY <1>1
  <1> HIDE <1>1
  <1> QED
    BY <1>2, AppendProperties DEF IsSequence

\* Two paths that differ in capitalization only do so in the scope and in the name.
LEMMA LowerOfAppend ==
    ASSUME NEW s, NEW t, NEW m, NEW n, IsSequence(s), IsSequence(t),
           U!Lower(Append(s, m)) = U!Lower(Append(t, n))
    PROVE  U!Lower(s) = U!Lower(t) /\ Len(s) = Len(t) /\ m[1] = n[1]
  <1> DEFINE a == Append(s, m)  b == Append(t, n)
  <1>1. /\ Len(s) \in Nat /\ DOMAIN s = 1 .. Len(s) /\ Len(t) \in Nat /\ DOMAIN t = 1 .. Len(t)
        /\ DOMAIN a = 1 .. Len(s) + 1 /\ DOMAIN b = 1 .. Len(t) + 1
        /\ \A i \in 1 .. Len(s) : a[i] = s[i]
        /\ \A i \in 1 .. Len(t) : b[i] = t[i]
        /\ a[Len(s) + 1] = m /\ b[Len(t) + 1] = n
    BY SequenceFacts, AppendFacts
  <1>2. DOMAIN a = DOMAIN b /\ \A i \in DOMAIN a : a[i][1] = b[i][1]
    BY DEF U!Lower
  <1> HIDE DEF a, b
  <1>3. Len(s) = Len(t)
    <2>1. Len(s) + 1 \in 1 .. Len(t) + 1 /\ Len(t) + 1 \in 1 .. Len(s) + 1
      BY <1>1, <1>2
    <2>2. Len(s) + 1 =< Len(t) + 1 /\ Len(t) + 1 =< Len(s) + 1
      BY <2>1, <1>1
    <2>3. Len(s) \in Nat /\ Len(t) \in Nat
      BY <1>1
    <2> QED
      BY ONLY <2>2, <2>3
  <1>4. m[1] = n[1]
    BY <1>1, <1>2, <1>3
  <1>5. \A i \in DOMAIN s : s[i][1] = t[i][1]
    BY <1>1, <1>2, <1>3
  <1> QED
    BY <1>1, <1>3, <1>4, <1>5 DEF U!Lower

\* A nonempty set of numbers has a least one.
LEMMA LeastNumber ==
    ASSUME NEW T, T \subseteq Nat, T # {}
    PROVE  \E x \in T : \A y \in T : x =< y
  <1>1. PICK x \in T : \A y \in T : ~(<<y, x>> \in OpToRel(<, Nat))
    BY NatLessThanWellFounded, WFMin
  <1>2. \A y \in T : <<y, x>> \in Nat \X Nat /\ (y < x => <<y, x>> \in OpToRel(<, Nat))
    BY DEF OpToRel
  <1>3. \A y \in T : ~(y < x)
    BY <1>1, <1>2
  <1> QED
    BY <1>3

\* Min() of what was found is one of them.
LEMMA LeastElement ==
    ASSUME NEW T, T \subseteq Nat, T # {}
    PROVE  U!Min(T) \in T
  BY LeastNumber DEF U!Min

\* Max() of a bounded set is one of its elements.
LEMMA GreatestElement ==
    ASSUME NEW S, NEW n \in Nat, S \subseteq 1 .. n, S # {}
    PROVE  U!Max(S) \in S
  <1> DEFINE T == {n - x : x \in S}
  <1>1. T \subseteq Nat /\ T # {}
    <2>1. \A x \in S : x \in Int /\ x =< n
      OBVIOUS
    <2>2. \A x \in S : n - x \in Nat
      BY <2>1
    <2>3. PICK x \in S : TRUE
      OBVIOUS
    <2>4. n - x \in T
      BY <2>3
    <2> QED
      BY <2>2, <2>4
  <1> HIDE DEF T
  <1>2. PICK z \in T : \A y \in T : z =< y
    BY <1>1, LeastNumber
  <1>3. PICK x \in S : z = n - x
    BY DEF T
  <1>4. \A y \in S : n - x =< n - y
    <2> TAKE y \in S
    <2>1. n - y \in T
      BY DEF T
    <2> QED
      BY <2>1, <1>2, <1>3
  <1>5. \A y \in S : x >= y
    BY <1>4
  <1> QED
    BY <1>5 DEF U!Max

-----------------------------------------------------------------------------
\* A definition stays right whatever is defined after it.
LEMMA NodeStable ==
    ASSUME NEW s, NEW t, NEW x, NEW k \in Nat, k >= 1,
           \A i \in 1 .. (k - 1) : s[i] = t[i],
           \A i \in 1 .. (k - 1) : s[i].kind = "operation" => s[i].in \in 1 .. (i - 1),
           NodeFine(s, x, k)
    PROVE  NodeFine(t, x, k)
  <1> USE DEF NodeFine
  <1>1. TypeFine(t, k, x.type) /\ TypeFine(t, k, x.value)
    BY DEF TypeFine
  <1>2. \A b \in U!Range(x.bases) : BaseFine(t, k, x, b)
    BY DEF BaseFine
  <1>3. KindAt(t, x.in) = KindAt(s, x.in) /\ ScopeAt(t, x.in) = ScopeAt(s, x.in)
    BY DEF KindAt, ScopeAt
  <1>4. /\ LocalAt(t, x.type) <=> LocalAt(s, x.type)
        /\ LocalAt(t, x.value) <=> LocalAt(s, x.value)
    BY DEF LocalAt, TypeFine
  <1>5. LocalFine(t, x)
    <2>1. x.kind \in {"member", "operation"} => x.in \in 1 .. (k - 1)
      BY DEF ParentFine, KindAt
    <2>2. x.kind = "parameter" => x.in \in 1 .. (k - 1) /\ s[x.in].in \in 1 .. (k - 1)
      BY DEF ParentFine, KindAt
    <2> QED
      BY <1>4, <2>1, <2>2 DEF LocalFine
  <1>6. ScopeFine(t, x)
    BY <1>3 DEF ScopeFine
  <1> QED
    BY <1>1, <1>2, <1>3, <1>5, <1>6

\* An operation is in a class.
LEMMA TreeOperation ==
    ASSUME NEW s, TreeFine(s), NEW i \in DOMAIN s, s[i].kind = "operation"
    PROVE  s[i].in \in 1 .. (i - 1) /\ s[s[i].in].kind = "classdef"
  <1>1. i \in Nat /\ i >= 1
    BY SequenceFacts DEF TreeFine
  <1> QED
    BY <1>1 DEF TreeFine, NodeFine, ParentFine, KindAt

\* New definitions whose references are to earlier ones.
LEMMA TreeGrows ==
    ASSUME NEW s, NEW n, TreeFine(s), IsSequence(n),
           \A j \in 1 .. Len(n) :
               /\ NodeFine(s \o n, n[j], Len(s) + j)
               /\ \A i \in 1 .. (Len(s) + j - 1) : Apart((s \o n)[i], n[j])
    PROVE  TreeFine(s \o n) /\ Len(s \o n) = Len(s) + Len(n)
  <1> DEFINE t == s \o n
  <1>1. /\ Len(s) \in Nat /\ DOMAIN s = 1 .. Len(s) /\ Len(n) \in Nat /\ DOMAIN n = 1 .. Len(n)
    BY SequenceFacts DEF TreeFine
  <1>2. /\ IsSequence(t) /\ Len(t) = Len(s) + Len(n)
        /\ \A i \in 1 .. Len(s) : t[i] = s[i]
        /\ \A i \in 1 .. Len(n) : t[Len(s) + i] = n[i]
    BY ConcatFacts DEF TreeFine
  <1>3. DOMAIN t = 1 .. Len(s) + Len(n)
    BY <1>2, SequenceFacts
  <1> HIDE DEF t
  <1>4. ASSUME NEW k \in DOMAIN s
        PROVE  NodeFine(t, t[k], k) /\ \A i \in 1 .. (k - 1) : Apart(t[i], t[k])
    <2>1. k \in Nat /\ k >= 1 /\ k - 1 =< Len(s) /\ t[k] = s[k]
      BY <1>1, <1>2
    <2>2. \A i \in 1 .. (k - 1) : s[i] = t[i] /\ i \in DOMAIN s
      BY <1>1, <1>2, <2>1
    <2>3. \A i \in 1 .. (k - 1) : s[i].kind = "operation" => s[i].in \in 1 .. (i - 1)
      BY <2>2, TreeOperation
    <2>4. NodeFine(s, s[k], k) /\ \A i \in 1 .. (k - 1) : Apart(s[i], s[k])
      BY DEF TreeFine
    <2>5. NodeFine(t, s[k], k)
      BY <2>1, <2>2, <2>3, <2>4, NodeStable
    <2> QED
      BY <2>1, <2>2, <2>4, <2>5
  <1>5. ASSUME NEW k \in DOMAIN t, k \notin DOMAIN s
        PROVE  NodeFine(t, t[k], k) /\ \A i \in 1 .. (k - 1) : Apart(t[i], t[k])
    <2>1. PICK j \in 1 .. Len(n) : k = Len(s) + j
      <3>1. k - Len(s) \in 1 .. Len(n) /\ k = Len(s) + (k - Len(s))
        BY <1>1, <1>3, <1>5
      <3> QED
        BY <3>1
    <2>2. t[k] = n[j]
      BY <1>2, <2>1
    <2>3. NodeFine(t, n[j], Len(s) + j) /\ \A i \in 1 .. (Len(s) + j - 1) : Apart(t[i], n[j])
      BY DEF t
    <2> HIDE DEF NodeFine, Apart
    <2> QED
      BY ONLY <2>1, <2>2, <2>3
  <1>6. TreeFine(t)
    BY <1>2, <1>4, <1>5 DEF TreeFine
  <1> QED
    BY <1>2, <1>6 DEF t

\* One new definition.
LEMMA OneNode ==
    ASSUME NEW s, NEW x, TreeFine(s), NodeFine(s, x, Len(s) + 1),
           \A i \in DOMAIN s : Apart(s[i], x)
    PROVE  TreeFine(s \o <<x>>) /\ Len(s \o <<x>>) = Len(s) + 1
  <1>1. IsSequence(<<x>>) /\ Len(<<x>>) = 1 /\ <<x>>[1] = x
    <2>1. <<x>> \in Seq({x})
      OBVIOUS
    <2> QED
      BY <2>1 DEF IsSequence
  <1>2. Len(s) \in Nat /\ DOMAIN s = 1 .. Len(s) /\ IsSequence(s)
    BY SequenceFacts DEF TreeFine
  <1>3. \A i \in 1 .. Len(s) : (s \o <<x>>)[i] = s[i]
    BY <1>1, <1>2, ConcatFacts
  <1>4. NodeFine(s \o <<x>>, x, Len(s) + 1)
    <2>1. \A i \in 1 .. Len(s) : s[i].kind = "operation" => s[i].in \in 1 .. (i - 1)
      BY <1>2, TreeOperation
    <2>2. Len(s) + 1 \in Nat /\ Len(s) + 1 >= 1 /\ (Len(s) + 1) - 1 = Len(s)
      BY <1>2
    <2> QED
      BY <1>3, <2>1, <2>2, NodeStable
  <1>5. \A j \in 1 .. Len(<<x>>) : j = 1 /\ Len(s) + j - 1 = Len(s)
    BY <1>1, <1>2
  <1> HIDE DEF Apart
  <1>6. \A j \in 1 .. Len(<<x>>) :
               /\ NodeFine(s \o <<x>>, <<x>>[j], Len(s) + j)
               /\ \A i \in 1 .. (Len(s) + j - 1) : Apart((s \o <<x>>)[i], <<x>>[j])
    BY <1>1, <1>2, <1>3, <1>4, <1>5
  <1> QED
    BY <1>1, <1>6, TreeGrows

-----------------------------------------------------------------------------
\* _containerStack: the unit at the bottom, above it definitions of the unit.
StackFine ==
    /\ stack \in Seq(0 .. Len(tree)) /\ stack # <<>> /\ stack[1] = 0

\* _introducedMap: one meaning for each name in a container, and every use is recorded.
UsesFine ==
    /\ DOMAIN introduced = 0 .. U!MaxNodes + 3
    /\ \A c \in DOMAIN introduced : U!Consistent(introduced[c])
    /\ \A u \in uses : /\ u[1] \in DOMAIN introduced
                       /\ \E p \in introduced[u[1]] : u[2] = p[1] /\ u[3] = p[2]

\* The inductive invariant.
UnitInv ==
    /\ input \in DOMAIN Inputs /\ errors \in BOOLEAN
    /\ TreeFine(tree) /\ Len(tree) =< U!MaxNodes + 3
    /\ StackFine /\ UsesFine

\* The empty unit.
LEMMA UnitInit == U!UInit => UnitInv
  <1> SUFFICES ASSUME U!UInit PROVE UnitInv
    OBVIOUS
  <1> USE DEF U!UInit
  <1>1. U!MaxNodes \in Nat
    BY SliceAssumption DEF U!MaxNodes
  <1>2. TreeFine(tree) /\ Len(tree) = 0
    BY DEF TreeFine, IsSequence
  <1>3. StackFine
    BY <1>2 DEF StackFine
  <1>4. UsesFine
    BY DEF UsesFine, U!Consistent
  <1>5. Len(tree) =< U!MaxNodes + 3
    BY ONLY <1>1, <1>2
  <1>6. input \in DOMAIN Inputs /\ errors \in BOOLEAN
    OBVIOUS
  <1> QED
    BY ONLY <1>2, <1>3, <1>4, <1>5, <1>6 DEF UnitInv

\* After an error nothing is changed.
LEMMA UnitFails ==
    ASSUME UnitInv, errors' = TRUE, UNCHANGED <<input, tree, stack, introduced, uses>>
    PROVE  UnitInv'
  BY DEF UnitInv, StackFine, UsesFine, U!MaxNodes

\* The two outcomes of Finish().
Grown(nodes, refs, own, push) ==
    /\ tree' = tree \o nodes
    /\ introduced' = [introduced EXCEPT ![U!Current] = introduced[U!Current] \cup refs \cup own]
    /\ U!Consistent(introduced[U!Current] \cup refs \cup own)
    /\ uses' = uses \cup {<<U!Current, p[1], p[2]>> : p \in refs}
    /\ stack' = IF push THEN Append(stack, Len(tree) + 1) ELSE stack
    /\ UNCHANGED errors
Failed == errors' = TRUE /\ UNCHANGED <<tree, stack, introduced, uses>>

\* The current container and its scope.
LEMMA CurrentFine ==
    ASSUME UnitInv
    PROVE  /\ Len(tree) \in Nat /\ DOMAIN tree = 1 .. Len(tree) /\ U!MaxNodes \in Nat
           /\ U!Current \in 0 .. Len(tree) /\ U!Current \in DOMAIN introduced
           /\ U!Scope(U!Current) = ScopeAt(tree, U!Current) /\ IsSequence(U!Scope(U!Current))
           /\ U!KindOf(U!Current) = KindAt(tree, U!Current)
  <1>1. Len(tree) \in Nat /\ DOMAIN tree = 1 .. Len(tree)
    BY SequenceFacts DEF UnitInv, TreeFine
  <1>2. U!MaxNodes \in Nat
    BY SliceAssumption DEF U!MaxNodes, UnitInv
  <1>3. U!Current \in 0 .. Len(tree)
    BY DEF U!Current, U!Last, UnitInv, StackFine
  <1>4. U!Current \in DOMAIN introduced
    BY <1>1, <1>2, <1>3 DEF UnitInv, UsesFine
  <1>5. IsSequence(U!Scope(U!Current))
    <2>1. CASE U!Current = 0
      BY <2>1 DEF U!Scope, IsSequence
    <2>2. CASE U!Current # 0
      BY <1>1, <1>3, <2>2 DEF U!Scope, UnitInv, TreeFine, NodeFine, ScopeFine
    <2> QED
      BY <2>1, <2>2
  <1> QED
    BY <1>1, <1>2, <1>3, <1>4, <1>5 DEF U!Scope, ScopeAt, U!KindOf, KindAt

\* What a rule introduces in a container agrees with what it knew.
LEMMA UsesGrow ==
    ASSUME UsesFine, NEW c \in DOMAIN introduced, NEW refs, NEW known,
           refs \subseteq known, introduced[c] \subseteq known, U!Consistent(known),
           introduced' = [introduced EXCEPT ![c] = known],
           uses' = uses \cup {<<c, p[1], p[2]>> : p \in refs}, UNCHANGED input
    PROVE  UsesFine'
  <1>1. DOMAIN introduced' = DOMAIN introduced
    OBVIOUS
  <1>2. DOMAIN introduced' = 0 .. U!MaxNodes' + 3
    BY <1>1 DEF UsesFine, U!MaxNodes
  <1>3. \A d \in DOMAIN introduced' : U!Consistent(introduced'[d])
    BY <1>1 DEF UsesFine
  <1>4. ASSUME NEW u \in uses'
        PROVE  /\ u[1] \in DOMAIN introduced'
               /\ \E p \in introduced'[u[1]] : u[2] = p[1] /\ u[3] = p[2]
    <2>1. CASE u \in uses
      <3>1. u[1] \in DOMAIN introduced
        BY <2>1 DEF UsesFine
      <3>2. introduced[u[1]] \subseteq introduced'[u[1]]
        BY <3>1
      <3> QED
        BY <2>1, <3>1, <3>2, <1>1 DEF UsesFine
    <2>2. CASE u \notin uses
      <3>1. PICK p \in refs : u = <<c, p[1], p[2]>>
        BY <2>2
      <3>2. u[1] = c /\ u[2] = p[1] /\ u[3] = p[2]
        BY <3>1
      <3> QED
        BY <3>1, <3>2, <1>1
    <2> QED
      BY <2>1, <2>2
  <1> QED
    BY <1>2, <1>3, <1>4 DEF UsesFine

\* A rule succeeds: it is enough that the definitions are right.
LEMMA GrownInv ==
    ASSUME UnitInv, UNCHANGED input, NEW nodes, NEW refs, NEW own, NEW push \in BOOLEAN,
           Grown(nodes, refs, own, push),
           TreeFine(tree \o nodes), Len(tree \o nodes) \in Len(tree) .. U!MaxNodes + 3,
           push => Len(tree \o nodes) > Len(tree)
    PROVE  UnitInv'
  <1>1. Len(tree) \in Nat /\ U!Current \in DOMAIN introduced /\ U!MaxNodes \in Nat
    BY CurrentFine
  <1>2. TreeFine(tree') /\ Len(tree') =< U!MaxNodes' + 3 /\ Len(tree') >= Len(tree)
            /\ Len(tree') \in Nat
    BY <1>1 DEF Grown, U!MaxNodes
  <1>3. UsesFine'
    <2> DEFINE known == introduced[U!Current] \cup refs \cup own
    <2>1. refs \subseteq known /\ introduced[U!Current] \subseteq known
      OBVIOUS
    <2>2. /\ introduced' = [introduced EXCEPT ![U!Current] = known] /\ U!Consistent(known)
          /\ uses' = uses \cup {<<U!Current, p[1], p[2]>> : p \in refs}
      BY DEF Grown
    <2> HIDE DEF known
    <2> QED
      BY <1>1, <2>1, <2>2, UsesGrow DEF UnitInv
  <1>4. StackFine'
    <2>1. stack \in Seq(0 .. Len(tree')) /\ Len(stack) >= 1 /\ stack[1] = 0
      BY <1>1, <1>2 DEF UnitInv, StackFine
    <2>2. CASE push
      <3>1. Len(tree) + 1 \in 0 .. Len(tree')
        BY <1>1, <1>2, <2>2 DEF Grown
      <3>2. stack' = Append(stack, Len(tree) + 1)
        BY <2>2 DEF Grown
      <3> QED
        BY <2>1, <3>1, <3>2 DEF StackFine
    <2>3. CASE ~push
      BY <2>1, <2>3 DEF Grown, StackFine
    <2> QED
      BY <2>2, <2>3
  <1> QED
    BY <1>2, <1>3, <1>4 DEF UnitInv, Grown

\* The same for a rule with one new definition.
LEMMA OneGrownInv ==
    ASSUME UnitInv, UNCHANGED input, Len(tree) < U!MaxNodes,
           NEW x, NEW refs, NEW own, NEW push \in BOOLEAN,
           Grown(<<x>>, refs, own, push), NodeFine(tree, x, Len(tree) + 1),
           \A i \in DOMAIN tree : Apart(tree[i], x)
    PROVE  UnitInv'
  <1>1. Len(tree) \in Nat /\ U!MaxNodes \in Nat
    BY CurrentFine
  <1>2. TreeFine(tree \o <<x>>) /\ Len(tree \o <<x>>) = Len(tree) + 1
    BY OneNode DEF UnitInv
  <1>3. Len(tree \o <<x>>) \in Len(tree) .. U!MaxNodes + 3 /\ Len(tree \o <<x>>) > Len(tree)
    BY <1>1, <1>2
  <1> QED
    BY <1>2, <1>3, GrownInv

\* A definition in the current container.
Placed(x, n, kind) ==
    /\ x.kind = kind /\ kind \in U!Kinds /\ x.name = n /\ x.in = U!Current
    /\ x.scoped = Append(U!Scope(U!Current), n)
    /\ ParentFine(kind, U!KindOf(U!Current))

\* It is right if its types, bases and local qualifier are.
LEMMA PlacedFine ==
    ASSUME UnitInv, NEW x, NEW n, NEW kind, Placed(x, n, kind),
           TypeFine(tree, Len(tree) + 1, x.type), TypeFine(tree, Len(tree) + 1, x.value),
           \A b \in U!Range(x.bases) : BaseFine(tree, Len(tree) + 1, x, b),
           LocalFine(tree, x)
    PROVE  NodeFine(tree, x, Len(tree) + 1)
  <1>1. /\ Len(tree) \in Nat /\ U!Current \in 0 .. Len(tree) /\ (Len(tree) + 1) - 1 = Len(tree)
        /\ U!Scope(U!Current) = ScopeAt(tree, U!Current) /\ IsSequence(U!Scope(U!Current))
        /\ U!KindOf(U!Current) = KindAt(tree, U!Current)
    BY CurrentFine
  <1>2. ScopeFine(tree, x)
    BY <1>1, AppendFacts DEF ScopeFine, Placed
  <1>3. x.in \in 0 .. ((Len(tree) + 1) - 1) /\ x.kind \in U!Kinds
            /\ ParentFine(x.kind, KindAt(tree, x.in))
    BY <1>1 DEF Placed
  <1> QED
    BY <1>2, <1>3 DEF NodeFine

\* A name that is new in its scope clashes with nothing.
LEMMA FreshApart ==
    ASSUME NEW x, NEW n, NEW kind, Placed(x, n, kind), U!Fresh(U!Current, n)
    PROVE  \A i \in DOMAIN tree : Apart(tree[i], x)
  BY DEF Placed, U!Fresh, U!FindContents, Apart

\* A definition without a type.
LEMMA VoidFine ==
    \A k : TypeFine(tree, k, U!Void) /\ ~LocalAt(tree, U!Void)
  BY DEF TypeFine, LocalAt, U!Void, U!Builtin

\* A definition without bases.
LEMMA NoBases == U!Range(<<>>) = {}
  BY DEF U!Range

\* lookupContained() returns definitions of the unit.
LEMMA FoundNodes ==
    ASSUME NEW c, NEW ref
    PROVE  U!Found(c, ref).nodes \subseteq DOMAIN tree
  <1> DEFINE At(k) == {i \in U!FindContents(SubSeq(U!Scope(c), 1, k) \o ref) : tree[i].kind # "classdef"}
             levels == {k \in 0 .. Len(U!Scope(c)) : At(k) # {}}
  <1>1. \A k : At(k) \subseteq DOMAIN tree
    BY DEF U!FindContents
  <1>2. U!Found(c, ref) = IF levels = {} THEN [nodes |-> {}, path |-> <<>>]
       ELSE [nodes |-> At(U!Max(levels)), path |-> SubSeq(U!Scope(c), 1, U!Max(levels)) \o ref]
    BY DEF U!Found
  <1> HIDE DEF At, levels
  <1> QED
    BY <1>1, <1>2

\* lookupType() returns a definition of a type.
LEMMA LookupFine ==
    ASSUME UnitInv, NEW c, NEW ref, U!LookupType(c, ref).ok
    PROVE  /\ U!LookupType(c, ref).type.node \in DOMAIN tree
           /\ U!LookupType(c, ref).type.b = "named"
           /\ tree[U!LookupType(c, ref).type.node].kind \in U!TypeKinds
  <1> DEFINE found == U!Found(c, ref).nodes
  <1>1. found # {} /\ \A i \in found : tree[i].kind \in U!TypeKinds
    BY DEF U!LookupType
  <1>2. U!LookupType(c, ref).type.node = U!Min(found) /\ U!LookupType(c, ref).type.b = "named"
    BY <1>1 DEF U!LookupType
  <1>3. found \subseteq DOMAIN tree
    BY FoundNodes
  <1> HIDE DEF found
  <1>4. found \subseteq Nat
    BY <1>3, CurrentFine
  <1>5. U!Min(found) \in found
    BY <1>1, <1>4, LeastElement
  <1> QED
    BY <1>1, <1>2, <1>3, <1>5

\* What a rule gets as a type is one.
LEMMA TypeRuleFine ==
    ASSUME UnitInv, NEW t \in U!TypeTokens, U!TypeRule(t).ok
    PROVE  TypeFine(tree, Len(tree) + 1, U!TypeRule(t).type)
  <1>1. Len(tree) \in Nat /\ DOMAIN tree = 1 .. Len(tree)
    BY CurrentFine
  <1>2. CASE t[1] = "builtin"
    <2>1. t[2] \in U!Builtins
      BY <1>2 DEF U!TypeTokens
    <2>2. t[2] \notin {"named", "proxy"}
      BY <2>1, SliceAssumption DEF U!Builtins, UnitInv
    <2> QED
      BY <1>2, <2>2 DEF U!TypeRule, U!Builtin, TypeFine
  <1>3. CASE t[1] # "builtin"
    <2>1. t[1] \in {"named", "proxy"}
      BY <1>3 DEF U!TypeTokens
    <2> DEFINE l == U!LookupType(U!Current, t[2])
    <2>2. l.ok /\ U!TypeRule(t).type = [l.type EXCEPT !.b = IF l.ok THEN t[1] ELSE @]
      BY <1>3 DEF U!TypeRule
    <2>3. /\ l.type.node \in DOMAIN tree /\ tree[l.type.node].kind \in U!TypeKinds
      BY <2>2, LookupFine
    <2>4. l.type = [b |-> "named", node |-> l.type.node]
      BY <2>2 DEF U!LookupType
    <2> HIDE DEF l
    <2>5. U!TypeRule(t).type.b = t[1] /\ U!TypeRule(t).type.node = l.type.node
      BY <2>2, <2>4
    <2>6. l.type.node \in 1 .. ((Len(tree) + 1) - 1)
      BY <1>1, <2>3
    <2> QED
      BY <2>1, <2>3, <2>5, <2>6 DEF TypeFine
  <1> QED
    BY <1>2, <1>3

\* IsLocal() is LocalAt() in the current unit.
LEMMA LocalSame == \A t : U!IsLocal(t) <=> LocalAt(tree, t)
  BY DEF U!IsLocal, LocalAt

-----------------------------------------------------------------------------
\* createStruct().
LEMMA StructStep ==
    ASSUME UnitInv, UNCHANGED input, NEW n, NEW local, U!CreateStruct(n, local)
    PROVE  UnitInv'
  <1> DEFINE x == [U!Define(n, "struct") EXCEPT !.local = local]
  <1>1. Len(tree) < U!MaxNodes /\ U!KindOf(U!Current) \in {"unit", "module"}
    BY DEF U!CreateStruct, U!Rule
  <1>2. Failed \/ (U!Definable(n) /\ Grown(<<x>>, {}, U!Named(n), TRUE))
    BY DEF U!CreateStruct, U!Finish, Failed, Grown
  <1>3. CASE Failed
    BY <1>3, UnitFails DEF Failed
  <1>4. CASE U!Definable(n) /\ Grown(<<x>>, {}, U!Named(n), TRUE)
    <2>1. Placed(x, n, "struct") /\ x.type = U!Void /\ x.value = U!Void /\ x.bases = <<>>
      BY <1>1 DEF Placed, ParentFine, U!Kinds, U!Define, U!Blank
    <2> HIDE DEF x
    <2>2. NodeFine(tree, x, Len(tree) + 1)
      <3>1. LocalFine(tree, x)
        BY <2>1, VoidFine DEF LocalFine, Placed
      <3> QED
        BY <2>1, <3>1, VoidFine, NoBases, PlacedFine
    <2>3. \A i \in DOMAIN tree : Apart(tree[i], x)
      BY <1>4, <2>1, FreshApart DEF U!Definable
    <2> QED
      BY <1>1, <1>4, <2>2, <2>3, OneGrownInv
  <1> QED
    BY <1>2, <1>3, <1>4

\* A module that is reopened has the scoped name of its first opening: the containers of both
\* are openings of one module.
LEMMA ModuleScope ==
    ASSUME UnitInv, U!KindOf(U!Current) \in {"unit", "module"}, NEW n, NEW i \in DOMAIN tree,
           tree[i].kind = "module", tree[i].name = n,
           U!Lower(tree[i].scoped) = U!Lower(Append(U!Scope(U!Current), n))
    PROVE  tree[i].scoped = Append(U!Scope(U!Current), n)
  <1> DEFINE p == tree[i].in  c == U!Current
  <1>1. /\ Len(tree) \in Nat /\ DOMAIN tree = 1 .. Len(tree) /\ c \in 0 .. Len(tree)
        /\ U!Scope(c) = ScopeAt(tree, c) /\ IsSequence(ScopeAt(tree, c))
        /\ KindAt(tree, c) \in {"unit", "module"}
    BY CurrentFine
  <1>2. /\ p \in 0 .. (i - 1) /\ KindAt(tree, p) \in {"unit", "module"}
        /\ tree[i].scoped = Append(ScopeAt(tree, p), n)
    BY DEF UnitInv, TreeFine, NodeFine, ParentFine, ScopeFine
  <1> HIDE DEF c, p
  <1>3. p \in 0 .. Len(tree)
    BY <1>1, <1>2
  <1>4. IsSequence(ScopeAt(tree, p))
    <2>1. CASE p = 0
      BY <2>1 DEF ScopeAt, IsSequence
    <2>2. CASE p # 0
      BY <1>1, <1>3, <2>2 DEF ScopeAt, UnitInv, TreeFine, NodeFine, ScopeFine
    <2> QED
      BY <2>1, <2>2
  <1>5. /\ U!Lower(ScopeAt(tree, p)) = U!Lower(ScopeAt(tree, c))
        /\ Len(ScopeAt(tree, p)) = Len(ScopeAt(tree, c))
    BY <1>1, <1>2, <1>4, LowerOfAppend DEF c
  <1>6. ScopeAt(tree, p) = ScopeAt(tree, c)
    <2>1. CASE p = 0 \/ c = 0
      <3>1. Len(ScopeAt(tree, p)) = 0 /\ Len(ScopeAt(tree, c)) = 0
        BY <1>5, <2>1 DEF ScopeAt
      <3>2. \A s : IsSequence(s) /\ Len(s) = 0 => s = <<>>
        BY DEF IsSequence
      <3> QED
        BY <1>1, <1>4, <3>1, <3>2
    <2>2. CASE p # 0 /\ c # 0 /\ p # c
      <3>1. /\ p \in DOMAIN tree /\ c \in DOMAIN tree
            /\ tree[p].kind = "module" /\ tree[c].kind = "module"
            /\ ScopeAt(tree, p) = tree[p].scoped /\ ScopeAt(tree, c) = tree[c].scoped
        <4>1. p \in DOMAIN tree /\ c \in DOMAIN tree
          BY <1>1, <1>3, <2>2
        <4>2. tree[p].kind \in U!Kinds /\ tree[c].kind \in U!Kinds
          BY <4>1 DEF UnitInv, TreeFine, NodeFine
        <4> QED
          BY <1>1, <1>2, <2>2, <4>1, <4>2 DEF ScopeAt, KindAt, U!Kinds
      <3>2. (p < c => Apart(tree[p], tree[c])) /\ (c < p => Apart(tree[c], tree[p]))
        BY <1>1, <3>1 DEF UnitInv, TreeFine
      <3>3. p < c \/ c < p
        BY <1>1, <2>2, <3>1
      <3> QED
        BY <1>5, <3>1, <3>2, <3>3 DEF Apart
    <2> QED
      BY <2>1, <2>2
  <1> QED
    BY <1>1, <1>2, <1>6 DEF c

\* createModule().
LEMMA ModuleStep ==
    ASSUME UnitInv, UNCHANGED input, NEW n, U!CreateModule(n)
    PROVE  UnitInv'
  <1> DEFINE x == U!Define(n, "module")  path == Append(U!Scope(U!Current), n)
  <1>1. Len(tree) < U!MaxNodes /\ U!KindOf(U!Current) \in {"unit", "module"}
    BY DEF U!CreateModule, U!Rule
  <1>2. Failed \/ (/\ \A i \in U!FindContents(path) : tree[i].kind = "module" /\ tree[i].name = n
                   /\ Grown(<<x>>, {}, U!Named(n), TRUE))
    BY DEF U!CreateModule, U!Finish, Failed, Grown
  <1>3. CASE Failed
    BY <1>3, UnitFails DEF Failed
  <1>4. CASE /\ \A i \in U!FindContents(path) : tree[i].kind = "module" /\ tree[i].name = n
             /\ Grown(<<x>>, {}, U!Named(n), TRUE)
    <2>1. Placed(x, n, "module") /\ x.type = U!Void /\ x.value = U!Void /\ x.bases = <<>>
      BY <1>1 DEF Placed, ParentFine, U!Kinds, U!Define, U!Blank
    <2> HIDE DEF x
    <2>2. NodeFine(tree, x, Len(tree) + 1)
      <3>1. LocalFine(tree, x)
        BY <2>1, VoidFine DEF LocalFine, Placed, Sendable
      <3> QED
        BY <2>1, <3>1, VoidFine, NoBases, PlacedFine
    <2>3. ASSUME NEW i \in DOMAIN tree PROVE Apart(tree[i], x)
      <3>1. x.kind = "module" /\ x.scoped = path
        BY <2>1 DEF Placed
      <3> SUFFICES ASSUME U!Lower(tree[i].scoped) = U!Lower(path)
                   PROVE  tree[i].kind = "module" /\ tree[i].scoped = path
        BY <3>1 DEF Apart
      <3>2. tree[i].kind = "module" /\ tree[i].name = n
        BY <1>4 DEF U!FindContents
      <3> QED
        BY <1>1, <3>2, ModuleScope
    <2> QED
      BY <1>1, <1>4, <2>2, <2>3, OneGrownInv
  <1> QED
    BY <1>2, <1>3, <1>4

\* createException().
LEMMA ExceptionStep ==
    ASSUME UnitInv, UNCHANGED input, NEW n, NEW base, NEW local, U!CreateException(n, base, local)
    PROVE  UnitInv'
  <1> DEFINE found == U!Found(U!Current, base).nodes
             d == U!Define(n, "exception")
             x == [d EXCEPT !.local = local]
             y == [d EXCEPT !.local = local, !.bases = <<U!Min(found)>>]
             refs == U!IntroducedBy(U!Current, base)
  <1>1. Len(tree) < U!MaxNodes /\ U!KindOf(U!Current) \in {"unit", "module"}
    BY DEF U!CreateException, U!Rule
  <1>2. \/ Failed
        \/ U!Definable(n) /\ Grown(<<x>>, {}, U!Named(n), TRUE)
        \/ /\ U!Definable(n) /\ found # {} /\ \A i \in found : tree[i].kind = "exception"
           /\ ~local => \A i \in found : ~tree[i].local
           /\ Grown(<<y>>, refs, U!Named(n), TRUE)
    BY DEF U!CreateException, U!LookupContained, U!Finish, Failed, Grown
  <1>3. CASE Failed
    BY <1>3, UnitFails DEF Failed
  <1>4. CASE U!Definable(n) /\ Grown(<<x>>, {}, U!Named(n), TRUE)
    <2>1. Placed(x, n, "exception") /\ x.type = U!Void /\ x.value = U!Void /\ x.bases = <<>>
      BY <1>1 DEF Placed, ParentFine, U!Kinds, U!Define, U!Blank
    <2> HIDE DEF x
    <2>2. NodeFine(tree, x, Len(tree) + 1)
      <3>1. LocalFine(tree, x)
        BY <2>1, VoidFine DEF LocalFine, Placed
      <3> QED
        BY <2>1, <3>1, VoidFine, NoBases, PlacedFine
    <2>3. \A i \in DOMAIN tree : Apart(tree[i], x)
      BY <1>4, <2>1, FreshApart DEF U!Definable
    <2> QED
      BY <1>1, <1>4, <2>2, <2>3, OneGrownInv
  <1>5. CASE /\ U!Definable(n) /\ found # {} /\ \A i \in found : tree[i].kind = "exception"
             /\ ~local => \A i \in found : ~tree[i].local
             /\ Grown(<<y>>, refs, U!Named(n), TRUE)
    <2>1. /\ Placed(y, n, "exception") /\ y.type = U!Void /\ y.value = U!Void
          /\ y.bases = <<U!Min(found)>> /\ y.local = local
      BY <1>1 DEF Placed, ParentFine, U!Kinds, U!Define, U!Blank
    <2>2. found \subseteq DOMAIN tree
      BY FoundNodes
    <2> HIDE DEF y, found, refs
    <2>3. U!Min(found) \in found
      <3>1. found \subseteq Nat
        BY <2>2, CurrentFine
      <3> QED
        BY <1>5, <3>1, LeastElement
    <2>4. ASSUME NEW b \in U!Range(y.bases) PROVE BaseFine(tree, Len(tree) + 1, y, b)
      <3>1. b = U!Min(found)
        BY <2>1 DEF U!Range
      <3>2. b \in 1 .. ((Len(tree) + 1) - 1)
        BY <2>2, <2>3, <3>1, CurrentFine
      <3> QED
        BY <1>5, <2>1, <2>3, <3>1, <3>2 DEF BaseFine
    <2>5. NodeFine(tree, y, Len(tree) + 1)
      <3>1. LocalFine(tree, y)
        BY <2>1, VoidFine DEF LocalFine, Placed
      <3> QED
        BY <2>1, <2>4, <3>1, VoidFine, PlacedFine
    <2>6. \A i \in DOMAIN tree : Apart(tree[i], y)
      BY <1>5, <2>1, FreshApart DEF U!Definable
    <2> QED
      BY <1>1, <1>5, <2>5, <2>6, OneGrownInv
  <1> QED
    BY <1>2, <1>3, <1>4, <1>5

\* createSequence().
LEMMA SequenceStep ==
    ASSUME UnitInv, UNCHANGED input, NEW n, NEW t \in U!TypeTokens, NEW local,
           U!CreateSequence(n, t, local)
    PROVE  UnitInv'
  <1> DEFINE e == U!TypeRule(t)
             x == [U!Define(n, "sequence") EXCEPT !.local = local, !.type = e.type]
             refs == e.refs
  <1>1. Len(tree) < U!MaxNodes /\ U!KindOf(U!Current) \in {"unit", "module"}
    BY DEF U!CreateSequence, U!Rule
  <1>2. Failed \/ (/\ e.ok /\ U!Definable(n) /\ (~local => ~U!IsLocal(e.type))
                   /\ Grown(<<x>>, refs, {}, FALSE))
    BY DEF U!CreateSequence, U!Finish, Failed, Grown
  <1>3. CASE Failed
    BY <1>3, UnitFails DEF Failed
  <1>4. CASE /\ e.ok /\ U!Definable(n) /\ (~local => ~U!IsLocal(e.type))
             /\ Grown(<<x>>, refs, {}, FALSE)
    <2>1. /\ Placed(x, n, "sequence") /\ x.type = e.type /\ x.value = U!Void /\ x.bases = <<>>
          /\ x.local = local
      BY <1>1 DEF Placed, ParentFine, U!Kinds, U!Define, U!Blank
    <2>2. TypeFine(tree, Len(tree) + 1, e.type)
      BY <1>4, TypeRuleFine
    <2> HIDE DEF x, e, refs
    <2>3. NodeFine(tree, x, Len(tree) + 1)
      <3>1. LocalFine(tree, x)
        BY <1>4, <2>1, VoidFine, LocalSame DEF LocalFine, Placed
      <3> QED
        BY <2>1, <2>2, <3>1, VoidFine, NoBases, PlacedFine
    <2>4. \A i \in DOMAIN tree : Apart(tree[i], x)
      BY <1>4, <2>1, FreshApart DEF U!Definable
    <2> QED
      BY <1>1, <1>4, <2>3, <2>4, OneGrownInv
  <1> QED
    BY <1>2, <1>3, <1>4

\* createDictionary().
LEMMA DictionaryStep ==
    ASSUME UnitInv, UNCHANGED input, NEW n, NEW kt \in U!TypeTokens, NEW vt \in U!TypeTokens,
           NEW local, U!CreateDictionary(n, kt, vt, local)
    PROVE  UnitInv'
  <1> DEFINE k == U!TypeRule(kt)  v == U!TypeRule(vt)
             x == [U!Define(n, "dictionary") EXCEPT !.local = local, !.type = k.type,
                 !.value = v.type]
             refs == k.refs \cup v.refs
  <1>1. Len(tree) < U!MaxNodes /\ U!KindOf(U!Current) \in {"unit", "module"}
    BY DEF U!CreateDictionary, U!Rule
  <1>2. Failed \/ (/\ k.ok /\ v.ok /\ U!Definable(n)
                   /\ (~local => ~U!IsLocal(k.type) /\ ~U!IsLocal(v.type))
                   /\ Grown(<<x>>, refs, {}, FALSE))
    BY DEF U!CreateDictionary, U!Finish, Failed, Grown
  <1>3. CASE Failed
    BY <1>3, UnitFails DEF Failed
  <1>4. CASE /\ k.ok /\ v.ok /\ U!Definable(n)
             /\ (~local => ~U!IsLocal(k.type) /\ ~U!IsLocal(v.type))
             /\ Grown(<<x>>, refs, {}, FALSE)
    <2>1. /\ Placed(x, n, "dictionary") /\ x.type = k.type /\ x.value = v.type /\ x.bases = <<>>
          /\ x.local = local
      BY <1>1 DEF Placed, ParentFine, U!Kinds, U!Define, U!Blank
    <2>2. TypeFine(tree, Len(tree) + 1, k.type) /\ TypeFine(tree, Len(tree) + 1, v.type)
      BY <1>4, TypeRuleFine
    <2> HIDE DEF x, k, v, refs
    <2>3. NodeFine(tree, x, Len(tree) + 1)
      <3>1. LocalFine(tree, x)
        BY <1>4, <2>1, VoidFine, LocalSame DEF LocalFine, Placed
      <3> QED
        BY <2>1, <2>2, <3>1, NoBases, PlacedFine
    <2>4. \A i \in DOMAIN tree : Apart(tree[i], x)
      BY <1>4, <2>1, FreshApart DEF U!Definable
    <2> QED
      BY <1>1, <1>4, <2>3, <2>4, OneGrownInv
  <1> QED
    BY <1>2, <1>3, <1>4

\* createConst().
LEMMA ConstStep ==
    ASSUME UnitInv, UNCHANGED input, NEW n, NEW t \in U!TypeTokens, NEW i, U!CreateConst(n, t, i)
    PROVE  UnitInv'
  <1> DEFINE c == U!TypeRule(t)  v == U!Initializer(i)
             x == [U!Define(n, "const") EXCEPT !.type = c.type, !.number = v.v.number]
             refs == c.refs \cup v.refs
  <1>1. Len(tree) < U!MaxNodes /\ U!KindOf(U!Current) \in {"unit", "module"}
    BY DEF U!CreateConst, U!Rule
  <1>2. Failed \/ (c.ok /\ U!Definable(n) /\ Grown(<<x>>, refs, {}, FALSE))
    BY DEF U!CreateConst, U!Finish, Failed, Grown
  <1>3. CASE Failed
    BY <1>3, UnitFails DEF Failed
  <1>4. CASE c.ok /\ U!Definable(n) /\ Grown(<<x>>, refs, {}, FALSE)
    <2>1. /\ Placed(x, n, "const") /\ x.type = c.type /\ x.value = U!Void /\ x.bases = <<>>
      BY <1>1 DEF Placed, ParentFine, U!Kinds, U!Define, U!Blank
    <2>2. TypeFine(tree, Len(tree) + 1, c.type)
      BY <1>4, TypeRuleFine
    <2> HIDE DEF x, c, v, refs
    <2>3. NodeFine(tree, x, Len(tree) + 1)
      <3>1. LocalFine(tree, x)
        BY <2>1 DEF LocalFine, Placed, Sendable
      <3> QED
        BY <2>1, <2>2, <3>1, VoidFine, NoBases, PlacedFine
    <2>4. \A j \in DOMAIN tree : Apart(tree[j], x)
      BY <1>4, <2>1, FreshApart DEF U!Definable
    <2> QED
      BY <1>1, <1>4, <2>3, <2>4, OneGrownInv
  <1> QED
    BY <1>2, <1>3, <1>4

\* createOperation().
LEMMA OperationStep ==
    ASSUME UnitInv, UNCHANGED input, NEW n, NEW t \in U!TypeTokens \cup {<<>>},
           U!CreateOperation(n, t)
    PROVE  UnitInv'
  <1> DEFINE r == IF t = <<>> THEN [ok |-> TRUE, type |-> U!Void, refs |-> {}] ELSE U!TypeRule(t)
             x == [U!Define(n, "operation") EXCEPT !.type = r.type]
             refs == r.refs
  <1>1. Len(tree) < U!MaxNodes /\ U!KindOf(U!Current) = "classdef"
    BY DEF U!CreateOperation, U!Rule
  <1>2. Failed \/ (/\ r.ok /\ U!Fresh(U!Current, n)
                   /\ (~tree[U!Current].local => ~U!IsLocal(r.type))
                   /\ Grown(<<x>>, refs, U!Named(n), TRUE))
    BY DEF U!CreateOperation, U!Distinct, U!Finish, Failed, Grown
  <1>3. CASE Failed
    BY <1>3, UnitFails DEF Failed
  <1>4. CASE /\ r.ok /\ U!Fresh(U!Current, n)
             /\ (~tree[U!Current].local => ~U!IsLocal(r.type))
             /\ Grown(<<x>>, refs, U!Named(n), TRUE)
    <2>1. /\ Placed(x, n, "operation") /\ x.type = r.type /\ x.value = U!Void /\ x.bases = <<>>
      BY <1>1 DEF Placed, ParentFine, U!Kinds, U!Define, U!Blank
    <2>2. TypeFine(tree, Len(tree) + 1, r.type)
      <3>1. CASE t = <<>>
        BY <3>1, VoidFine
      <3>2. CASE t # <<>>
        <4>1. t \in U!TypeTokens /\ r = U!TypeRule(t)
          BY <3>2
        <4> HIDE DEF r
        <4> QED
          BY <1>4, <4>1, TypeRuleFine
      <3> QED
        BY <3>1, <3>2
    <2> HIDE DEF x, r, refs
    <2>3. NodeFine(tree, x, Len(tree) + 1)
      <3>1. LocalFine(tree, x)
        BY <1>4, <2>1, LocalSame DEF LocalFine, Placed, Sendable
      <3> QED
        BY <2>1, <2>2, <3>1, VoidFine, NoBases, PlacedFine
    <2>4. \A i \in DOMAIN tree : Apart(tree[i], x)
      BY <1>4, <2>1, FreshApart
    <2> QED
      BY <1>1, <1>4, <2>3, <2>4, OneGrownInv
  <1> QED
    BY <1>2, <1>3, <1>4

\* createParamDecl().
LEMMA ParamStep ==
    ASSUME UnitInv, UNCHANGED input, NEW n, NEW t \in U!TypeTokens, NEW out, NEW tag,
           U!CreateParamDecl(n, t, out, tag)
    PROVE  UnitInv'
  <1> DEFINE r == U!TypeRule(t)
             x == [U!Define(n, "parameter") EXCEPT !.type = r.type, !.out = out, !.tag = tag]
             refs == r.refs
  <1>1. Len(tree) < U!MaxNodes /\ U!KindOf(U!Current) = "operation"
    BY DEF U!CreateParamDecl, U!Rule
  <1>2. Failed \/ (/\ r.ok /\ U!Fresh(U!Current, n)
                   /\ (~tree[tree[U!Current].in].local => ~U!IsLocal(r.type))
                   /\ Grown(<<x>>, refs, U!Named(n), FALSE))
    BY DEF U!CreateParamDecl, U!Distinct, U!Finish, Failed, Grown
  <1>3. CASE Failed
    BY <1>3, UnitFails DEF Failed
  <1>4. CASE /\ r.ok /\ U!Fresh(U!Current, n)
             /\ (~tree[tree[U!Current].in].local => ~U!IsLocal(r.type))
             /\ Grown(<<x>>, refs, U!Named(n), FALSE)
    <2>1. /\ Placed(x, n, "parameter") /\ x.type = r.type /\ x.value = U!Void /\ x.bases = <<>>
      BY <1>1 DEF Placed, ParentFine, U!Kinds, U!Define, U!Blank
    <2>2. TypeFine(tree, Len(tree) + 1, r.type)
      BY <1>4, TypeRuleFine
    <2> HIDE DEF x, r, refs
    <2>3. NodeFine(tree, x, Len(tree) + 1)
      <3>1. LocalFine(tree, x)
        BY <1>4, <2>1, LocalSame DEF LocalFine, Placed, Sendable
      <3> QED
        BY <2>1, <2>2, <3>1, VoidFine, NoBases, PlacedFine
    <2>4. \A i \in DOMAIN tree : Apart(tree[i], x)
      BY <1>4, <2>1, FreshApart
    <2> QED
      BY <1>1, <1>4, <2>3, <2>4, OneGrownInv
  <1> QED
    BY <1>2, <1>3, <1>4

\* createDataMember() of classes, exceptions and structures.
LEMMA MemberStep ==
    ASSUME UnitInv, UNCHANGED input, NEW n, NEW t \in U!TypeTokens, NEW tag,
           U!CreateDataMember(n, t, tag)
    PROVE  UnitInv'
  <1> DEFINE r == U!TypeRule(t)
             x == [U!Define(n, "member") EXCEPT !.type = r.type, !.tag = tag]
             refs == r.refs
  <1>1. Len(tree) < U!MaxNodes /\ U!KindOf(U!Current) \in {"classdef", "struct", "exception"}
    BY DEF U!CreateDataMember, U!Rule
  <1>2. Failed \/ (/\ r.ok /\ U!Fresh(U!Current, n)
                   /\ (~tree[U!Current].local => ~U!IsLocal(r.type))
                   /\ Grown(<<x>>, refs, U!Named(n), FALSE))
    BY DEF U!CreateDataMember, U!Distinct, U!Finish, Failed, Grown
  <1>3. CASE Failed
    BY <1>3, UnitFails DEF Failed
  <1>4. CASE /\ r.ok /\ U!Fresh(U!Current, n)
             /\ (~tree[U!Current].local => ~U!IsLocal(r.type))
             /\ Grown(<<x>>, refs, U!Named(n), FALSE)
    <2>1. /\ Placed(x, n, "member") /\ x.type = r.type /\ x.value = U!Void /\ x.bases = <<>>
      BY <1>1 DEF Placed, ParentFine, U!Kinds, U!Define, U!Blank
    <2>2. TypeFine(tree, Len(tree) + 1, r.type)
      BY <1>4, TypeRuleFine
    <2> HIDE DEF x, r, refs
    <2>3. NodeFine(tree, x, Len(tree) + 1)
      <3>1. LocalFine(tree, x)
        BY <1>4, <2>1, LocalSame DEF LocalFine, Placed, Sendable
      <3> QED
        BY <2>1, <2>2, <3>1, VoidFine, NoBases, PlacedFine
    <2>4. \A i \in DOMAIN tree : Apart(tree[i], x)
      BY <1>4, <2>1, FreshApart
    <2> QED
      BY <1>1, <1>4, <2>3, <2>4, OneGrownInv
  <1> QED
    BY <1>2, <1>3, <1>4

\* popContainer() leaves the unit on the stack.
LEMMA StackPops ==
    ASSUME UnitInv, U!KindOf(U!Current) # "unit"
    PROVE  /\ U!Front(stack) \in Seq(0 .. Len(tree)) /\ U!Front(stack) # <<>>
           /\ U!Front(stack)[1] = 0
  <1>1. stack \in Seq(0 .. Len(tree)) /\ stack # <<>> /\ stack[1] = 0 /\ Len(tree) \in Nat
    BY CurrentFine DEF UnitInv, StackFine
  <1>2. Len(stack) > 1
    BY <1>1 DEF U!KindOf, U!Current, U!Last
  <1>3. Len(stack) - 1 \in Int /\ Len(stack) - 1 >= 1
            /\ \A i \in 1 .. Len(stack) - 1 : stack[i] \in 0 .. Len(tree)
    BY <1>1, <1>2
  <1>4. /\ SubSeq(stack, 1, Len(stack) - 1) \in Seq(0 .. Len(tree))
        /\ Len(SubSeq(stack, 1, Len(stack) - 1)) = Len(stack) - 1
        /\ SubSeq(stack, 1, Len(stack) - 1)[1] = stack[1]
    <2>1. 1 \in Int /\ 1 \in 1 .. ((Len(stack) - 1) - 1) + 1 /\ (1 + 1) - 1 = 1
      BY <1>3
    <2> QED
      BY <1>3, <2>1, SubSeqProperties
  <1> DEFINE f == SubSeq(stack, 1, Len(stack) - 1)
  <1>5. f # <<>>
    <2>1. Len(f) >= 1
      BY <1>3, <1>4
    <2> HIDE DEF f
    <2> QED
      BY <2>1
  <1> QED
    BY <1>1, <1>4, <1>5 DEF U!Front

\* The end of a container.
LEMMA PopStep ==
    ASSUME UnitInv, UNCHANGED input, U!PopContainer
    PROVE  UnitInv'
  <1>1. U!KindOf(U!Current) # "unit" /\ UNCHANGED <<tree, introduced, uses>>
    BY DEF U!PopContainer
  <1>2. CASE errors' = TRUE /\ UNCHANGED stack
    BY <1>1, <1>2, UnitFails
  <1>3. CASE stack' = U!Front(stack) /\ UNCHANGED errors
    <2>1. StackFine'
      BY <1>1, <1>3, StackPops DEF StackFine
    <2>2. UsesFine'
      BY <1>1 DEF UnitInv, UsesFine, U!MaxNodes
    <2> QED
      BY <1>1, <1>3, <2>1, <2>2 DEF UnitInv, U!MaxNodes
  <1> QED
    BY <1>2, <1>3 DEF U!PopContainer

\* setExceptionList().
LEMMA EndOperationStep ==
    ASSUME UnitInv, UNCHANGED input, NEW throws, U!EndOperation(throws)
    PROVE  UnitInv'
  <1> DEFINE cl == tree[U!Current].in
             found == [i \in DOMAIN throws |-> U!LookupContained(cl, throws[i])]
             refs == UNION {U!IntroducedAs(throws[i], tree[U!Min(found[i])].scoped) : i \in DOMAIN throws}
  <1>1. U!KindOf(U!Current) = "operation"
    BY DEF U!EndOperation
  <1>2. \/ Failed
        \/ /\ U!Consistent(introduced[cl] \cup refs)
           /\ stack' = U!Front(stack)
           /\ introduced' = [introduced EXCEPT ![cl] = introduced[cl] \cup refs]
           /\ uses' = uses \cup {<<cl, p[1], p[2]>> : p \in refs}
           /\ UNCHANGED <<tree, errors>>
    BY DEF U!EndOperation, Failed
  <1>3. CASE Failed
    BY <1>3, UnitFails DEF Failed
  <1>4. CASE /\ U!Consistent(introduced[cl] \cup refs)
             /\ stack' = U!Front(stack)
             /\ introduced' = [introduced EXCEPT ![cl] = introduced[cl] \cup refs]
             /\ uses' = uses \cup {<<cl, p[1], p[2]>> : p \in refs}
             /\ UNCHANGED <<tree, errors>>
    <2>1. cl \in DOMAIN introduced
      <3>1. /\ Len(tree) \in Nat /\ U!Current \in 0 .. Len(tree) /\ U!MaxNodes \in Nat
            /\ DOMAIN tree = 1 .. Len(tree) /\ U!KindOf(U!Current) = KindAt(tree, U!Current)
        BY CurrentFine
      <3>2. U!Current \in DOMAIN tree /\ tree[U!Current].kind = "operation"
        BY <1>1, <3>1 DEF KindAt
      <3>3. cl \in 1 .. (U!Current - 1)
        BY <3>2, TreeOperation DEF UnitInv
      <3>4. cl \in 0 .. U!MaxNodes + 3
        BY <3>1, <3>3 DEF UnitInv
      <3> QED
        BY <3>4 DEF UnitInv, UsesFine
    <2> HIDE DEF cl, refs
    <2>2. UsesFine'
      BY <1>4, <2>1, UsesGrow DEF UnitInv
    <2>3. StackFine'
      BY <1>1, <1>4, StackPops DEF StackFine
    <2> QED
      BY <1>4, <2>2, <2>3 DEF UnitInv, U!MaxNodes
  <1> QED
    BY <1>2, <1>3, <1>4

\* A later place allows what an earlier one does.
LEMMA NodeWider ==
    ASSUME NEW s, NEW x, NEW k \in Nat, NEW m \in Nat, k =< m, NodeFine(s, x, k)
    PROVE  NodeFine(s, x, m)
  <1>1. 1 .. (k - 1) \subseteq 1 .. (m - 1) /\ 0 .. (k - 1) \subseteq 0 .. (m - 1)
    OBVIOUS
  <1> QED
    BY <1>1 DEF NodeFine, TypeFine, BaseFine

\* A definition that is right as the next one is so as any of several new ones.
LEMMA NodeLater ==
    ASSUME UnitInv, NEW n, IsSequence(n), NEW x, NodeFine(tree, x, Len(tree) + 1),
           NEW j \in 1 .. Len(n)
    PROVE  NodeFine(tree \o n, x, Len(tree) + j)
  <1>1. Len(tree) \in Nat /\ DOMAIN tree = 1 .. Len(tree) /\ IsSequence(tree) /\ TreeFine(tree)
    BY CurrentFine DEF UnitInv, TreeFine
  <1>2. \A i \in 1 .. Len(tree) : (tree \o n)[i] = tree[i]
    BY <1>1, ConcatFacts
  <1>3. \A i \in 1 .. Len(tree) : tree[i].kind = "operation" => tree[i].in \in 1 .. (i - 1)
    BY <1>1, TreeOperation
  <1>4. Len(tree) + 1 \in Nat /\ Len(tree) + 1 >= 1 /\ (Len(tree) + 1) - 1 = Len(tree)
    BY <1>1
  <1>5. NodeFine(tree \o n, x, Len(tree) + 1)
    BY <1>2, <1>3, <1>4, NodeStable
  <1>6. Len(tree) + j \in Nat /\ Len(tree) + 1 =< Len(tree) + j
    BY <1>1, SequenceFacts
  <1> QED
    BY <1>4, <1>5, <1>6, NodeWider

\* y is the declaration of a class, which is added if it is the first one of this container.
Declares(y, n, intf, local) ==
    /\ U!DeclNode(n, intf, local) \in {<<>>, <<y>>}
    /\ NodeFine(tree, y, Len(tree) + 1)
    /\ y.kind = "classdecl" /\ y.intf = intf /\ y.local = local
    /\ y.scoped = Append(U!Scope(U!Current), n)
    /\ \A i \in DOMAIN tree : Apart(tree[i], y)

\* It agrees with what was declared before.
LEMMA DeclFine ==
    ASSUME UnitInv, U!KindOf(U!Current) \in {"unit", "module"}, NEW n, NEW intf, NEW local,
           \A i \in U!FindContents(Append(U!Scope(U!Current), n)) :
               tree[i].kind \in {"classdecl", "classdef"} /\ U!Agrees(i, intf, local)
    PROVE  \E y : Declares(y, n, intf, local)
  <1> DEFINE y == [U!Define(n, "classdecl") EXCEPT !.intf = intf, !.local = local]
  <1>1. U!DeclNode(n, intf, local) \in {<<>>, <<y>>}
    BY DEF U!DeclNode
  <1>2. /\ Placed(y, n, "classdecl") /\ y.type = U!Void /\ y.value = U!Void /\ y.bases = <<>>
        /\ y.intf = intf /\ y.local = local
    BY DEF Placed, ParentFine, U!Kinds, U!Define, U!Blank
  <1> HIDE DEF y
  <1>3. NodeFine(tree, y, Len(tree) + 1)
    <2>1. LocalFine(tree, y)
      BY <1>2, VoidFine DEF LocalFine, Placed
    <2> QED
      BY <1>2, <2>1, VoidFine, NoBases, PlacedFine
  <1>4. ASSUME NEW i \in DOMAIN tree PROVE Apart(tree[i], y)
    <2>1. y.kind = "classdecl" /\ y.scoped = Append(U!Scope(U!Current), n)
      BY <1>2 DEF Placed
    <2> SUFFICES ASSUME U!Lower(tree[i].scoped) = U!Lower(Append(U!Scope(U!Current), n))
                 PROVE  Apart(tree[i], y)
      BY <2>1 DEF Apart
    <2>2. tree[i].kind \in {"classdecl", "classdef"} /\ tree[i].intf = intf
              /\ tree[i].local = local
      BY DEF U!FindContents, U!Agrees
    <2> QED
      BY <1>2, <2>1, <2>2 DEF Apart
  <1>5. y.kind = "classdecl" /\ y.scoped = Append(U!Scope(U!Current), n)
    BY <1>2 DEF Placed
  <1>6. Declares(y, n, intf, local)
    BY <1>1, <1>2, <1>3, <1>4, <1>5 DEF Declares
  <1> QED
    BY <1>6

\* createClassDecl().
LEMMA ClassDeclStep ==
    ASSUME UnitInv, UNCHANGED input, NEW n, NEW intf, NEW local, U!CreateClassDecl(n, intf, local)
    PROVE  UnitInv'
  <1> DEFINE own == IF intf THEN U!Named(n) ELSE {}
             decl == U!DeclNode(n, intf, local)
             matches == U!FindContents(Append(U!Scope(U!Current), n))
  <1>1. Len(tree) < U!MaxNodes /\ U!KindOf(U!Current) \in {"unit", "module"}
    BY DEF U!CreateClassDecl, U!Rule
  <1>2. \/ Failed
        \/ /\ \A i \in matches : tree[i].kind \in {"classdecl", "classdef"}
                  /\ U!Agrees(i, intf, local)
           /\ Grown(decl, {}, own, FALSE)
    BY DEF U!CreateClassDecl, U!Finish, Failed, Grown
  <1> HIDE DEF decl, own
  <1>3. CASE Failed
    BY <1>3, UnitFails DEF Failed
  <1>4. CASE /\ \A i \in matches : tree[i].kind \in {"classdecl", "classdef"}
                    /\ U!Agrees(i, intf, local)
             /\ Grown(decl, {}, own, FALSE)
    <2>1. PICK y : Declares(y, n, intf, local)
      <3>1. \A i \in matches : tree[i].kind \in {"classdecl", "classdef"}
                /\ U!Agrees(i, intf, local)
        BY <1>4
      <3> QED
        BY <1>1, <3>1, DeclFine
    <2>2. CASE decl = <<y>>
      BY <1>1, <1>4, <2>1, <2>2, OneGrownInv DEF Declares
    <2>3. CASE decl = <<>>
      <3>1. IsSequence(<<>>) /\ Len(<<>>) = 0
        BY DEF IsSequence
      <3>2. TreeFine(tree \o <<>>) /\ Len(tree \o <<>>) = Len(tree) + 0
        BY <3>1, TreeGrows DEF UnitInv
      <3>3. Len(tree \o <<>>) \in Len(tree) .. U!MaxNodes + 3
        BY <3>2, CurrentFine DEF UnitInv
      <3>4. Grown(<<>>, {}, own, FALSE)
        BY <1>4, <2>3
      <3> QED
        BY <3>2, <3>3, <3>4, GrownInv
    <2> QED
      BY <2>1, <2>2, <2>3 DEF Declares, decl
  <1> QED
    BY <1>2, <1>3, <1>4

\* The bases of a new class are defined and local exactly if it is.
LEMMA BasesFine ==
    ASSUME UnitInv, NEW ext, NEW refs, U!BasesFound(ext, refs), NEW local, NEW bases,
           bases = [i \in DOMAIN refs |-> U!Max(U!Definition(U!BaseDecl(i, refs)))],
           U!CheckBasesAreLegal(bases, local), NEW b \in U!Range(bases)
    PROVE  /\ b \in 1 .. ((Len(tree) + 1) - 1)
           /\ tree[b].kind = "classdef" /\ tree[b].local = local
  <1>1. tree[b].local = local
    BY DEF U!CheckBasesAreLegal
  <1>2. PICK i \in DOMAIN refs : b = U!Max(U!Definition(U!BaseDecl(i, refs)))
    BY DEF U!Range
  <1> DEFINE D == U!Definition(U!BaseDecl(i, refs))
  <1>3. D # {}
    BY DEF U!BasesFound
  <1>4. D \subseteq 1 .. Len(tree) /\ \A d \in D : tree[d].kind = "classdef"
    BY CurrentFine DEF U!Definition, U!FindContents
  <1> HIDE DEF D
  <1>5. U!Max(D) \in D
    BY <1>3, <1>4, CurrentFine, GreatestElement
  <1>6. b \in D
    BY <1>2, <1>5 DEF D
  <1> QED
    BY <1>1, <1>4, <1>6, CurrentFine

\* createClassDef(): the definition, and a declaration if it is the first of the class.
LEMMA ClassDefStep ==
    ASSUME UnitInv, UNCHANGED input, NEW n, NEW intf, NEW local, NEW ext, NEW refs,
           U!CreateClassDef(n, intf, local, ext, refs)
    PROVE  UnitInv'
  <1> DEFINE bases == [i \in DOMAIN refs |-> U!Max(U!Definition(U!BaseDecl(i, refs)))]
             x == [U!Define(n, "classdef") EXCEPT !.intf = intf, !.local = local, !.bases = bases]
             decl == U!DeclNode(n, intf, local)
             matches == U!FindContents(Append(U!Scope(U!Current), n))
             known == UNION {U!IntroducedBy(U!Current, refs[i]) : i \in DOMAIN refs}
             Legal == /\ U!BasesFound(ext, refs) /\ U!CheckBasesAreLegal(bases, local)
                      /\ \A i \in matches : tree[i].kind = "classdecl" /\ U!Agrees(i, intf, local)
                      /\ Grown(<<x>> \o decl, known, U!Named(n), TRUE)
  <1>1. Len(tree) < U!MaxNodes /\ U!KindOf(U!Current) \in {"unit", "module"}
    BY DEF U!CreateClassDef, U!Rule
  <1>2. Failed \/ Legal
    BY DEF U!CreateClassDef, U!Finish, Failed, Grown
  <1> HIDE DEF bases, x, decl, known, Legal
  <1>3. CASE Failed
    BY <1>3, UnitFails DEF Failed
  <1>4. CASE Legal
    <2>1. U!CheckBasesAreLegal(bases, local) /\ U!BasesFound(ext, refs)
      BY <1>4 DEF Legal
    <2>2. /\ \A i \in matches : tree[i].kind = "classdecl" /\ U!Agrees(i, intf, local)
          /\ Grown(<<x>> \o decl, known, U!Named(n), TRUE)
      BY <1>4 DEF Legal
    <2>3. PICK y : Declares(y, n, intf, local)
      <3>1. \A i \in matches : tree[i].kind \in {"classdecl", "classdef"}
                /\ U!Agrees(i, intf, local)
        BY <2>2
      <3> QED
        BY <1>1, <3>1, DeclFine
    <2>4. /\ Placed(x, n, "classdef") /\ x.type = U!Void /\ x.value = U!Void /\ x.bases = bases
          /\ x.intf = intf /\ x.local = local
      BY <1>1 DEF x, Placed, ParentFine, U!Kinds, U!Define, U!Blank
    <2>5. ASSUME NEW b \in U!Range(bases)
          PROVE  /\ b \in 1 .. ((Len(tree) + 1) - 1)
                 /\ tree[b].kind = "classdef" /\ tree[b].local = local
      BY <2>1, BasesFine DEF bases
    <2>6. NodeFine(tree, x, Len(tree) + 1)
      <3>1. LocalFine(tree, x)
        BY <2>4, VoidFine DEF LocalFine, Placed
      <3>2. \A b \in U!Range(x.bases) : BaseFine(tree, Len(tree) + 1, x, b)
        BY <2>4, <2>5 DEF BaseFine
      <3> QED
        BY <2>4, <3>1, <3>2, VoidFine, PlacedFine
    <2>7. ASSUME NEW i \in DOMAIN tree PROVE Apart(tree[i], x)
      <3>1. x.kind = "classdef" /\ x.scoped = Append(U!Scope(U!Current), n)
        BY <2>4 DEF Placed
      <3> SUFFICES ASSUME U!Lower(tree[i].scoped) = U!Lower(Append(U!Scope(U!Current), n))
                   PROVE  Apart(tree[i], x)
        BY <3>1 DEF Apart
      <3>2. tree[i].kind = "classdecl" /\ tree[i].intf = intf /\ tree[i].local = local
        BY <2>2 DEF U!FindContents, U!Agrees
      <3> QED
        BY <2>4, <3>1, <3>2 DEF Apart
    <2>8. Apart(x, y)
      BY <2>3, <2>4 DEF Apart, Placed, Declares
    <2> DEFINE N == <<x>> \o decl
    <2>9. /\ IsSequence(N) /\ N[1] = x /\ Len(N) \in Nat /\ 1 =< Len(N) /\ Len(N) =< 2
          /\ Len(N) = 2 => N[2] = y
      <3>1. <<x>> \in Seq({x}) /\ <<y>> \in Seq({y}) /\ <<>> \in Seq({y})
        OBVIOUS
      <3>2. /\ IsSequence(<<x>>) /\ Len(<<x>>) = 1 /\ <<x>>[1] = x
            /\ IsSequence(<<y>>) /\ Len(<<y>>) = 1 /\ <<y>>[1] = y
            /\ IsSequence(<<>>) /\ Len(<<>>) = 0
        BY <3>1 DEF IsSequence
      <3>3. IsSequence(decl) /\ (Len(decl) = 0 \/ (Len(decl) = 1 /\ decl[1] = y))
        BY <2>3, <3>2 DEF Declares, decl
      <3>4. /\ IsSequence(N) /\ Len(N) = 1 + Len(decl) /\ N[1] = x
            /\ \A i \in 1 .. Len(decl) : N[1 + i] = decl[i]
        BY <3>2, <3>3, ConcatFacts
      <3> HIDE DEF N
      <3> QED
        BY <3>3, <3>4
    <2> HIDE DEF N
    <2>10. /\ Len(tree) \in Nat /\ U!MaxNodes \in Nat /\ IsSequence(tree)
           /\ DOMAIN tree = 1 .. Len(tree)
      BY CurrentFine DEF UnitInv, TreeFine
    <2>11. \A i \in DOMAIN tree : Apart(tree[i], x) /\ Apart(tree[i], y)
      BY <2>3, <2>7 DEF Declares
    <2>12. ASSUME NEW j \in 1 .. Len(N) PROVE N[j] = x \/ N[j] = y
      <3>1. j = 1 \/ (j = 2 /\ Len(N) = 2)
        BY <2>9
      <3> QED
        BY <2>9, <3>1
    <2>13. NodeFine(tree, x, Len(tree) + 1) /\ NodeFine(tree, y, Len(tree) + 1)
      BY <2>3, <2>6 DEF Declares
    <2>14. \A j \in 1 .. Len(N) : NodeFine(tree \o N, N[j], Len(tree) + j)
      BY <2>9, <2>12, <2>13, NodeLater
    <2>15. /\ \A i \in 1 .. Len(tree) : (tree \o N)[i] = tree[i]
           /\ (tree \o N)[Len(tree) + 1] = N[1]
      BY <2>9, <2>10, ConcatFacts
    <2>16. ASSUME NEW j \in 1 .. Len(N), NEW i \in 1 .. (Len(tree) + j - 1)
           PROVE  Apart((tree \o N)[i], N[j])
      <3>1. CASE i \in DOMAIN tree
        BY <2>10, <2>15, <2>12, <2>11, <3>1
      <3>2. CASE i \notin DOMAIN tree
        <4>1. i \in Int /\ j \in Int /\ j =< Len(N) /\ i >= 1 /\ i =< Len(tree) + j - 1
          BY <2>9, <2>10
        <4>2. i > Len(tree)
          BY <2>10, <3>2, <4>1
        <4>3. i = Len(tree) + 1 /\ j = 2 /\ Len(N) = 2
          BY ONLY <2>9, <2>10, <4>1, <4>2
        <4> QED
          BY <2>8, <2>9, <2>15, <4>3
      <3> QED
        BY <3>1, <3>2
    <2>17. TreeFine(tree \o N) /\ Len(tree \o N) = Len(tree) + Len(N)
      BY <2>9, <2>14, <2>16, TreeGrows DEF UnitInv
    <2>18. Len(tree \o N) \in Len(tree) .. U!MaxNodes + 3 /\ Len(tree \o N) > Len(tree)
      <3>1. Len(tree) + Len(N) \in Len(tree) .. U!MaxNodes + 3 /\ Len(tree) + Len(N) > Len(tree)
        BY ONLY <1>1, <2>9, <2>10
      <3> QED
        BY <2>17, <3>1
    <2> QED
      BY <2>2, <2>17, <2>18, GrownInv DEF N
  <1> QED
    BY <1>2, <1>3, <1>4

\* Names whose letters differ are different in one scope.
LEMMA LettersApart ==
    ASSUME NEW x, NEW y, NEW s, NEW m, NEW n, IsSequence(s),
           x.scoped = Append(s, m), y.scoped = Append(s, n), ~U!SameLetters(m, n)
    PROVE  Apart(x, y)
  BY LowerOfAppend DEF Apart, U!SameLetters

\* createEnum() and the enumerators, which are in the scope of the enumeration.
LEMMA EnumStep ==
    ASSUME UnitInv, UNCHANGED input, NEW n, NEW ens, NEW m \in 0 .. 2, DOMAIN ens = 1 .. m,
               NEW local,
           U!CreateEnum(n, ens, local)
    PROVE  UnitInv'
  <1> DEFINE values == U!EnumValues(ens)
             x == [U!Define(n, "enum") EXCEPT !.local = local]
             e == [i \in DOMAIN ens |-> [U!Define(ens[i][1], "enumerator")
                       EXCEPT !.type = [b |-> "named", node |-> Len(tree) + 1],
                              !.number = values[i]]]
             Legal == /\ U!Definable(n)
                      /\ \A i \in DOMAIN ens :
                             /\ U!Fresh(U!Current, ens[i][1])
                             /\ ~U!SameLetters(ens[i][1], n)
                             /\ \A j \in 1 .. (i - 1) : ~U!SameLetters(ens[j][1], ens[i][1])
  <1>1. Len(tree) < U!MaxNodes /\ U!KindOf(U!Current) \in {"unit", "module"}
    BY DEF U!CreateEnum, U!Rule
  <1>2. Failed \/ (Legal /\ Grown(<<x>> \o e, {}, U!Named(n), FALSE))
    BY DEF U!CreateEnum, U!Finish, Failed, Grown
  <1>3. CASE Failed
    BY <1>3, UnitFails DEF Failed
  <1>4. CASE Legal /\ Grown(<<x>> \o e, {}, U!Named(n), FALSE)
    <2>1. Placed(x, n, "enum") /\ x.type = U!Void /\ x.value = U!Void /\ x.bases = <<>>
      BY <1>1 DEF Placed, ParentFine, U!Kinds, U!Define, U!Blank
    <2>2. ASSUME NEW i \in 1 .. m
          PROVE  /\ Placed(e[i], ens[i][1], "enumerator")
                 /\ e[i].type = [b |-> "named", node |-> Len(tree) + 1]
                 /\ e[i].value = U!Void /\ e[i].bases = <<>>
      BY <1>1 DEF Placed, ParentFine, U!Kinds, U!Define, U!Blank
    <2>3. IsSequence(e) /\ Len(e) = m
      <3>1. e = [i \in 1 .. m |-> e[i]]
        OBVIOUS
      <3> HIDE DEF e
      <3>2. e \in [1 .. m -> {e[i] : i \in 1 .. m}] /\ m \in Nat
        BY <3>1
      <3>3. e \in Seq({e[i] : i \in 1 .. m}) /\ Len(e) = m
        BY <3>2
      <3> QED
        BY <3>3 DEF IsSequence
    <2>4. Legal /\ Grown(<<x>> \o e, {}, U!Named(n), FALSE)
      BY <1>4
    <2> HIDE DEF x, e
    <2> DEFINE N == <<x>> \o e
               t == tree \o N
               Sc == U!Scope(U!Current)
    <2>5. /\ IsSequence(N) /\ Len(N) = m + 1 /\ N[1] = x
          /\ \A i \in 1 .. m : N[1 + i] = e[i]
      <3>1. <<x>> \in Seq({x})
        OBVIOUS
      <3>2. /\ IsSequence(<<x>>) /\ Len(<<x>>) = 1 /\ <<x>>[1] = x
        BY <3>1 DEF IsSequence
      <3> QED
        BY <2>3, <3>2, ConcatFacts
    <2> HIDE DEF N
    <2>6. /\ Len(tree) \in Nat /\ U!MaxNodes \in Nat /\ IsSequence(tree)
          /\ DOMAIN tree = 1 .. Len(tree)
          /\ U!Current \in 0 .. Len(tree) /\ IsSequence(Sc) /\ Sc = ScopeAt(tree, U!Current)
          /\ U!KindOf(U!Current) = KindAt(tree, U!Current)
      BY CurrentFine DEF UnitInv, TreeFine
    <2>7. /\ \A i \in 1 .. Len(tree) : t[i] = tree[i]
          /\ \A j \in 1 .. m + 1 : t[Len(tree) + j] = N[j]
      BY <2>5, <2>6, ConcatFacts
    <2> HIDE DEF t
    <2>8. NodeFine(t, N[1], Len(tree) + 1)
      <3>1. LocalFine(tree, x)
        BY <2>1, VoidFine DEF LocalFine, Placed, Sendable
      <3>2. NodeFine(tree, x, Len(tree) + 1)
        BY <2>1, <3>1, VoidFine, NoBases, PlacedFine
      <3>3. 1 \in 1 .. Len(N)
        BY <2>5
      <3> QED
        BY <2>5, <3>2, <3>3, NodeLater DEF t
    <2>9. ASSUME NEW i \in 1 .. m
          PROVE  NodeFine(t, N[1 + i], Len(tree) + (1 + i))
      <3> DEFINE k == Len(tree) + (1 + i)
      <3>1. N[1 + i] = e[i] /\ Placed(e[i], ens[i][1], "enumerator")
        BY <2>2, <2>5
      <3>2. k \in Nat /\ 1 .. Len(tree) + 1 \subseteq 1 .. (k - 1) /\ U!Current \in 0 .. (k - 1)
        BY <2>6
      <3>3. t[Len(tree) + 1] = x /\ x.kind = "enum" /\ Len(tree) + 1 \in 1 .. Len(tree) + 1
        BY <2>1, <2>5, <2>6, <2>7 DEF Placed
      <3> HIDE DEF k
      <3>4. TypeFine(t, k, e[i].type)
        BY <2>2, <3>2, <3>3 DEF TypeFine, U!TypeKinds
      <3>5. TypeFine(t, k, e[i].value)
        BY <2>2 DEF TypeFine, U!Void, U!Builtin
      <3>6. KindAt(t, U!Current) = KindAt(tree, U!Current)
                /\ ScopeAt(t, U!Current) = ScopeAt(tree, U!Current)
        BY <2>6, <2>7 DEF KindAt, ScopeAt
      <3>7. e[i].kind \in U!Kinds /\ e[i].in \in 0 .. (k - 1)
                /\ ParentFine(e[i].kind, KindAt(t, e[i].in))
        BY <2>6, <3>1, <3>2, <3>6 DEF Placed
      <3>8. ScopeFine(t, e[i])
        BY <2>6, <3>1, <3>6, AppendFacts DEF ScopeFine, Placed
      <3>9. LocalFine(t, e[i])
        BY <3>1 DEF LocalFine, Placed, Sendable
      <3>10. \A b \in U!Range(e[i].bases) : BaseFine(t, k, e[i], b)
        BY <2>2, NoBases
      <3>11. NodeFine(t, e[i], k)
        BY <3>4, <3>5, <3>7, <3>8, <3>9, <3>10 DEF NodeFine
      <3> QED
        BY <3>1, <3>11 DEF k
    <2>10. \A i \in DOMAIN tree : Apart(tree[i], x)
      BY <2>1, <2>4, FreshApart DEF U!Definable
    <2>11. ASSUME NEW i \in 1 .. m, NEW l \in DOMAIN tree
           PROVE  Apart(tree[l], e[i])
      <3>1. U!Fresh(U!Current, ens[i][1])
        BY <2>4
      <3> QED
        BY <2>2, <3>1, FreshApart
    <2>12. x.scoped = Append(Sc, n) /\ \A i \in 1 .. m : e[i].scoped = Append(Sc, ens[i][1])
      BY <2>1, <2>2 DEF Placed
    <2>13. ASSUME NEW i \in 1 .. m PROVE Apart(x, e[i])
      <3>1. ~U!SameLetters(n, ens[i][1])
        BY <2>4 DEF U!SameLetters
      <3> QED
        BY <2>6, <2>12, <3>1, LettersApart
    <2>14. ASSUME NEW i \in 1 .. m, NEW j \in 1 .. (i - 1) PROVE Apart(e[j], e[i])
      <3>1. ~U!SameLetters(ens[j][1], ens[i][1]) /\ j \in 1 .. m
        BY <2>4
      <3> QED
        BY <2>6, <2>12, <3>1, LettersApart
    <2> HIDE DEF Legal
    <2>15. ASSUME NEW j \in 1 .. Len(N)
           PROVE  /\ NodeFine(t, N[j], Len(tree) + j)
                  /\ \A i \in 1 .. (Len(tree) + j - 1) : Apart(t[i], N[j])
      <3>1. CASE j = 1
        <4>1. N[j] = x /\ Len(tree) + j - 1 = Len(tree)
          BY <2>5, <2>6, <3>1
        <4>2. \A i \in 1 .. (Len(tree) + j - 1) : Apart(t[i], N[j])
          BY <2>6, <2>7, <2>10, <4>1
        <4> QED
          BY <2>8, <3>1, <4>2
      <3>2. CASE j # 1
        <4>1. PICK i \in 1 .. m : j = 1 + i
          <5>1. j - 1 \in 1 .. m /\ j = 1 + (j - 1)
            BY <2>5, <3>2
          <5> QED
            BY <5>1
        <4>2. NodeFine(t, N[j], Len(tree) + j)
          BY <2>9, <4>1
        <4>3. N[j] = e[i]
          BY <2>5, <4>1
        <4>4. ASSUME NEW l \in 1 .. (Len(tree) + j - 1) PROVE Apart(t[l], N[j])
          <5>1. CASE l \in DOMAIN tree
            BY <2>6, <2>7, <2>11, <4>3, <5>1
          <5>2. CASE l = Len(tree) + 1
            <6>1. t[l] = x
              BY <2>5, <2>7, <5>2
            <6> QED
              BY <2>13, <4>3, <6>1
          <5>3. CASE l \notin DOMAIN tree /\ l # Len(tree) + 1
            <6>1. PICK h \in 1 .. (i - 1) : l = Len(tree) + (1 + h)
              <7>1. l - Len(tree) - 1 \in 1 .. (i - 1)
                        /\ l = Len(tree) + (1 + (l - Len(tree) - 1))
                BY <2>6, <4>1, <5>3
              <7> QED
                BY <7>1
            <6>2. h \in 1 .. m /\ 1 + h \in 1 .. m + 1
              OBVIOUS
            <6>3. t[l] = e[h]
              BY <2>5, <2>7, <6>1, <6>2
            <6> QED
              BY <2>14, <4>3, <6>3
          <5> QED
            BY <5>1, <5>2, <5>3
        <4> QED
          BY <4>2, <4>4
      <3> QED
        BY <3>1, <3>2
    <2>16. TreeFine(tree \o N) /\ Len(tree \o N) = Len(tree) + Len(N)
      BY <2>5, <2>15, TreeGrows DEF UnitInv, t
    <2>17. Len(tree \o N) \in Len(tree) .. U!MaxNodes + 3
      <3>1. Len(tree) + Len(N) \in Len(tree) .. U!MaxNodes + 3
        BY <1>1, <2>5, <2>6
      <3> QED
        BY <2>16, <3>1
    <2> QED
      BY <2>4, <2>16, <2>17, GrownInv DEF N
  <1> QED
    BY <1>2, <1>3, <1>4

\* Every rule of the grammar keeps the invariant.
LEMMA UnitNext == UnitInv /\ [U!UNext]_(U!unitVars) => UnitInv'
  <1> SUFFICES ASSUME UnitInv, [U!UNext]_(U!unitVars) PROVE UnitInv'
    OBVIOUS
  <1>1. CASE UNCHANGED U!unitVars
    BY <1>1 DEF U!unitVars, UnitInv, StackFine, UsesFine, U!MaxNodes
  <1>2. CASE U!UNext
    <2>1. U!USteps /\ UNCHANGED input
      BY <1>2 DEF U!UNext
    <2>2. CASE \E n \in U!AllNames : U!CreateModule(n)
      BY <2>1, <2>2, ModuleStep
    <2>3. ASSUME NEW n \in U!AllNames, NEW local \in U!Locals,
                 \/ U!CreateStruct(n, local)
                 \/ \E base \in U!Refs \cup {<<>>} : U!CreateException(n, base, local)
                 \/ \E t \in U!TypeTokens : U!CreateSequence(n, t, local)
                 \/ \E t, u \in U!TypeTokens : U!CreateDictionary(n, t, u, local)
                 \/ \E intf \in BOOLEAN : U!CreateClassDecl(n, intf, local)
                 \/ \E intf, ext \in BOOLEAN, refs \in U!Lists(U!Refs, 2) :
                        U!CreateClassDef(n, intf, local, ext, refs)
          PROVE  UnitInv'
      BY <2>1, <2>3, StructStep, ExceptionStep, SequenceStep, DictionaryStep, ClassDeclStep,
         ClassDefStep
    <2>4. ASSUME NEW n, NEW local, NEW S, NEW ens \in U!Lists(S, 2) \ {<<>>},
                     U!CreateEnum(n, ens, local)
          PROVE  UnitInv'
      <3>1. PICK m \in 0 .. 2 : ens \in [1 .. m -> S]
        BY DEF U!Lists
      <3> QED
        BY <2>1, <2>4, <3>1, EnumStep
    <2>5. ASSUME NEW n \in U!AllNames, NEW t \in U!TypeTokens,
                 \/ \E i \in U!Initializers : U!CreateConst(n, t, i)
                 \/ \E out \in BOOLEAN, tag \in 0 .. 1 : U!CreateParamDecl(n, t, out, tag)
                 \/ \E tag \in 0 .. 1 : U!CreateDataMember(n, t, tag)
          PROVE  UnitInv'
      BY <2>1, <2>5, ConstStep, ParamStep, MemberStep
    <2>6. CASE \E n \in U!AllNames, t \in U!TypeTokens \cup {<<>>} : U!CreateOperation(n, t)
      BY <2>1, <2>6, OperationStep
    <2>7. CASE \E throws \in U!Lists(U!Refs, 2) : U!EndOperation(throws)
      BY <2>1, <2>7, EndOperationStep
    <2>8. CASE U!PopContainer
      BY <2>1, <2>8, PopStep
    <2> QED
      BY <2>1, <2>2, <2>3, <2>4, <2>5, <2>6, <2>7, <2>8 DEF U!USteps
  <1> QED
    BY <1>1, <1>2

\* What the invariant says about names.
LEMMA UnitNames == UnitInv => U!UTypeOK /\ U!NamesDistinct /\ U!UsesAgree
  <1> SUFFICES ASSUME UnitInv PROVE U!UTypeOK /\ U!NamesDistinct /\ U!UsesAgree
    OBVIOUS
  <1>1. U!UTypeOK
    <2>1. \A i \in DOMAIN tree : tree[i].kind \in U!Kinds /\ tree[i].in \in 0 .. (i - 1)
      BY DEF UnitInv, TreeFine, NodeFine
    <2>2. \A i \in DOMAIN stack : stack[i] \in 0 .. Len(tree)
      BY DEF UnitInv, StackFine
    <2> QED
      BY <2>1, <2>2 DEF UnitInv, U!UTypeOK
  <1>2. U!NamesDistinct
    <2>1. ASSUME NEW i \in DOMAIN tree, NEW j \in DOMAIN tree, i < j
          PROVE  Apart(tree[i], tree[j])
      <3>1. i \in 1 .. (j - 1)
        BY <2>1, CurrentFine
      <3> QED
        BY <3>1 DEF UnitInv, TreeFine
    <2> QED
      BY <2>1 DEF U!NamesDistinct, Apart, U!Agrees
  <1>3. U!UsesAgree
    <2>1. ASSUME NEW u \in uses, NEW v \in uses, u[1] = v[1], u[2] = v[2] PROVE u[3] = v[3]
      BY <2>1 DEF UnitInv, UsesFine, U!Consistent
    <2> QED
      BY <2>1 DEF U!UsesAgree
  <1> QED
    BY <1>1, <1>2, <1>3

\* What the invariant says about local types.
LEMMA UnitLocal == UnitInv => NonLocalClosed
  <1> SUFFICES ASSUME UnitInv, NEW i \in DOMAIN tree, tree[i].kind \in Sendable, ~tree[i].local
               PROVE  /\ ~U!IsLocal(tree[i].type) /\ ~U!IsLocal(tree[i].value)
                      /\ \A j \in U!Reached(i) :
                            /\ tree[j].kind \in U!TypeKinds \cup {"exception", "classdef"} =>
                                   ~tree[j].local
                            /\ tree[j].kind \in {"member", "operation"} =>
                                   /\ ~U!IsLocal(tree[j].type)
                                   /\ \A p \in U!Contents(j,
                                          "parameter") : ~U!IsLocal(tree[p].type)
    BY DEF NonLocalClosed, U!NonLocalClosed, Sendable
  <1>1. Len(tree) \in Nat /\ DOMAIN tree = 1 .. Len(tree)
    BY CurrentFine
  <1>2. \A k \in DOMAIN tree : NodeFine(tree, tree[k], k)
    BY DEF UnitInv, TreeFine
  <1>3. NodeFine(tree, tree[i], i) /\ i # 0
    BY <1>1, <1>2
  <1>4. ~LocalAt(tree, tree[i].type) /\ ~LocalAt(tree, tree[i].value)
    BY <1>3 DEF NodeFine, LocalFine
  <1>5. ASSUME NEW ty \in {tree[i].type, tree[i].value}, ty.node # 0
        PROVE  tree[ty.node].kind \in U!TypeKinds /\ ~tree[ty.node].local
    BY <1>3, <1>4, <1>5 DEF NodeFine, TypeFine, LocalAt
  <1>6. ASSUME NEW b \in U!Range(tree[i].bases)
        PROVE  tree[b].kind \in {"exception", "classdef"} /\ ~tree[b].local
    BY <1>3 DEF NodeFine, BaseFine
  <1>7. ASSUME NEW j \in DOMAIN tree, tree[j].in = i
        PROVE  tree[j].kind \in {"member", "operation"} /\ ~LocalAt(tree, tree[j].type)
    <2>1. NodeFine(tree, tree[j], j) /\ KindAt(tree, tree[j].in) = tree[i].kind
      BY <1>2, <1>3, <1>7 DEF KindAt
    <2>2. tree[j].kind \in {"member", "operation"}
      BY <2>1 DEF NodeFine, ParentFine, Sendable
    <2> QED
      BY <1>7, <2>1, <2>2 DEF NodeFine, LocalFine
  <1>8. ASSUME NEW j \in DOMAIN tree, tree[j].in = i, NEW p \in U!Contents(j, "parameter")
        PROVE  ~LocalAt(tree, tree[p].type)
    <2>1. p \in DOMAIN tree /\ tree[p].in = j /\ tree[p].kind = "parameter"
      BY DEF U!Contents
    <2>2. NodeFine(tree, tree[p], p)
      BY <1>2, <2>1
    <2> QED
      BY <1>8, <2>1, <2>2 DEF NodeFine, LocalFine
  <1>9. ASSUME NEW j \in U!Reached(i)
        PROVE  /\ tree[j].kind \in U!TypeKinds \cup {"exception", "classdef"} => ~tree[j].local
               /\ tree[j].kind \in {"member", "operation"} =>
                      /\ ~U!IsLocal(tree[j].type)
                      /\ \A p \in U!Contents(j, "parameter") : ~U!IsLocal(tree[p].type)
    <2>1. CASE \E ty \in {tree[i].type, tree[i].value} : ty.node # 0 /\ j = ty.node
      BY <1>5, <2>1 DEF U!TypeKinds
    <2>2. CASE j \in U!Range(tree[i].bases)
      BY <1>6, <2>2
    <2>3. CASE j \in DOMAIN tree /\ tree[j].in = i
      BY <1>7, <1>8, <2>3, LocalSame DEF U!TypeKinds
    <2> QED
      BY <2>1, <2>2, <2>3 DEF U!Reached
  <1> QED
    BY <1>4, <1>9, LocalSame

\* Parser.cpp: in a unit without errors two definitions with one scoped name, up to
\* capitalization, are openings of a module or declarations and the definition of a class, and
\* a name has one meaning in a scope wherever it is used.
THEOREM UnitNamesSound == U!USpec => [](U!UTypeOK /\ U!NamesDistinct /\ U!UsesAgree)
  BY UnitInit, UnitNext, UnitNames, PTL DEF U!USpec

\* Parser.cpp: from a definition that can be sent nothing local can be reached, for every
\* sequence of rules that the parser accepts.
THEOREM NonLocalIsClosed == U!USpec => []NonLocalClosed
  BY UnitInit, UnitNext, UnitLocal, PTL DEF U!USpec
=============================================================================
