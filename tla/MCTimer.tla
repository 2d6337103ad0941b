------------------------------ MODULE MCTimer ------------------------------
(***************************************************************************)
(* Model-checking instances of the two services of the runtime that have a *)
(* thread of their own: the timer and the garbage collector.  They share   *)
(* no state; part names the one whose instance a behaviour belongs to, and *)
(* the variables of the other keep their initial values.                   *)
(***************************************************************************)
EXTENDS Timer, Sequences

CONSTANTS user, l1, l2, Null

VARIABLES
    part,
    heap, ref, member, local, gcObjects, todo, lock, state, collecting, at, pass, thread,
    destroyer, crashed

\* The program has one instance, which can refer to itself; a user also collects, and the
\* communicator is destroyed at some time.  MCRuntime has more instances.
G == INSTANCE GC WITH
        Objects <- {1}, Locals <- {l1, l2}, Users <- {user}, Destroys <- TRUE

gcVars == <<heap, ref, member, local, gcObjects, todo, lock, state, collecting, at, pass,
            thread, destroyer, crashed>>

ServicesInit == part \in {"timer", "collector"} /\ Init /\ G!Init

ServicesNext ==
    /\ \/ part = "timer" /\ Next /\ UNCHANGED gcVars
       \/ part = "collector" /\ G!Next /\ UNCHANGED vars
    /\ UNCHANGED part

\* The fairness of the service that runs.
ServicesFairness ==
    \/ part = "timer" /\ Fairness
    \/ part = "collector" /\ G!Fairness

ServicesSpec == ServicesInit /\ [][ServicesNext]_<<part, vars, gcVars>> /\ ServicesFairness

\* Timer: a scheduled task that nobody cancels runs (the thread never sleeps past it), and
\* destroy() returns once the thread has ended.
TasksRun == EventuallyRuns /\ DestroyJoins

\* The garbage collector: what the program has lost is deleted at some time, cycles
\* included, and Communicator::destroy() returns.
CollectorCollects == G!GarbageCollected /\ G!StopReturns
=============================================================================
