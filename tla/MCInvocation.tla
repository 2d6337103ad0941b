---------------------------- MODULE MCInvocation ----------------------------
(***************************************************************************)
(* Model-checking instances of the two ends of an invocation: the proxy's  *)
(* (ProxyInvocation) and the object adapter's (ObjectAdapter).  They share *)
(* no state; part names the one whose instance a behaviour belongs to, and *)
(* the variables of the other keep their initial values.                   *)
(***************************************************************************)
EXTENDS Naturals, Sequences, FiniteSets

CONSTANTS
    Sync, Async, RetryIntervals, MaxFailures,   \* of the proxy
    Threads, Connections,                       \* of the adapter
    None

\* An invocation is synchronous or asynchronous, intervals are numbers of milliseconds.
ASSUME RetriesAssumption == RetryIntervals \in Seq(Nat)
ASSUME FailuresAssumption == MaxFailures \in Nat
ASSUME CallersAssumption == Sync \cap Async = {} /\ None \notin Async
\* A process has finitely many threads.
ASSUME ThreadsAssumption == IsFiniteSet(Threads)

VARIABLES
    part,
    call, link, queue, tasks, timer, phase, failures, executed,
    oa, fac, conn, reaper, thr, registered, activations, deactivated2

P == INSTANCE ProxyInvocation
A == INSTANCE ObjectAdapter

\* For TLC: a retry waits for the timer.
OneDelayedRetry == <<1>>

proxyVars == <<call, link, queue, tasks, timer, phase, failures, executed>>
adapterVars == <<oa, fac, conn, reaper, thr, registered, activations, deactivated2>>
vars == <<part, proxyVars, adapterVars>>

Init == part \in {"proxy", "adapter"} /\ P!Init /\ A!Init

Next ==
    /\ \/ part = "proxy" /\ P!Next /\ UNCHANGED adapterVars
       \/ part = "adapter" /\ A!Next /\ UNCHANGED proxyVars
    /\ UNCHANGED part

\* The fairness of the component that runs.
Fairness ==
    \/ part = "proxy" /\ P!Fairness
    \/ part = "adapter" /\ A!Fairness

Spec == Init /\ [][Next]_vars /\ Fairness

\* The proxy: over all retries an operation that is not idempotent is executed at most
\* once, and the end of an invocation is told once.
InvocationOnce == P!TypeOK /\ P!AtMostOnce /\ P!EndsOnce

\* The proxy: every invocation ends, and so does Communicator::destroy(), with the
\* exceptions that ProxyInvocation names.
InvocationsEnd == part = "proxy" => P!EverythingEnds

\* The adapter: servants are there while they are used, connections follow the factory
\* and the reaper gets all of them.
AdapterExact == A!TypeOK /\ A!ServantsAlive /\ A!FollowsFactory /\ A!ReaperComplete

\* The adapter: waitForHold() returns when everything is held, and deactivation ends.
AdapterWaits == A!HoldIsComplete /\ (part = "adapter" => A!WaitsEnd)
=============================================================================
