----------------------------- MODULE MCRuntime -----------------------------
(***************************************************************************)
(* Model-checking instances of components of the runtime whose properties  *)
(* are invariants: request ids, batch requests, the locator's cache, the   *)
(* dispatch of requests, the servant manager and the garbage collector.    *)
(* They share no state; part names the one whose instance a behaviour      *)
(* belongs to, and the variables of the others keep their initial values.  *)
(***************************************************************************)
EXTENDS RequestId, Sequences, TLC

CONSTANTS
    \* ConnectionBatch
    Requests, Flushes, Big, MaxBatch,
    \* Locator
    Adapters, Objects, Endpoints, Clients, Target, Blocking, Ttl, MaxFaults, MaxRequests,
    Lone,         \* the clients that run while the cache is updated in the background
    \* Dispatch
    Count, Depth, MaxAttempts, Callbacks,
    \* ServantManager
    Identities, Category, Categories, Facets, Servants,
    \* GC
    Instances, Locals, Users, Destroys,
    Few,          \* the instances that there are when others than its thread collect
    c1, c2, obj, adapter1,
    None, Null, Failed

ASSUME BatchAssumption ==
    /\ Requests \cap Flushes = {} /\ None \notin Requests \cup Flushes
    /\ MaxBatch \in Nat \ {0}

ASSUME LocatorAssumption ==
    /\ Adapters \cap Objects = {} /\ Adapters \cap Endpoints = {}
    /\ {None, Null, Failed} \cap (Adapters \cup Objects \cup Endpoints) = {}
    /\ Target \in [Clients -> Adapters \cup Objects]
    /\ MaxFaults \in Nat /\ MaxRequests \in Nat

ASSUME DispatchAssumption ==
    /\ Count \in Nat \ {0} /\ Depth \in Nat /\ MaxAttempts \in Nat
    /\ IsFiniteSet(Callbacks) /\ Callbacks = 1 .. Cardinality(Callbacks)

ASSUME CollectorAssumption ==
    /\ IsFiniteSet(Instances) /\ Instances \subseteq Nat /\ Null \notin Instances
    /\ IsFiniteSet(Locals) /\ {"thread", "destroy", "nobody"} \cap Users = {}

ASSUME ServantsAssumption ==
    /\ Identities \subseteq Nat /\ None \notin Identities
    /\ Categories \subseteq Nat /\ None \notin Categories
    /\ Category \in [Identities -> Categories]

VARIABLES
    part,
    state, stream, num, owner, lent, aborting, queue, wire, outcome, told, unreported,
    background, place, home, faults, adapterTable, objectTable, current, reqs, client,
    thread, inc, amd, attempts, dispatchCount, log, crashed,
    servantMapMap, servantHint, defaultServantMap, locatorMap, locatorHint, instance,
    toDeactivate, result, deactivated,
    heap, ref, member, local, gcObjects, todo, lock, gcState, collecting, at, pass, gcThread,
    destroyer, gcCrashed

B == INSTANCE ConnectionBatch
L == INSTANCE Locator
D == INSTANCE Dispatch
S == INSTANCE ServantManager

G == INSTANCE GC WITH
        Objects <- Instances, state <- gcState, thread <- gcThread, crashed <- gcCrashed

batchVars ==
    <<state, stream, num, owner, lent, aborting, queue, wire, outcome, told, unreported>>
locatorVars ==
    <<background, place, home, faults, adapterTable, objectTable, current, reqs, client>>
dispatchVars == <<thread, inc, amd, attempts, dispatchCount, log, crashed>>
servantVars == <<servantMapMap, servantHint, defaultServantMap, locatorMap, locatorHint,
                 instance, toDeactivate, result, deactivated>>
gcVars == <<heap, ref, member, local, gcObjects, todo, lock, gcState, collecting, at, pass,
            gcThread, destroyer, gcCrashed>>
allVars == <<part, vars, batchVars, locatorVars, dispatchVars, servantVars, gcVars>>

\* The tables of a locator that nobody uses.
LocatorAtRest ==
    /\ background = FALSE
    /\ place = [a \in Adapters |-> None] /\ home \in [Objects -> Adapters]
    /\ adapterTable = [a \in Adapters |-> L!NoEntry]
    /\ objectTable = [o \in Objects |-> L!NoEntry]

RuntimeInit ==
    /\ part \in {"ids", "batch", "locator", "dispatch", "servants", "collector", "collectors"}
    /\ Init /\ B!Init /\ L!Init /\ D!Init /\ S!Init /\ G!Init
    /\ part # "locator" => LocatorAtRest

\* A bound: a background update is started by the first of these clients that needs it.
LoneInBackground == background => \A c \in Clients \ Lone : client[c].at = "idle"

\* Bounds: all instances for the collector's thread alone, few of them when an application
\* collects, too, and the last communicator is destroyed.
ThreadAlone == destroyer = "idle" /\ \A u \in Users : at[u] = "idle"
OnlyFew == \A o \in Instances \ Few : heap[o] = "none"

RuntimeNext ==
    /\ \/ part = "ids" /\ Next
       \/ part # "ids" /\ UNCHANGED vars
    /\ \/ part = "batch" /\ B!Next
       \/ part # "batch" /\ UNCHANGED batchVars
    /\ \/ part = "locator" /\ L!Next /\ LoneInBackground'
       \/ part # "locator" /\ UNCHANGED locatorVars
    /\ \/ part = "dispatch" /\ D!Next
       \/ part # "dispatch" /\ UNCHANGED dispatchVars
    /\ \/ part = "servants" /\ S!Next
       \/ part # "servants" /\ UNCHANGED servantVars
    /\ \/ part = "collector" /\ G!Next /\ ThreadAlone'
       \/ part = "collectors" /\ G!Next /\ OnlyFew'
       \/ part \notin {"collector", "collectors"} /\ UNCHANGED gcVars
    /\ UNCHANGED part

RuntimeSpec == RuntimeInit /\ [][RuntimeNext]_allVars

\* Batch requests: headers are right, nothing is sent twice or after its caller got an
\* exception, and the loss of accepted requests is reported.
BatchExact == B!TypeOK /\ B!CountsMatch /\ B!SentAtMostOnce /\ B!LossReported

\* LocatorInfo: callers share one request, its answer finds all of them, and a wrong
\* cache does not make an invocation fail.
LocatorExact == L!TypeOK /\ L!OneRequest /\ L!NoneForgotten /\ L!CacheHeals

\* Incoming and IncomingAsync: every request gets one answer, whoever gives it, and
\* located servants are given back before it.
DispatchExact == D!TypeOK /\ D!OneAnswer /\ D!NoneUnanswered /\ D!LocatorPaired

\* ServantManager: hints never dangle and searches find what is registered.
HintsValid == S!TypeOK /\ S!HintsValid

\* The garbage collector: it deletes all garbage and nothing that can be reached, one caller
\* at a time, and reference counts are right.
CollectorExact ==
    /\ G!TypeOK /\ G!NothingLiveDeleted /\ G!CollectsAll
    /\ G!CountsHandles /\ G!CandidatesExact /\ G!OneCollector

\* c1 looks for the well-known object, c2 for the adapter.
OneEach == c1 :> obj @@ c2 :> adapter1
\* Two identities in two categories.
OneInEach == <<0, 1>>
=============================================================================
