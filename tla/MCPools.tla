------------------------------ MODULE MCPools ------------------------------
(***************************************************************************)
(* Model-checking instances of OutgoingFactory, for its invariants and its *)
(* liveness, and of ThreadPool, for its liveness (a smaller one than that  *)
(* of MCThreadPool).  part names the component that a behaviour belongs    *)
(* to; the variables of the other keep their initial values.               *)
(***************************************************************************)
EXTENDS OutgoingFactory, TLC

CONSTANTS callA, callC, k1, k2, t1, t2, h1, h2, WorkQueue

VARIABLES
    part, pool, items, pipe, readable, registered, status, selected, item, lock

\* The callers are a blocking one for k1 and an asynchronous one for both connectors.
EndpointsAC == callA :> {k1} @@ callC :> {k1, k2}

\* Up to two threads, one of them always there.
T == INSTANCE ThreadPool WITH
        Threads <- {t1, t2}, Handlers <- {h1, h2}, Size <- 1, SizeIO <- 2, SizeMax <- 2,
        Serialize <- FALSE, ThreadIdle <- FALSE, ServerIdle <- FALSE,
        ThreadsCanFail <- FALSE, MaxItems <- 2, MaxCalls <- 1

poolVars == <<pool, items, pipe, readable, registered, status, selected, item, lock>>
allVars == <<part, vars, poolVars>>

PoolsInit ==
    /\ part \in {"pool", "factory"}
    /\ Init /\ T!Init
    /\ part = "factory" => pool.threads = {t1}

PoolsNext ==
    /\ \/ part = "factory" /\ Next /\ UNCHANGED poolVars
       \/ part = "pool" /\ T!Next /\ UNCHANGED vars
    /\ UNCHANGED part

\* The fairness of the component that runs.
PoolsFairness ==
    \/ part = "factory" /\ Fairness
    \/ part = "pool" /\ T!Fairness

PoolsSpec == PoolsInit /\ [][PoolsNext]_allVars /\ PoolsFairness

\* ThreadPool: a handler that is finished with the pool gets its finished() call, a
\* readable one is served, and all threads of a destroyed pool end.
PoolServes ==
    part = "pool" => T!FinishedCalled /\ T!ReadableServed /\ T!DestroyedPoolEnds

\* OutgoingConnectionFactory: every caller is answered, and waitUntilFinished() ends.
FactoryAnswers == part = "factory" => Answered /\ DestroyFinishes
=============================================================================
