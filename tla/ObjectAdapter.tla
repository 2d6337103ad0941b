--------------------------- MODULE ObjectAdapter ---------------------------
(***************************************************************************)
(* Ice::ObjectAdapterI (cpp/src/Ice/ObjectAdapterI.cpp) with one           *)
(* IncomingConnectionFactory (ConnectionFactory.cpp) and its connections,  *)
(* which are reduced to their states and one dispatch each.                *)
(*                                                                         *)
(* Threads call activate(), hold(), waitForHold(), deactivate(),           *)
(* waitForDeactivate() and destroy(), and make collocated calls, in any    *)
(* order and repeatedly.  An action is one critical section of the         *)
(* adapter's monitor, of the factory's or of a connection's, or one call   *)
(* of the locator registry.  Every wait() of these monitors is a loop      *)
(* whose condition is announced with notifyAll(): it is a guard.           *)
(***************************************************************************)
EXTENDS Naturals, FiniteSets

CONSTANTS Threads, Connections

VARIABLES
    oa,          \* the members of the adapter
    fac,         \* the members of the factory
    conn,        \* conn[k]: a connection
    reaper,      \* the connections that the reaper of the factory holds
    thr,         \* thr[t]: where a thread is
    registered,  \* the locator registry has the adapter (external)
    activations, \* calls of activate() that changed the factory (history)
    deactivated2 \* deactivate() was carried out more than once (history)

vars == <<oa, fac, conn, reaper, thr, registered, activations, deactivated2>>
history == <<activations, deactivated2>>

\* Connections are numbered by state: a started one is holding, active or beyond.
ConnStates == {"none", "starting", "active", "holding", "closing", "finished"}

TypeOK ==
    /\ oa \in [deactivated : BOOLEAN,        \* _deactivated
               waitForActivate : BOOLEAN,    \* _waitForActivate
               oneOffDone : BOOLEAN,         \* _activateOneOffDone
               waitForHold : 0 .. Cardinality(Threads),   \* _waitForHold
               retry : BOOLEAN,              \* _waitForHoldRetry
               destroying : BOOLEAN, destroyed : BOOLEAN, \* _destroying, _destroyed
               directCount : 0 .. Cardinality(Threads),   \* _directCount
               servants : BOOLEAN]           \* the servant manager is not destroyed
    /\ fac \in [state : {"holding", "active", "closed", "finished"},
                conns : SUBSET Connections,  \* _connections
                adapter : BOOLEAN]           \* _adapter is not null
    /\ conn \in [Connections -> [state : ConnStates, dispatch : BOOLEAN,
                                 callback : BOOLEAN]]  \* connectionStartCompleted() is due
    /\ reaper \subseteq Connections
    /\ thr \in [Threads -> [at : {"idle", "register", "holdFactory", "holdConns", "holdRetry", "holdAgain",
                                  "destroyBegin", "deactivate", "unregister", "destroyFactory", "wait",
                                  "waitFactory", "waitConns", "waitReap",
                                  "servants", "direct", "crashed"},
                            conns : SUBSET Connections,
                            destroy : BOOLEAN,     \* within destroy()
                            since : 0 .. 2]]       \* activations when it began to wait
    /\ registered \in BOOLEAN /\ activations \in 0 .. 2 /\ deactivated2 \in BOOLEAN

Init ==
    /\ oa = [deactivated |-> FALSE, waitForActivate |-> FALSE, oneOffDone |-> FALSE,
             waitForHold |-> 0, retry |-> FALSE, destroying |-> FALSE, destroyed |-> FALSE,
             directCount |-> 0, servants |-> TRUE]
    /\ fac = [state |-> "holding", conns |-> {}, adapter |-> TRUE]
    /\ conn = [k \in Connections |-> [state |-> "none", dispatch |-> FALSE, callback |-> FALSE]]
    /\ reaper = {}
    /\ thr = [t \in Threads |-> [at |-> "idle", conns |-> {}, destroy |-> FALSE, since |-> 0]]
    /\ registered = FALSE /\ activations = 0 /\ deactivated2 = FALSE

Goes(t, place) ==
    thr' = [thr EXCEPT ![t].at = place, ![t].since = IF place = "idle" THEN 0 ELSE @]
Connecting == <<conn, reaper>>

-----------------------------------------------------------------------------
(* IncomingConnectionFactory::setState(), with the connections that it      *)
(* tells; a connection that is not started ignores hold and activate.       *)

Told(from, to) ==
    [k \in Connections |-> IF k \in fac.conns /\ conn[k].state = from
                           THEN [conn[k] EXCEPT !.state = to] ELSE conn[k]]

FactoryActivate ==
    IF fac.state = "holding"
    THEN /\ fac' = [fac EXCEPT !.state = "active"]
         /\ conn' = Told("holding", "active")
         /\ activations' = IF activations < 2 THEN activations + 1 ELSE 2
    ELSE UNCHANGED <<fac, conn, activations>>

FactoryHold ==
    IF fac.state = "active"
    THEN fac' = [fac EXCEPT !.state = "holding"] /\ conn' = Told("active", "holding")
    ELSE UNCHANGED <<fac, conn>>

\* It is called once more when deactivate() is carried out twice.
FactoryDestroy ==
    IF fac.state = "closed" THEN UNCHANGED <<fac, conn>>
    ELSE /\ fac' = [fac EXCEPT !.state = "closed"]
         /\ conn' = [k \in Connections |->
                        IF k \in fac.conns /\ conn[k].state \in {"starting", "active", "holding"}
                        THEN [conn[k] EXCEPT !.state = "closing"] ELSE conn[k]]

-----------------------------------------------------------------------------
(* activate() *)

Activate(t) ==
    /\ thr[t].at = "idle" /\ ~oa.deactivated
    /\ IF oa.oneOffDone
       THEN /\ FactoryActivate
            /\ oa' = [oa EXCEPT !.retry = oa.waitForHold > 0]
            /\ UNCHANGED thr
       ELSE /\ oa' = [oa EXCEPT !.retry = oa.waitForHold > 0, !.waitForActivate = TRUE]
            /\ Goes(t, "register")
            /\ UNCHANGED <<fac, conn, activations>>
    /\ UNCHANGED <<reaper, registered, deactivated2>>

\* updateLocatorRegistry() and what follows it.
ActivateEnd(t) ==
    /\ thr[t].at = "register"
    /\ \/ /\ registered' = TRUE
          /\ oa' = [oa EXCEPT !.waitForActivate = FALSE, !.oneOffDone = TRUE]
          /\ FactoryActivate
       \/ /\ oa' = [oa EXCEPT !.waitForActivate = FALSE]
          /\ UNCHANGED <<registered, fac, conn, activations>>
    /\ Goes(t, "idle")
    /\ UNCHANGED <<reaper, deactivated2>>

Hold(t) ==
    /\ thr[t].at = "idle" /\ ~oa.deactivated
    /\ FactoryHold
    /\ UNCHANGED <<oa, reaper, thr, registered, history>>

-----------------------------------------------------------------------------
(* waitForHold() *)

\* Each round begins with checkForDeactivation().
HoldRound(t) ==
    IF oa.deactivated
    THEN Goes(t, "idle") /\ UNCHANGED oa
    ELSE /\ oa' = [oa EXCEPT !.waitForHold = @ + 1]
         /\ thr' = [thr EXCEPT ![t].at = "holdFactory", ![t].since = activations]

WaitForHold(t) ==
    /\ \/ thr[t].at = "idle" /\ ~oa.deactivated
       \/ thr[t].at = "holdAgain"
    /\ HoldRound(t)
    /\ UNCHANGED <<fac, Connecting, registered, history>>

\* IncomingConnectionFactory::waitUntilHolding()
WaitHoldingFactory(t) ==
    /\ thr[t].at = "holdFactory" /\ fac.state # "active"
    /\ thr' = [thr EXCEPT ![t].at = "holdConns", ![t].conns = fac.conns]
    /\ UNCHANGED <<oa, fac, Connecting, registered, history>>

\* ConnectionI::waitUntilHolding()
WaitHoldingConnection(t) ==
    /\ thr[t].at = "holdConns"
    /\ \E k \in thr[t].conns :
           /\ conn[k].state \in {"holding", "closing", "finished"} /\ ~conn[k].dispatch
           /\ thr' = [thr EXCEPT ![t].conns = @ \ {k}]
    /\ UNCHANGED <<oa, fac, Connecting, registered, history>>

WaitForHoldEnd(t) ==
    /\ thr[t].at = "holdConns" /\ thr[t].conns = {}
    /\ LET last == oa.waitForHold = 1 IN
       /\ oa' = [oa EXCEPT !.waitForHold = @ - 1, !.retry = @ /\ ~last]
       /\ Goes(t, CASE ~oa.retry        -> "idle"
                    [] oa.retry /\ last  -> "holdAgain"
                    [] oa.retry /\ ~last -> "holdRetry")
    /\ UNCHANGED <<fac, Connecting, registered, history>>

\* It waits for the others to end their round; checkForDeactivation() may end it.
WaitForHoldRetry(t) ==
    /\ thr[t].at = "holdRetry"
    /\ \/ /\ oa.waitForHold = 0
          /\ oa' = [oa EXCEPT !.retry = FALSE]
          /\ Goes(t, "holdAgain")
       \/ /\ oa.waitForHold > 0 /\ oa.deactivated
          /\ Goes(t, "idle")
          /\ UNCHANGED oa
    /\ UNCHANGED <<fac, Connecting, registered, history>>

-----------------------------------------------------------------------------
(* deactivate(), waitForDeactivate() and destroy() *)

AfterDeactivate(t) == IF thr[t].destroy THEN "wait" ELSE "idle"

\* The instance is dereferenced; destroy() clears it.
SetDeactivated(t) ==
    IF oa.destroyed
    THEN Goes(t, "crashed") /\ UNCHANGED <<oa, deactivated2>>
    ELSE /\ oa' = [oa EXCEPT !.deactivated = TRUE]
         /\ deactivated2' = (deactivated2 \/ oa.deactivated)
         /\ Goes(t, "unregister")

Deactivate(t) ==
    /\ \/ thr[t].at = "idle" /\ ~oa.deactivated
       \/ thr[t].at = "destroyBegin"
    /\ IF oa.deactivated \/ oa.waitForActivate
       THEN /\ Goes(t, IF oa.deactivated THEN "wait" ELSE "deactivate")
            /\ UNCHANGED <<oa, deactivated2>>
       ELSE SetDeactivated(t)
    /\ UNCHANGED <<fac, Connecting, registered, activations>>

\* After the wait for the activation _deactivated is not looked at again.
DeactivateWaited(t) ==
    /\ thr[t].at = "deactivate" /\ ~oa.waitForActivate
    /\ SetDeactivated(t)
    /\ UNCHANGED <<fac, Connecting, registered, activations>>

Unregister(t) ==
    /\ thr[t].at = "unregister"
    /\ registered' \in {registered, FALSE}
    /\ Goes(t, "destroyFactory")
    /\ UNCHANGED <<oa, fac, Connecting, history>>

\* IncomingConnectionFactory::destroy() uses its adapter to get at the thread pool.
DeactivateFactory(t) ==
    /\ thr[t].at = "destroyFactory"
    /\ IF fac.adapter \/ fac.state = "closed"
       THEN FactoryDestroy /\ Goes(t, AfterDeactivate(t))
       ELSE Goes(t, "crashed") /\ UNCHANGED <<fac, conn>>
    /\ UNCHANGED <<oa, reaper, registered, history>>

WaitForDeactivate(t) ==
    /\ thr[t].at = "idle" /\ ~oa.destroyed
    /\ Goes(t, "wait")
    /\ UNCHANGED <<oa, fac, Connecting, registered, history>>

WaitDeactivated(t) ==
    /\ thr[t].at = "wait" /\ oa.deactivated /\ oa.directCount = 0
    /\ Goes(t, IF oa.destroyed THEN "idle" ELSE "waitFactory")
    /\ UNCHANGED <<oa, fac, Connecting, registered, history>>

\* IncomingConnectionFactory::waitUntilFinished()
WaitFinishedFactory(t) ==
    /\ thr[t].at = "waitFactory" /\ fac.state = "finished"
    /\ fac' = [fac EXCEPT !.adapter = FALSE]
    /\ thr' = [thr EXCEPT ![t].at = "waitConns", ![t].conns = fac.conns]
    /\ UNCHANGED <<oa, Connecting, registered, history>>

WaitFinishedConnections(t) ==
    /\ thr[t].at = "waitConns"
    /\ \A k \in thr[t].conns : conn[k].state = "finished" /\ ~conn[k].dispatch
    /\ thr' = [thr EXCEPT ![t].at = "waitReap", ![t].conns = {}]
    /\ UNCHANGED <<oa, fac, Connecting, registered, history>>

WaitReap(t) ==
    /\ thr[t].at = "waitReap"
    /\ fac' = [fac EXCEPT !.conns = {}]
    /\ reaper' = {}
    /\ Goes(t, IF thr[t].destroy THEN "servants" ELSE "idle")
    /\ UNCHANGED <<oa, conn, registered, history>>

Destroy(t) ==
    /\ thr[t].at = "idle" /\ ~oa.destroyed /\ ~oa.destroying
    /\ oa' = [oa EXCEPT !.destroying = TRUE]
    /\ thr' = [thr EXCEPT ![t].at = "destroyBegin", ![t].destroy = TRUE]
    /\ UNCHANGED <<fac, Connecting, registered, history>>

\* ServantManager::destroy(), which deactivates the servant locators, and the end.
DestroyEnd(t) ==
    /\ thr[t].at = "servants"
    /\ IF oa.servants
       THEN oa' = [oa EXCEPT !.servants = FALSE] /\ UNCHANGED thr
       ELSE /\ oa' = [oa EXCEPT !.destroying = FALSE, !.destroyed = TRUE]
            /\ thr' = [thr EXCEPT ![t].at = "idle", ![t].destroy = FALSE]
    /\ UNCHANGED <<fac, Connecting, registered, history>>

-----------------------------------------------------------------------------
(* Collocated calls: incDirectCount() and decDirectCount(). *)

DirectBegin(t) ==
    /\ thr[t].at = "idle" /\ ~oa.deactivated
    /\ oa' = [oa EXCEPT !.directCount = @ + 1]
    /\ Goes(t, "direct")
    /\ UNCHANGED <<fac, Connecting, registered, history>>

\* Mutant of DirectEnd: the call is counted as if it went on.
DirectEndUncounted(t) ==
    /\ thr[t].at = "direct"
    /\ Goes(t, "idle")
    /\ UNCHANGED <<oa, fac, Connecting, registered, history>>

DirectEnd(t) ==
    /\ thr[t].at = "direct"
    /\ oa' = [oa EXCEPT !.directCount = @ - 1]
    /\ Goes(t, "idle")
    /\ UNCHANGED <<fac, Connecting, registered, history>>

-----------------------------------------------------------------------------
(* The thread pool: the factory's message() and finished(), and the         *)
(* connections.                                                             *)

\* message(): finished connections are reaped, and a new one is accepted.
Accept(k) ==
    /\ fac.state = "active" /\ conn[k].state = "none"
    /\ fac' = [fac EXCEPT !.conns = (@ \ reaper) \cup {k}]
    /\ reaper' = {}
    /\ conn' = [conn EXCEPT ![k].state = "starting"]
    /\ UNCHANGED <<oa, thr, registered, history>>

FactoryFinished ==
    /\ fac.state = "closed"
    /\ fac' = [fac EXCEPT !.state = "finished"]
    /\ UNCHANGED <<oa, Connecting, thr, registered, history>>

\* The connection is validated (it is then holding), and the factory is told of it later.
Start(k) ==
    /\ conn[k].state = "starting"
    /\ conn' = [conn EXCEPT ![k].state = "holding", ![k].callback = TRUE]
    /\ UNCHANGED <<oa, fac, reaper, thr, registered, history>>

\* Mutant of ConnectionStartCompleted: the factory's state is not looked at again.
ConnectionStartCompletedBlind(k) ==
    /\ conn[k].callback
    /\ conn' = [conn EXCEPT ![k].callback = FALSE,
                    ![k].state = IF @ = "holding" THEN "active" ELSE @]
    /\ UNCHANGED <<oa, fac, reaper, thr, registered, history>>

ConnectionStartCompleted(k) ==
    /\ conn[k].callback
    /\ conn' = [conn EXCEPT ![k].callback = FALSE,
                    ![k].state = IF fac.state = "active" /\ @ = "holding" THEN "active" ELSE @]
    /\ UNCHANGED <<oa, fac, reaper, thr, registered, history>>

DispatchBegin(k) ==
    /\ conn[k].state = "active" /\ ~conn[k].dispatch
    /\ conn' = [conn EXCEPT ![k].dispatch = TRUE]
    /\ UNCHANGED <<oa, fac, reaper, thr, registered, history>>

DispatchEnd(k) ==
    /\ conn[k].dispatch
    /\ conn' = [conn EXCEPT ![k].dispatch = FALSE]
    /\ reaper' = IF conn[k].state = "finished" THEN reaper \cup {k} ELSE reaper
    /\ UNCHANGED <<oa, fac, thr, registered, history>>

\* The connection fails, or the peer closes it; it is finished later.
ConnectionCloses(k) ==
    /\ conn[k].state \in {"starting", "active", "holding"}
    /\ conn' = [conn EXCEPT ![k].state = "closing"]
    /\ UNCHANGED <<oa, fac, reaper, thr, registered, history>>

ConnectionFinishes(k) ==
    /\ conn[k].state = "closing"
    /\ conn' = [conn EXCEPT ![k].state = "finished"]
    /\ reaper' = IF conn[k].dispatch THEN reaper ELSE reaper \cup {k}
    /\ UNCHANGED <<oa, fac, thr, registered, history>>

-----------------------------------------------------------------------------
\* Steps that a thread makes once it is in a call, and those that begin one.
ThreadStep(t) ==
    \/ ActivateEnd(t) \/ WaitHoldingFactory(t) \/ WaitHoldingConnection(t) \/ WaitForHoldEnd(t)
    \/ WaitForHoldRetry(t) \/ DeactivateWaited(t) \/ Unregister(t) \/ DeactivateFactory(t)
    \/ WaitDeactivated(t) \/ WaitFinishedFactory(t) \/ WaitFinishedConnections(t)
    \/ WaitReap(t) \/ DestroyEnd(t) \/ DirectEnd(t)
Calling(t) ==
    \/ Activate(t) \/ Hold(t) \/ WaitForHold(t) \/ Deactivate(t) \/ WaitForDeactivate(t)
    \/ Destroy(t) \/ DirectBegin(t)
ConnectionStep(k) == ConnectionStartCompleted(k) \/ DispatchEnd(k) \/ ConnectionFinishes(k)

Next ==
    \/ \E t \in Threads : Calling(t) \/ ThreadStep(t)
    \/ FactoryFinished
    \/ \E k \in Connections :
           Accept(k) \/ Start(k) \/ DispatchBegin(k) \/ ConnectionCloses(k) \/ ConnectionStep(k)

Spec == Init /\ [][Next]_vars

\* Threads run, dispatches end, and closed connections and factories are finished.
Fairness ==
    /\ \A t \in Threads : WF_vars(ThreadStep(t) \/ (thr[t].at # "idle" /\ Calling(t)))
    /\ WF_vars(FactoryFinished)
    /\ \A k \in Connections : WF_vars(ConnectionStep(k)) /\ WF_vars(Start(k))

FairSpec == Spec /\ Fairness

-----------------------------------------------------------------------------
(* Properties *)

\* While a request is dispatched, through a connection or collocated, the servants and
\* their locators are there: destroy() waits for all of them although connections come,
\* finish and are reaped meanwhile.
ServantsAlive ==
    (oa.directCount > 0 \/ \E k \in Connections : conn[k].dispatch) => oa.servants

\* The connections of an active factory are active, of a holding one they are not; also
\* when the factory changed its state while a connection was accepted but not started.
FollowsFactory ==
    \A k \in fac.conns :
        /\ conn[k].state = "active" => fac.state = "active"
        /\ conn[k].state = "holding" /\ ~conn[k].callback => fac.state # "active"

\* waitForHold() returns, if nobody activated the adapter since it (last) started, only
\* when every connection is held and dispatches nothing.
HoldIsComplete ==
    [][\A t \in Threads :
          (thr[t].at = "holdConns" /\ thr'[t].at = "idle" /\ thr[t].since = activations
             /\ activations < 2) =>
                \A k \in fac.conns : conn[k].state # "active" /\ ~conn[k].dispatch]_vars

\* The assertion of waitUntilFinished(): the reaper holds exactly the connections of the
\* factory when all of them are finished.
ReaperComplete == \A t \in Threads : thr[t].at = "waitReap" => reaper = fac.conns

\* deactivate() followed by waitForDeactivate() or destroy() ends, whatever the others do,
\* except for a thread that deactivated the adapter a second time.
WaitsEnd ==
    \A t \in Threads :
        (thr[t].at = "wait" /\ oa.deactivated) ~> (thr[t].at = "idle" \/ deactivated2)

\* The assertion of activate(): "Not possible if _waitForActivate = true".
NotDeactivatedMeanwhile == \A t \in Threads : thr[t].at = "register" => ~oa.deactivated

\* "Ignore deactivation requests if the object adapter has already been deactivated."
DeactivatedOnce == ~deactivated2
=============================================================================
