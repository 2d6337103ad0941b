----------------------------- MODULE MCBinding -----------------------------
(***************************************************************************)
(* Model-checking instances of three components that stand between a proxy *)
(* and its connection: ConnectRequestHandler, Router and SessionHelper.    *)
(* They share no state; part names the one whose instance a behaviour      *)
(* belongs to, and the variables of the others keep their initial values.  *)
(***************************************************************************)
EXTENDS Naturals, Sequences, FiniteSets

CONSTANTS
    Async, Sync, Batch, AutoFlush, MaxBatch,   \* of ConnectRequestHandler
    Proxies, Users, Capacity, MaxRouterLoss    \* of Router

\* A call is of one kind.
ASSUME HandlerAssumption ==
    /\ Async \cap Sync = {} /\ Async \cap Batch = {} /\ Sync \cap Batch = {}
    /\ AutoFlush \in BOOLEAN /\ MaxBatch \in Nat

\* There are proxies, and finitely many threads that use them.
ASSUME RouterAssumption ==
    Proxies # {} /\ IsFiniteSet(Users) /\ Capacity \in Nat /\ MaxRouterLoss \in Nat

VARIABLES
    part,
    h, main, est, caller, lent, replaced, failItem, up, accepted, entered, told,
    identities, evicted, routes, user, losses, overlapped,
    helper, communicator, connector, destroyer, refresher, failure, queue, atRouter,
    callbacks, threw

H == INSTANCE ConnectRequestHandler
R == INSTANCE Router
S == INSTANCE SessionHelper

handlerVars ==
    <<h, main, est, caller, lent, replaced, failItem, up, accepted, entered, told>>
routerVars == <<identities, evicted, routes, user, losses, overlapped>>
sessionVars == <<helper, communicator, connector, destroyer, refresher, failure, queue,
                 atRouter, callbacks, threw>>
vars == <<part, handlerVars, routerVars, sessionVars>>

Init ==
    /\ part \in {"handler", "router", "session"}
    /\ H!Init /\ R!Init /\ S!Init
    /\ part # "session" => ~helper.dispatcher

Next ==
    /\ \/ part = "handler" /\ H!Next /\ UNCHANGED <<routerVars, sessionVars>>
       \/ part = "router" /\ R!Next /\ UNCHANGED <<handlerVars, sessionVars>>
       \/ part = "session" /\ S!Next /\ UNCHANGED <<handlerVars, routerVars>>
    /\ UNCHANGED part

\* The fairness of the component that runs.
Fairness ==
    \/ part = "handler" /\ H!Fairness
    \/ part = "router" /\ R!Fairness
    \/ part = "session" /\ S!Fairness

Spec == Init /\ [][Next]_vars /\ Fairness

\* ConnectRequestHandler: requests reach the connection in the order in which the handler
\* took them, each of them once, the proxy stops using the handler, and the assertions on
\* the batch stream hold.
HandlerExact ==
    H!TypeOK /\ H!OrderKept /\ H!QueuedOnce /\ H!HandlerReplaced /\ H!LentOnce

\* ConnectRequestHandler: whoever calls it gets an answer and its queue empties.
HandlerAnswers == part = "handler" => H!CallsReturn /\ H!QueueDrains

\* RouterInfo: the record of the router's proxies is exact whenever nothing is under way.
RouterExact == R!RTypeOK /\ R!RecordExact

\* RouterInfo: a wrong record heals.
RouterHeals == part = "router" => R!SomeoneGetsThrough

\* SessionHelperI: one end is reported, when it has come, with a dispatcher or without.
SessionExact == S!TypeOK /\ S!OneEnd

\* SessionHelperI: destroy() ends the session in whatever phase it comes.
SessionEnds == part = "session" => S!SessionEnds
=============================================================================
