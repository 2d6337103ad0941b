-------------------------- MODULE OutgoingFactory --------------------------
(***************************************************************************)
(* IceInternal::OutgoingConnectionFactory                                  *)
(* (cpp/src/Ice/ConnectionFactory.cpp): callers share connections.  The    *)
(* first caller that wants a connector becomes responsible for it and      *)
(* tries its connectors one after the other; the others wait, in the       *)
(* monitor (blocking callers) or as callbacks in the lists of _pending     *)
(* (asynchronous ones), until it is done.                                  *)
(*                                                                         *)
(* An action is one critical section of the factory's monitor, or one step *)
(* made without it.  An endpoint has one connector, and the order in which *)
(* connectors are tried is left open, as it depends on the endpoint        *)
(* selection.  A connection is named by the caller that creates it and its *)
(* connector; all that matters of it here is whether it is starting, up    *)
(* (active or holding), closing or finished (see Connection for the rest). *)
(***************************************************************************)
EXTENDS Naturals, FiniteSets

CONSTANTS
    Callers,      \* the calls of create()
    Sync,         \* those that block
    Connectors,
    Endpoints,    \* Endpoints[c]: the connectors of the endpoints c asks for
    None

ASSUME FactoryAssumption ==
    /\ IsFiniteSet(Callers)
    /\ Sync \subseteq Callers
    /\ Endpoints \in [Callers -> (SUBSET Connectors) \ {{}}]
    /\ None \notin Connectors

VARIABLES
    destroyed,      \* _destroyed
    pending,        \* _pending: a map from connectors to sets of callbacks
    pendingCount,   \* _pendingConnectCount
    connections,    \* _connections
    reaper,         \* the connections that the reaper holds
    conn,           \* conn[x]: the state of connection x
    interrupted,    \* the connections that were closed by destroy()
    at,             \* at[c]: where the call of c is
    connectors,     \* connectors[c]: _connectors, those that c can still use
    left,           \* left[c]: those that c, when responsible, has not yet tried
    iter,           \* iter[c]: the connector that c tries
    answer,         \* answer[c]: what c is, or will be, told
    given,          \* given[c]: the connection that goes with it
    failed,         \* the connectors to which a connection failed
    waiter          \* where the call of waitUntilFinished() is

vars == <<destroyed, pending, pendingCount, connections, reaper, conn, interrupted, at,
          connectors, left, iter, answer, given, failed, waiter>>

Connections == Callers \X Connectors

\* A call looks for a connection, counts itself (if asynchronous), resolves its
\* endpoints, and asks for a connection of its connectors.  It waits for other
\* callers in the monitor or in a list, or connects, starts connections, and
\* finishes with or without one.  The callback of an asynchronous call is set.
Places == {"idle", "count", "resolve", "get", "waiting", "awake", "listed", "connect",
           "start", "connected", "failed", "set", "done"}

TypeOK ==
    /\ destroyed \in BOOLEAN
    /\ DOMAIN pending \subseteq Connectors
    /\ \A k \in DOMAIN pending : pending[k] \subseteq Callers \ Sync
    /\ pendingCount \in Nat
    /\ connections \subseteq Connections
    /\ reaper \subseteq Connections
    /\ conn \in [Connections -> {"none", "starting", "up", "closing", "finished"}]
    /\ interrupted \subseteq Connections
    /\ at \in [Callers -> Places]
    /\ connectors \in [Callers -> SUBSET Connectors]
    /\ left \in [Callers -> SUBSET Connectors]
    /\ iter \in [Callers -> Connectors \cup {None}]
    /\ answer \in [Callers -> {"none", "connection", "failed", "destroyed"}]
    /\ given \in [Callers -> SUBSET Connections]
    /\ failed \subseteq Connectors
    /\ waiter \in {"idle", "waiting", "awake", "connections", "done"}

Init ==
    /\ destroyed = FALSE
    /\ pending = [k \in {} |-> {}]
    /\ pendingCount = 0
    /\ connections = {} /\ reaper = {}
    /\ conn = [x \in Connections |-> "none"]
    /\ interrupted = {}
    /\ at = [c \in Callers |-> "idle"]
    /\ connectors = [c \in Callers |-> {}]
    /\ left = [c \in Callers |-> {}]
    /\ iter = [c \in Callers |-> None]
    /\ answer = [c \in Callers |-> "none"]
    /\ given = [c \in Callers |-> {}]
    /\ failed = {}
    /\ waiter = "idle"

-----------------------------------------------------------------------------
(* Looking for a connection.                                               *)

\* find(): the connections to these connectors that are active or holding.
Usable(ks) == {x \in connections : x[2] \in ks /\ conn[x] = "up"}

\* What a call is told: an asynchronous one when its callback is set.
Told(c) == IF c \in Sync THEN "done" ELSE "set"

\* c gets a connection, or an exception, and is at the given place then.
Give(c, x, place) ==
    /\ at' = [at EXCEPT ![c] = place]
    /\ answer' = [answer EXCEPT ![c] = "connection"]
    /\ given' = [given EXCEPT ![c] = {x}]

Throw(c, ex, place) ==
    /\ at' = [at EXCEPT ![c] = place]
    /\ answer' = [answer EXCEPT ![c] = ex]
    /\ UNCHANGED given

\* create(), with findConnection() of the endpoints.
Create(c) ==
    /\ at[c] = "idle"
    /\ \/ destroyed /\ Throw(c, "destroyed", "done")
       \/ ~destroyed /\ \E x \in Usable(Endpoints[c]) : Give(c, x, "done")
       \/ /\ ~destroyed /\ Usable(Endpoints[c]) = {}
          /\ at' = [at EXCEPT ![c] = IF c \in Sync THEN "resolve" ELSE "count"]
          /\ UNCHANGED <<answer, given>>
    /\ UNCHANGED <<destroyed, pending, pendingCount, connections, reaper, conn,
                   interrupted, connectors, left, iter, failed, waiter>>

IncPendingConnectCount(c) ==
    /\ at[c] = "count"
    /\ \/ destroyed /\ Throw(c, "destroyed", "done") /\ UNCHANGED pendingCount
       \/ /\ ~destroyed
          /\ pendingCount' = pendingCount + 1
          /\ at' = [at EXCEPT ![c] = "resolve"]
          /\ UNCHANGED <<answer, given>>
    /\ UNCHANGED <<destroyed, pending, connections, reaper, conn, interrupted,
                   connectors, left, iter, failed, waiter>>

\* connectors() of the endpoints: each of them may fail.
Resolve(c) ==
    /\ at[c] = "resolve"
    /\ \E ks \in SUBSET Endpoints[c] :
        /\ connectors' = [connectors EXCEPT ![c] = ks]
        /\ failed' = failed \cup (Endpoints[c] \ ks)
        /\ IF ks = {} THEN Throw(c, "failed", Told(c))
           ELSE at' = [at EXCEPT ![c] = "get"] /\ UNCHANGED <<answer, given>>
    /\ UNCHANGED <<destroyed, pending, pendingCount, connections, reaper, conn,
                   interrupted, left, iter, waiter>>

\* Mutant of AddToPending: only one of the connectors becomes pending.
AddToPendingFirst(c) ==
    LET busy == connectors[c] \cap DOMAIN pending IN
    \/ /\ busy # {}
       /\ at' = [at EXCEPT ![c] = IF c \in Sync THEN "waiting" ELSE "listed"]
       /\ pending' = [k \in DOMAIN pending |->
                        IF k \in busy /\ c \notin Sync THEN pending[k] \cup {c}
                        ELSE pending[k]]
       /\ UNCHANGED left
    \/ /\ busy = {}
       /\ at' = [at EXCEPT ![c] = "connect"]
       /\ \E first \in connectors[c] :
            pending' = [k \in DOMAIN pending \cup {first} |->
                          IF k \in DOMAIN pending THEN pending[k] ELSE {}]
       /\ left' = [left EXCEPT ![c] = connectors[c]]

\* addToPending(): c waits for the callers that are responsible for one of its
\* connectors, or becomes responsible for all of them.
AddToPending(c) ==
    LET busy == connectors[c] \cap DOMAIN pending IN
    \/ /\ busy # {}
       /\ at' = [at EXCEPT ![c] = IF c \in Sync THEN "waiting" ELSE "listed"]
       /\ pending' = [k \in DOMAIN pending |->
                        IF k \in busy /\ c \notin Sync THEN pending[k] \cup {c}
                        ELSE pending[k]]
       /\ UNCHANGED left
    \/ /\ busy = {}
       /\ at' = [at EXCEPT ![c] = "connect"]
       /\ pending' = [k \in DOMAIN pending \cup connectors[c] |->
                        IF k \in DOMAIN pending THEN pending[k] ELSE {}]
       /\ left' = [left EXCEPT ![c] = connectors[c]]

\* The body of getConnection()'s loop.
Loop(c) ==
    LET usable == Usable(connectors[c] \ DOMAIN pending) IN
    \/ destroyed /\ Throw(c, "destroyed", Told(c)) /\ UNCHANGED <<pending, left>>
    \/ /\ ~destroyed
       /\ \E x \in usable : Give(c, x, Told(c))
       /\ UNCHANGED <<pending, left>>
    \/ /\ ~destroyed /\ usable = {}
       /\ AddToPending(c)
       /\ UNCHANGED <<answer, given>>

\* getConnection(), which first removes the connections that are finished.
GetConnection(c) ==
    /\ at[c] = "get"
    /\ Loop(c)
    /\ connections' = IF destroyed THEN connections ELSE connections \ reaper
    /\ reaper' = IF destroyed THEN reaper ELSE {}
    /\ UNCHANGED <<destroyed, pendingCount, conn, interrupted, connectors, iter, failed,
                   waiter>>

\* A blocking caller was notified.
Wake(c) ==
    /\ at[c] = "awake"
    /\ Loop(c)
    /\ UNCHANGED <<destroyed, pendingCount, connections, reaper, conn, interrupted,
                   connectors, iter, failed, waiter>>

-----------------------------------------------------------------------------
(* Establishing a connection.                                              *)

\* The connection to connector k failed: c tries the next one, if there is one.
TryNext(c, k) ==
    /\ failed' = failed \cup {k}
    /\ IF left'[c] = {} THEN Throw(c, "failed", "failed")
       ELSE at' = [at EXCEPT ![c] = "connect"] /\ UNCHANGED <<answer, given>>

\* nextConnector() with createConnection(): the connection is in the factory's map
\* before it is started, so that destroy() finds it.
NextConnector(c) ==
    /\ at[c] = "connect"
    /\ \E k \in left[c] :
        /\ iter' = [iter EXCEPT ![c] = k]
        /\ left' = [left EXCEPT ![c] = @ \ {k}]
        /\ \/ TryNext(c, k) /\ UNCHANGED <<connections, conn>>
           \/ /\ destroyed
              /\ Throw(c, "destroyed", "failed")
              /\ UNCHANGED <<connections, conn, failed>>
           \/ /\ ~destroyed
              /\ connections' = connections \cup {<<c, k>>}
              /\ conn' = [conn EXCEPT ![<<c, k>>] = "starting"]
              /\ at' = [at EXCEPT ![c] = "start"]
              /\ UNCHANGED <<answer, given, failed>>
    /\ UNCHANGED <<destroyed, pending, pendingCount, reaper, interrupted, connectors,
                   waiter>>

\* The connection that c starts.
Mine(c) == <<c, iter[c]>>

\* The connection is validated.  A blocking caller has to wake up to see it.
Validated(c) ==
    /\ at[c] = "start"
    /\ conn[Mine(c)] = "starting"
    /\ conn' = [conn EXCEPT ![Mine(c)] = "up"]
    /\ at' = IF c \in Sync THEN at ELSE [at EXCEPT ![c] = "connected"]
    /\ UNCHANGED <<destroyed, pending, pendingCount, connections, reaper, interrupted,
                   connectors, left, iter, answer, given, failed, waiter>>

Started(c) ==
    /\ at[c] = "start" /\ c \in Sync
    /\ conn[Mine(c)] = "up"
    /\ at' = [at EXCEPT ![c] = "connected"]
    /\ UNCHANGED <<destroyed, pending, pendingCount, connections, reaper, conn,
                   interrupted, connectors, left, iter, answer, given, failed, waiter>>

\* connectionStartFailed(), or the exception that start() throws once the
\* connection is finished.
StartFailed(c) ==
    /\ at[c] = "start"
    /\ conn[Mine(c)] \in IF c \in Sync THEN {"finished"} ELSE {"closing", "finished"}
    /\ \/ /\ Mine(c) \in interrupted
          /\ Throw(c, "destroyed", "failed")
          /\ UNCHANGED <<failed, left>>
       \/ /\ Mine(c) \notin interrupted
          /\ UNCHANGED left
          /\ TryNext(c, iter[c])
    /\ UNCHANGED <<destroyed, pending, pendingCount, connections, reaper, conn,
                   interrupted, connectors, iter, waiter>>

-----------------------------------------------------------------------------
(* The end of an establishment.                                            *)

\* The callbacks in the lists of these connectors.
Listed(ks) == UNION {pending[k] : k \in ks \cap DOMAIN pending}

\* notifyAll() wakes the blocking callers and waitUntilFinished().  The mutant
\* does not wake callers.
NotifiedNever(c) == at[c]
Notified(c) == IF at[c] = "waiting" THEN "awake" ELSE at[c]
NotifyWaiter == waiter' = IF waiter = "waiting" THEN "awake" ELSE waiter

\* finishGetConnection() with a connection: callbacks that can use it get it, the
\* others have to ask again.
FinishConnected(c) ==
    LET all  == Listed(connectors[c])
        with == {d \in all : iter[c] \in connectors[d]}
    IN
    /\ at[c] = "connected"
    /\ pending' = [k \in DOMAIN pending \ connectors[c] |-> pending[k] \ all]
    /\ at' = [d \in Callers |->
                IF d = c THEN Told(c) ELSE IF d \in with THEN "set"
                ELSE IF d \in all THEN "get" ELSE Notified(d)]
    /\ answer' = [d \in Callers |-> IF d \in with \cup {c} THEN "connection" ELSE answer[d]]
    /\ given' = [d \in Callers |-> IF d \in with \cup {c} THEN {Mine(c)} ELSE given[d]]
    /\ NotifyWaiter
    /\ UNCHANGED <<destroyed, pendingCount, connections, reaper, conn, interrupted,
                   connectors, left, iter, failed>>

\* Mutant of FinishFailed: callbacks with other connectors fail too.
FinishFailedAll(c) ==
    LET all  == Listed(connectors[c])
    IN
    /\ at[c] = "failed"
    /\ pending' = [k \in DOMAIN pending \ connectors[c] |-> pending[k] \ all]
    /\ at' = [d \in Callers |->
                IF d = c THEN Told(c) ELSE IF d \in all THEN "set" ELSE Notified(d)]
    /\ answer' = [d \in Callers |-> IF d \in all THEN answer[c] ELSE answer[d]]
    /\ NotifyWaiter
    /\ UNCHANGED <<destroyed, pendingCount, connections, reaper, conn, interrupted,
                   connectors, left, iter, given, failed>>

\* finishGetConnection() with an exception: callbacks that wanted no other
\* connectors fail too, the others go on with those that they have left.
FinishFailed(c) ==
    LET all  == Listed(connectors[c])
        with == {d \in all : connectors[d] \subseteq connectors[c]}
    IN
    /\ at[c] = "failed"
    /\ connectors' = [d \in Callers |->
                        IF d \in all THEN connectors[d] \ connectors[c] ELSE connectors[d]]
    /\ pending' = [k \in DOMAIN pending \ connectors[c] |-> pending[k] \ (all \ with)]
    /\ at' = [d \in Callers |->
                IF d = c THEN Told(c) ELSE IF d \in with THEN "set"
                ELSE IF d \in all THEN "get" ELSE Notified(d)]
    /\ answer' = [d \in Callers |-> IF d \in with THEN answer[c] ELSE answer[d]]
    /\ NotifyWaiter
    /\ UNCHANGED <<destroyed, pendingCount, connections, reaper, conn, interrupted,
                   left, iter, given, failed>>

\* The callback is called, then decPendingConnectCount().
SetResult(c) ==
    /\ at[c] = "set"
    /\ pendingCount' = pendingCount - 1
    /\ IF destroyed /\ pendingCount' = 0
       THEN /\ at' = [d \in Callers |-> IF d = c THEN "done" ELSE Notified(d)]
            /\ NotifyWaiter
       ELSE at' = [at EXCEPT ![c] = "done"] /\ UNCHANGED waiter
    /\ UNCHANGED <<destroyed, pending, connections, reaper, conn, interrupted,
                   connectors, left, iter, answer, given, failed>>

-----------------------------------------------------------------------------
(* Connections, and the end of the factory.                                *)

ConnectionFails(x) ==
    /\ conn[x] \in {"starting", "up"}
    /\ conn' = [conn EXCEPT ![x] = "closing"]
    /\ UNCHANGED <<destroyed, pending, pendingCount, connections, reaper, interrupted, at,
                   connectors, left, iter, answer, given, failed, waiter>>

ConnectionFinished(x) ==
    /\ conn[x] = "closing"
    /\ conn' = [conn EXCEPT ![x] = "finished"]
    /\ reaper' = reaper \cup {x}
    /\ UNCHANGED <<destroyed, pending, pendingCount, connections, interrupted, at,
                   connectors, left, iter, answer, given, failed, waiter>>

\* destroy() closes every connection, also those that are starting.
Destroy ==
    LET open == {x \in connections : conn[x] \in {"starting", "up"}} IN
    /\ ~destroyed
    /\ destroyed' = TRUE
    /\ conn' = [x \in Connections |-> IF x \in open THEN "closing" ELSE conn[x]]
    /\ interrupted' = interrupted \cup open
    /\ at' = [c \in Callers |-> Notified(c)]
    /\ NotifyWaiter
    /\ UNCHANGED <<pending, pendingCount, connections, reaper, connectors, left, iter,
                   answer, given, failed>>

\* waitUntilFinished() waits until nobody can add a connection any more.
Quiet == destroyed /\ DOMAIN pending = {} /\ pendingCount = 0

WaitUntilQuiet ==
    /\ waiter \in {"idle", "awake"}
    /\ waiter' = IF Quiet THEN "connections" ELSE "waiting"
    /\ UNCHANGED <<destroyed, pending, pendingCount, connections, reaper, conn,
                   interrupted, at, connectors, left, iter, answer, given, failed>>

\* Then it waits for the connections, and forgets them.
WaitForConnections ==
    /\ waiter = "connections"
    /\ \A x \in connections : conn[x] = "finished"
    /\ waiter' = "done"
    /\ connections' = {} /\ reaper' = {}
    /\ UNCHANGED <<destroyed, pending, pendingCount, conn, interrupted, at, connectors,
                   left, iter, answer, given, failed>>

-----------------------------------------------------------------------------

Step(c) ==
    \/ IncPendingConnectCount(c) \/ Resolve(c) \/ GetConnection(c) \/ Wake(c)
    \/ NextConnector(c) \/ Started(c) \/ StartFailed(c)
    \/ FinishConnected(c) \/ FinishFailed(c) \/ SetResult(c)

Next ==
    \/ \E c \in Callers : Create(c) \/ Step(c) \/ Validated(c)
    \/ \E x \in Connections : ConnectionFails(x) \/ ConnectionFinished(x)
    \/ Destroy \/ WaitUntilQuiet \/ WaitForConnections

\* Callers go on, an attempt to connect ends one way or the other (the endpoint's
\* or the system's timeout), and a closing connection is finished.
Fairness ==
    /\ \A c \in Callers :
        /\ WF_vars(Step(c))
        /\ WF_vars(Validated(c) \/ \E k \in Connectors : k = iter[c] /\ ConnectionFails(<<c, k>>))
    /\ \A x \in Connections : WF_vars(ConnectionFinished(x))
    /\ WF_vars(WaitUntilQuiet) /\ WF_vars(WaitForConnections)

Spec == Init /\ [][Next]_vars
FairSpec == Spec /\ Fairness

-----------------------------------------------------------------------------

\* The callers that are responsible for their connectors.
Responsible == {c \in Callers : at[c] \in {"connect", "start", "connected", "failed"}}

\* Every pending connector has one caller that is responsible for it, and a
\* responsible caller has all of its connectors pending.
OneResponsible ==
    /\ DOMAIN pending = UNION {connectors[c] : c \in Responsible}
    /\ \A c, d \in Responsible : c # d => connectors[c] \cap connectors[d] = {}

\* Connections are shared: there are never two usable connections, or attempts, to
\* one connector.
OnePerConnector ==
    \A x, y \in connections :
        (x[2] = y[2] /\ conn[x] \in {"starting", "up"} /\ conn[y] \in {"starting", "up"})
            => x = y

\* No caller is forgotten: one that waits in the monitor wants a connector that is
\* pending, and a callback that waits is in a list.  Lists hold no other callbacks,
\* so that no callback is called twice.
NoneForgotten ==
    \A c \in Callers :
        /\ at[c] = "waiting" => ~destroyed /\ connectors[c] \cap DOMAIN pending # {}
        /\ at[c] = "listed" => \E k \in DOMAIN pending : c \in pending[k]
        /\ \A k \in DOMAIN pending :
            c \in pending[k] => at[c] = "listed" /\ k \in connectors[c]

\* _pendingConnectCount counts the asynchronous calls whose callback was not yet
\* called.
CountExact ==
    pendingCount =
        Cardinality({c \in Callers \ Sync : at[c] \notin {"idle", "count", "done"}})

\* What a caller is told is true: its connection is one to its own endpoints, and
\* it fails only if every one of its endpoints failed, or after destroy().
HonestAnswers ==
    \A c \in Callers :
        /\ answer[c] = "connection" => \A x \in given[c] : x[2] \in Endpoints[c]
        /\ answer[c] = "failed" /\ at[c] \in {"set", "done"} => Endpoints[c] \subseteq failed
        /\ answer[c] = "destroyed" => destroyed

\* The reaper only has connections of the factory (the assertions of remove()).
\* When waitUntilFinished() has waited for the connections, it has all of them (its
\* assertion), and afterwards the factory stays empty (the assertions of its
\* destructor).
FinishedIsEmpty ==
    /\ reaper \subseteq connections
    /\ waiter = "connections" /\ (\A x \in connections : conn[x] = "finished")
        => reaper = connections
    /\ waiter \in {"connections", "done"} =>
        destroyed /\ DOMAIN pending = {} /\ pendingCount = 0
    /\ waiter = "done" => connections = {} /\ reaper = {}

\* For every connector with callers there is one who is responsible for it, there is one
\* connection, nobody who waits is forgotten and the pending calls are counted.
FactoryExact == TypeOK /\ OneResponsible /\ OnePerConnector /\ NoneForgotten /\ CountExact

\* Whoever is told of a connection or of a failure, and whoever waits for the end, is told
\* the truth.
FactoryHonest == HonestAnswers /\ FinishedIsEmpty

\* Every call of create() is answered.
Answered == \A c \in Callers : (at[c] # "idle") ~> (at[c] = "done")

\* waitUntilFinished() returns after destroy().
DestroyFinishes == (destroyed /\ waiter # "idle") ~> (waiter = "done")

=============================================================================
