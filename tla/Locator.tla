------------------------------ MODULE Locator ------------------------------
(***************************************************************************)
(* IceInternal::LocatorInfo, its LocatorTable and Requests                 *)
(* (cpp/src/Ice/LocatorInfo.cpp), with the part of RoutableReference that  *)
(* uses them to establish a connection (Reference.cpp): an indirect proxy  *)
(* is resolved through a cache, or by a request to the locator that        *)
(* several callers share; a connection to cached endpoints that fails      *)
(* clears the cache and asks once more.                                    *)
(*                                                                         *)
(* A proxy names an adapter or a well-known object.  The locator (external)*)
(* knows the endpoint of an adapter, and of an object an adapter or an     *)
(* endpoint.  Servers move between endpoints and objects between adapters. *)
(* An action is one critical section of the table, the info or a request.  *)
(* response() and exception() of a request are one: other threads that     *)
(* hold the request wait for its lock.                                     *)
(***************************************************************************)
EXTENDS Naturals, Sequences, FiniteSets

CONSTANTS
    Adapters, Objects, Endpoints,
    Clients,       \* threads and callbacks that establish a connection
    Target,        \* Target[c]: the adapter or object of the proxy of c
    Blocking,      \* the clients that wait in Request::getEndpoints()
    Ttl,           \* _locatorCacheTimeout: "none", "finite" or "infinite"
    MaxFaults,     \* bound on moves and failed calls of the locator
    MaxRequests,   \* bound on the requests that exist at a time
    None, Null, Failed   \* answers: not registered, a null proxy, the call failed

VARIABLES
    background,    \* _background: Ice.BackgroundLocatorCacheUpdates, fixed once created
    place,         \* place[a]: the endpoint of adapter a, None if not registered
    home,          \* home[o]: where object o is: an adapter, an endpoint or None
    faults,        \* moves and failures so far
    adapterTable,  \* _adapterEndpointsMap
    objectTable,   \* _objectMap
    current,       \* _adapterRequests and _objectRequests
    reqs,          \* reqs[i]: the requests that somebody holds
    client         \* what each client knows

world == <<background, place, home, faults>>
table == <<adapterTable, objectTable>>
vars == <<world, table, current, reqs, client>>

Keys == Adapters \cup Objects
Homes == Adapters \cup Endpoints \cup {None}
NoEntry == [ref |-> None, fresh |-> FALSE]
Entry(ref) == [ref |-> ref, fresh |-> TRUE]
NoRequest == [key |-> None, sent |-> FALSE, state |-> "exception", answer |-> None,
              callbacks |-> {}, wellKnown |-> {}]

\* Where the server of a proxy is now, None if there is none.
Now(key) ==
    IF key \in Adapters THEN place[key]
    ELSE IF home[key] \in Adapters THEN place[home[key]] ELSE home[key]

\* What the locator answers now.
Registered(key) == IF key \in Adapters THEN place[key] ELSE home[key]

TypeOK ==
    /\ background \in BOOLEAN
    /\ place \in [Adapters -> Endpoints \cup {None}] /\ home \in [Objects -> Homes]
    /\ faults \in 0 .. MaxFaults
    /\ adapterTable \in [Adapters -> [ref : Endpoints \cup {None}, fresh : BOOLEAN]]
    /\ objectTable \in [Objects -> [ref : Homes, fresh : BOOLEAN]]
    /\ current \in [Keys -> 0 .. MaxRequests]
    /\ reqs \in [1 .. MaxRequests ->
                    [key : Keys \cup {None}, sent : BOOLEAN,
                     state : {"pending", "served", "cached", "response", "exception"},
                     answer : Homes \cup {Null, Failed},
                     callbacks : SUBSET Clients, wellKnown : SUBSET Objects]]
    /\ client \in [Clients -> [at : {"idle", "lookup", "request", "add", "waiting", "connect",
                                     "retry", "ok", "failed"},
                               key : Keys, wellKnown : Objects \cup {None}, req : Nat,
                               endpoint : Endpoints \cup {None}, cached : BOOLEAN,
                               tries : 0 .. 2, excused : BOOLEAN]]

\* The cache may hold what the locator answered earlier.
Init ==
    /\ background \in BOOLEAN
    /\ place \in [Adapters -> Endpoints \cup {None}]
    /\ home \in [Objects -> Adapters \cup Endpoints]
    /\ faults = 0
    /\ adapterTable \in [Adapters -> {Entry(e) : e \in Endpoints} \cup {NoEntry}]
    /\ objectTable \in [Objects -> {Entry(e) : e \in Adapters \cup Endpoints} \cup {NoEntry}]
    /\ current = [k \in Keys |-> 0]
    /\ reqs = [i \in 1 .. MaxRequests |-> NoRequest]
    /\ client = [c \in Clients |-> [at |-> "idle", key |-> Target[c], wellKnown |-> None,
                                    req |-> 0, endpoint |-> None, cached |-> FALSE,
                                    tries |-> 0, excused |-> FALSE]]

-----------------------------------------------------------------------------
(* The outside world *)

Excused == [c \in Clients |->
    IF client[c].at \in {"idle", "ok", "failed"} THEN client[c]
    ELSE [client[c] EXCEPT !.excused = TRUE]]

Move ==
    /\ faults < MaxFaults
    /\ faults' = faults + 1
    /\ \/ \E a \in Adapters, e \in Endpoints \cup {None} :
              place' = [place EXCEPT ![a] = e] /\ UNCHANGED home
       \/ \E o \in Objects, a \in Adapters :
              home' = [home EXCEPT ![o] = a] /\ UNCHANGED place
    /\ client' = Excused
    /\ UNCHANGED <<background, table, current, reqs>>

\* The locator reads its registry; or the call fails, or it answers with a null proxy
\* (a server that is registered but does not run).
LocatorServes(i) ==
    /\ reqs[i].sent /\ reqs[i].state = "pending"
    /\ \/ /\ reqs' = [reqs EXCEPT ![i].state = "served", ![i].answer = Registered(reqs[i].key)]
          /\ UNCHANGED <<faults, client>>
       \/ /\ faults < MaxFaults
          /\ faults' = faults + 1
          /\ \E a \in {Null, Failed} :
                reqs' = [reqs EXCEPT ![i].state = "served", ![i].answer = a]
          /\ client' = Excused
    /\ UNCHANGED <<background, place, home, table, current>>

\* A finite time-out of the cache passes: checkTTL()
Expire ==
    /\ Ttl = "finite"
    /\ \/ \E a \in Adapters :
              /\ adapterTable[a].fresh
              /\ adapterTable' = [adapterTable EXCEPT ![a].fresh = FALSE]
              /\ UNCHANGED objectTable
       \/ \E o \in Objects :
              /\ objectTable[o].fresh
              /\ objectTable' = [objectTable EXCEPT ![o].fresh = FALSE]
              /\ UNCHANGED adapterTable
    /\ UNCHANGED <<world, current, reqs, client>>

-----------------------------------------------------------------------------
(* Clients *)

\* A client that begins while an answer is on its way that is no longer true, or no
\* server is there, may have to fail.
Begin(c) ==
    /\ client[c].at = "idle"
    /\ client' = [client EXCEPT ![c].at = "lookup", ![c].tries = 1,
                      ![c].excused = \/ Now(Target[c]) = None
                                     \/ \E i \in DOMAIN reqs :
                                            /\ reqs[i].state \in {"served", "cached"}
                                            /\ reqs[i].answer # Registered(reqs[i].key)]
    /\ UNCHANGED <<world, table, current, reqs>>

\* getAdapterEndpoints(), getObjectReference(): hit, or what an expired entry says.
Cached(key) == IF key \in Adapters THEN adapterTable[key] ELSE objectTable[key]
Hit(key) == Ttl # "none" /\ Cached(key).ref # None /\ (Cached(key).fresh \/ Ttl = "infinite")
Stale(key) == Ttl # "none" /\ Cached(key).ref # None /\ ~Hit(key)

\* What a caller does with the reference that it found for its key: it has endpoints,
\* or (for a well-known object) resolves the adapter next.
Resolved(b, ref, cached) ==
    IF ref \in Adapters
    THEN [b EXCEPT !.at = "lookup", !.key = ref, !.wellKnown = b.key]
    ELSE [b EXCEPT !.at = "connect", !.endpoint = ref, !.cached = cached]

\* A request nobody holds any more is deleted: its slot can be used again.
FreeSlot == CHOOSE i \in 1 .. MaxRequests :
    reqs[i] = NoRequest /\ \A j \in 1 .. i - 1 : reqs[j] # NoRequest
Release(i, leaving) ==
    IF \E c \in Clients \ leaving : client[c].req = i /\ client[c].at = "add"
    THEN [reqs[i] EXCEPT !.callbacks = {}] ELSE NoRequest

\* LocatorInfo::getEndpoints(): with background updates an expired entry is used
\* while a request without a callback is made.
NewRequest(key, wellKnown, sent) ==
    /\ \E i \in 1 .. MaxRequests : reqs[i] = NoRequest
    /\ reqs' = [reqs EXCEPT ![FreeSlot] =
                   [key |-> key, sent |-> sent, state |-> "pending", answer |-> None,
                    callbacks |-> {}, wellKnown |-> wellKnown \ {None}]]
    /\ current' = [current EXCEPT ![key] = FreeSlot]

\* The request for a key that is under way, if there is one, takes the well-known object.
JoinRequest(key, wellKnown) ==
    /\ reqs' = [reqs EXCEPT ![current[key]].wellKnown = @ \cup (wellKnown \ {None}),
                            ![current[key]].sent = TRUE]
    /\ UNCHANGED current

Lookup(c) ==
    LET b == client[c] IN
    /\ b.at = "lookup"
    /\ \/ /\ Hit(b.key)
          /\ client' = [client EXCEPT ![c] = Resolved(b, Cached(b.key).ref, TRUE)]
          /\ UNCHANGED <<current, reqs>>
       \/ /\ background /\ Stale(b.key)
          /\ client' = [client EXCEPT ![c] = [Resolved(b, Cached(b.key).ref, TRUE)
                                                  EXCEPT !.excused = TRUE]]
          /\ IF current[b.key] = 0 THEN NewRequest(b.key, {b.wellKnown}, TRUE)
             ELSE JoinRequest(b.key, {b.wellKnown})
       \/ /\ ~Hit(b.key) /\ ~(background /\ Stale(b.key))
          /\ client' = [client EXCEPT ![c].at = "request"]
          /\ UNCHANGED <<current, reqs>>
    /\ UNCHANGED <<world, table>>

\* getAdapterRequest(), getObjectRequest()
GetRequest(c) ==
    LET b == client[c] IN
    /\ b.at = "request"
    /\ IF current[b.key] # 0
       THEN /\ client' = [client EXCEPT ![c].at = "add", ![c].req = current[b.key]]
            /\ UNCHANGED <<current, reqs>>
       ELSE /\ NewRequest(b.key, {}, FALSE)
            /\ client' = [client EXCEPT ![c].at = "add", ![c].req = FreeSlot]
    /\ UNCHANGED <<world, table>>

\* RequestCallback::response() and exception(), and the end of Request::getEndpoints():
\* an empty answer means no endpoints.
Answered(b, answer) ==
    IF answer \in {None, Null, Failed} THEN [b EXCEPT !.at = "retry"]
    ELSE Resolved(b, answer, FALSE)

\* A caller that comes to a request with an answer does not leave its well-known object
\* there: an object whose adapter has no endpoints stays in the cache.
Forgets(b, answer) ==
    b.wellKnown # None /\ answer \notin Endpoints /\ objectTable[b.wellKnown] # NoEntry

\* Mutant of AddCallback: a request that was answered meanwhile is not noticed.
AddCallbackLate(c) ==
    LET b == client[c] IN
    /\ b.at = "add" /\ reqs[b.req].state # "cached"
    /\ client' = [client EXCEPT ![c].at = "waiting"]
    /\ reqs' = [reqs EXCEPT ![b.req].callbacks = @ \cup ({c} \ Blocking),
                            ![b.req].wellKnown = @ \cup ({b.wellKnown} \ {None}),
                            ![b.req].sent = TRUE]
    /\ UNCHANGED <<world, table, current>>

\* Request::addCallback() and Request::getEndpoints(), which wait for the request's lock
\* while it is being answered; send() follows without the lock.
AddCallback(c) ==
    LET b == client[c]  r == reqs[b.req] IN
    /\ b.at = "add" /\ r.state # "cached"
    /\ IF r.state \in {"response", "exception"}
       THEN /\ client' = [client EXCEPT ![c] = [Answered(b, r.answer)
                              EXCEPT !.req = 0,
                                     !.excused = @ \/ Forgets(b, r.answer)]]
            /\ reqs' = [reqs EXCEPT ![b.req] = Release(b.req, {c})]
       ELSE /\ client' = [client EXCEPT ![c].at = "waiting"]
            /\ reqs' = [reqs EXCEPT ![b.req].callbacks = @ \cup ({c} \ Blocking),
                                    ![b.req].wellKnown = @ \cup ({b.wellKnown} \ {None}),
                                    ![b.req].sent = TRUE]
    /\ UNCHANGED <<world, table, current>>

\* finishRequest(), first part: the table is updated.
FinishRequest(i) ==
    LET r == reqs[i]
        objects == [o \in Objects |->
                       IF r.answer \notin Endpoints /\ o \in r.wellKnown THEN NoEntry
                       ELSE objectTable[o]]
    IN
    /\ r.state = "served"
    /\ reqs' = [reqs EXCEPT ![i].state = "cached"]
    /\ adapterTable' = [a \in Adapters |->
           CASE a = r.key /\ r.answer \in Endpoints -> Entry(r.answer)
             [] a = r.key /\ r.answer = None -> NoEntry
             [] OTHER -> adapterTable[a]]
    /\ objectTable' = [o \in Objects |->
           CASE o = r.key /\ r.answer \in Endpoints \cup Adapters -> Entry(r.answer)
             [] o = r.key /\ r.answer = None -> NoEntry
             [] OTHER -> objects[o]]
    /\ UNCHANGED <<world, current, client>>

\* The rest of finishRequest(), and of Request::response() and exception(): the request
\* leaves the map, the callbacks are called and the blocked callers notified.
Waiters(i) == reqs[i].callbacks
    \cup {c \in Blocking : client[c].at = "waiting" /\ client[c].req = i}

Response(i) ==
    LET r == reqs[i]
        state == IF r.answer \in {None, Failed} THEN "exception" ELSE "response"
    IN
    /\ r.state = "cached"
    /\ current' = [current EXCEPT ![r.key] = 0]
    /\ client' = [c \in Clients |->
                      IF c \in Waiters(i) THEN [Answered(client[c], r.answer) EXCEPT !.req = 0]
                      ELSE client[c]]
    /\ reqs' = [reqs EXCEPT ![i] =
                    IF Release(i, Waiters(i)) = NoRequest THEN NoRequest
                    ELSE [r EXCEPT !.state = state, !.callbacks = {}]]
    /\ UNCHANGED <<world, table>>

\* clearCache(): the entry of the proxy, and of the adapter that it names.
ClearCache(key) ==
    LET adapter == IF key \in Objects THEN objectTable[key].ref ELSE key IN
    /\ objectTable' = [o \in Objects |-> IF o = key THEN NoEntry ELSE objectTable[o]]
    /\ adapterTable' = [a \in Adapters |-> IF a = adapter THEN NoEntry ELSE adapterTable[a]]

\* createConnection() with the endpoint, and what its callback makes of a failure.
Connect(c) ==
    LET b == client[c]
        again == [b EXCEPT !.at = "lookup", !.key = Target[c], !.wellKnown = None]
    IN
    /\ b.at = "connect"
    /\ \/ /\ Now(Target[c]) = b.endpoint
          /\ client' = [client EXCEPT ![c].at = "ok"]
          /\ UNCHANGED table
       \/ /\ Now(Target[c]) # b.endpoint
          /\ ClearCache(Target[c])
          /\ client' = [client EXCEPT ![c] =
                            IF b.cached THEN again ELSE [b EXCEPT !.at = "retry"]]
    /\ UNCHANGED <<world, current, reqs>>

\* Another server has taken the endpoint and answers ObjectNotExistException: the cache
\* is cleared for well-known objects only (checkRetryAfterException()).
WrongServer(c) ==
    LET b == client[c] IN
    /\ b.at = "connect" /\ Now(Target[c]) # b.endpoint
    /\ IF Target[c] \in Objects THEN ClearCache(Target[c]) ELSE UNCHANGED table
    /\ client' = [client EXCEPT ![c].at = "retry",
                                ![c].excused = @ \/ b.tries = 2 \/ Target[c] \in Adapters]
    /\ UNCHANGED <<world, current, reqs>>

\* The proxy retries the invocation once (checkRetryAfterException()).
Retry(c) ==
    LET b == client[c] IN
    /\ b.at = "retry"
    /\ client' = [client EXCEPT ![c] =
           IF b.tries < 2
           THEN [b EXCEPT !.at = "lookup", !.key = Target[c], !.wellKnown = None, !.tries = @ + 1]
           ELSE [b EXCEPT !.at = "failed"]]
    /\ UNCHANGED <<world, table, current, reqs>>

-----------------------------------------------------------------------------
ClientStep(c) == Lookup(c) \/ GetRequest(c) \/ AddCallback(c) \/ Connect(c)
    \/ WrongServer(c) \/ Retry(c)
RequestStep(i) == LocatorServes(i) \/ FinishRequest(i) \/ Response(i)

Next ==
    \/ Move \/ Expire
    \/ \E c \in Clients : Begin(c) \/ ClientStep(c)
    \/ \E i \in DOMAIN reqs : RequestStep(i)

Spec == Init /\ [][Next]_vars

-----------------------------------------------------------------------------
(* Properties *)

\* One request to the locator serves all the callers that ask for the same thing: there
\* is at most one without an answer, and the info's map leads to it.
OneRequest ==
    \A i \in DOMAIN reqs :
        reqs[i].state \in {"pending", "served", "cached"} => current[reqs[i].key] = i

\* A caller that waits is known to a request that was sent and has no answer yet, so
\* that the answer finds it: a caller that comes late takes the answer itself.
NoneForgotten ==
    \A c \in Clients : client[c].at = "waiting" =>
        LET r == reqs[client[c].req] IN
        r.sent /\ r.state \in {"pending", "served", "cached"} /\ c \in Waiters(client[c].req)

\* A wrong cache never makes an invocation fail: if it fails although its server is
\* there, the server moved or the locator failed meanwhile, or it was given an answer
\* that was already on its way.
CacheHeals == \A c \in Clients : client[c].at = "failed" => client[c].excused
=============================================================================
