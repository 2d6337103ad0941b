------------------------------ MODULE RequestId ------------------------------
(***************************************************************************)
(* Request ids of Ice::ConnectionI (cpp/src/Ice/ConnectionI.cpp): how      *)
(* sendRequest() and sendAsyncRequest() number twoway requests with a      *)
(* signed counter that overflows, and how parseMessage() finds the request *)
(* that a reply answers, in two maps with a hint each.                     *)
(*                                                                         *)
(* A call is a caller with at most one request at a time.  Nothing in the  *)
(* code bounds how long a request can be outstanding; here, at most Window *)
(* other requests are sent meanwhile.                                      *)
(***************************************************************************)
EXTENDS Integers, FiniteSets

CONSTANTS
    Calls,    \* the callers
    Async,    \* those that use AMI
    MaxId,    \* the largest value of Ice::Int
    Window    \* bound on the requests sent while another one is outstanding

ASSUME RequestIdAssumption ==
    /\ Async \subseteq Calls
    /\ MaxId \in Nat \ {0}
    /\ Window \in Nat

Ids == 1 .. MaxId
NoId == 0      \* the end() of a map, and the id of a call without request

VARIABLES
    nextRequestId,        \* _nextRequestId
    sent,                 \* sent[c]: the id of the request that awaits its reply
    age,                  \* age[c]: the requests sent since that one
    requests,             \* _requests, as a set of pairs
    requestsHint,         \* the id that _requestsHint points at
    asyncRequests,        \* _asyncRequests
    asyncRequestsHint,
    misled                \* a reply was given to another call

vars == <<nextRequestId, sent, age, requests, requestsHint, asyncRequests,
          asyncRequestsHint, misled>>

TypeOK ==
    /\ nextRequestId \in -(MaxId + 1) .. MaxId
    /\ sent \in [Calls -> Ids \cup {NoId}]
    /\ age \in [Calls -> 0 .. Window]
    /\ requests \subseteq Ids \X (Calls \ Async)
    /\ asyncRequests \subseteq Ids \X Async
    /\ requestsHint \in Ids \cup {NoId}
    /\ asyncRequestsHint \in Ids \cup {NoId}
    /\ misled \in BOOLEAN

Init ==
    /\ nextRequestId = 1
    /\ sent = [c \in Calls |-> NoId]
    /\ age = [c \in Calls |-> 0]
    /\ requests = {} /\ requestsHint = NoId
    /\ asyncRequests = {} /\ asyncRequestsHint = NoId
    /\ misled = FALSE

Outstanding == {c \in Calls : sent[c] # NoId}

-----------------------------------------------------------------------------

\* ++ on an Ice::Int.
Increment(i) == IF i = MaxId THEN -(MaxId + 1) ELSE i + 1

\* Mutant of NewId: the ids start again too early.
NewIdNarrow == IF nextRequestId <= 0 \/ nextRequestId > Window THEN 1 ELSE nextRequestId

\* The id of a new request.
NewId == IF nextRequestId <= 0 THEN 1 ELSE nextRequestId

\* std::map::insert: an entry that exists stays.
Insert(map, id, c) ==
    IF \E e \in map : e[1] = id THEN map ELSE map \cup {<<id, c>>}

\* sendRequest() and sendAsyncRequest() of a twoway request.
Send(c) ==
    /\ c \notin Outstanding
    /\ \A d \in Outstanding : age[d] < Window
    /\ nextRequestId' = Increment(NewId)
    /\ sent' = [sent EXCEPT ![c] = NewId]
    /\ age' = [d \in Calls |-> IF d \in Outstanding THEN age[d] + 1 ELSE 0]
    /\ \/ /\ c \notin Async
          /\ requests' = Insert(requests, NewId, c)
          /\ requestsHint' = NewId
          /\ UNCHANGED <<asyncRequests, asyncRequestsHint>>
       \/ /\ c \in Async
          /\ asyncRequests' = Insert(asyncRequests, NewId, c)
          /\ asyncRequestsHint' = NewId
          /\ UNCHANGED <<requests, requestsHint>>
    /\ UNCHANGED misled

\* Does the map have an entry with this id?
Has(map, id) == \E e \in map : e[1] = id

\* Mutant of FindsSync: the hint is taken without a look at its id.
FindsSyncHinted(id) == requestsHint # NoId \/ Has(requests, id)

\* parseMessage() looks at the two hints, then into the two maps.
FindsSync(id) ==
    \/ requestsHint = id
    \/ asyncRequestsHint # id /\ Has(requests, id)

\* erase(p++): a hint that is erased points to the next entry.
NextHint(map, hint, id) ==
    LET after == {e[1] : e \in {f \in map : f[1] > id}} IN
    IF hint # id THEN {hint}
    ELSE IF after = {} THEN {NoId}
    ELSE {i \in after : \A j \in after : i <= j}

\* The calls whose entry the reply with this id finds.
Found(id) ==
    {e[2] : e \in {f \in IF FindsSync(id) THEN requests ELSE asyncRequests : f[1] = id}}

\* parseMessage() of the reply to the request of c.  Replies come in any order.
Reply(c) ==
    LET id == sent[c] IN
    /\ c \in Outstanding
    /\ sent' = [sent EXCEPT ![c] = NoId]
    /\ age' = [age EXCEPT ![c] = 0]
    /\ misled' = (misled \/ Found(id) # {c})
    /\ IF FindsSync(id)
       THEN /\ requests' = {e \in requests : e[1] # id}
            /\ requestsHint' \in NextHint(requests, requestsHint, id)
            /\ UNCHANGED <<asyncRequests, asyncRequestsHint>>
       ELSE /\ asyncRequests' = {e \in asyncRequests : e[1] # id}
            /\ asyncRequestsHint' \in NextHint(asyncRequests, asyncRequestsHint, id)
            /\ UNCHANGED <<requests, requestsHint>>
    /\ UNCHANGED nextRequestId

Next == \E c \in Calls : Send(c) \/ Reply(c)

Spec == Init /\ [][Next]_vars

-----------------------------------------------------------------------------

\* "Create a new unique request ID.": no two outstanding requests have the same
\* id, also after the counter has overflowed.
UniqueIds == \A c, d \in Outstanding : sent[c] = sent[d] => c = d

\* Every reply completes the call that it answers.
RepliesReachCaller == ~misled

=============================================================================
