--------------------------- MODULE MCRuntimeProofs ---------------------------
(***************************************************************************)
(* Theorems about the components that MCRuntime puts side by side, for all *)
(* values of its constants.                                                *)
(*                                                                         *)
(* Request ids are unique, and replies find their calls, for every width   *)
(* of the counter, as long as no request stays outstanding while the       *)
(* counter goes around.  The argument: an outstanding request's id and its *)
(* age add up to the next id, give or take one round, so that two          *)
(* outstanding requests with the same id have the same age.                *)
(*                                                                         *)
(* ServantManager: a hint is the end of its map or one of its entries.     *)
(*                                                                         *)
(* Batch requests: the messages on their way, the batch and the stream     *)
(* that a caller has borrowed share no request, and what a message holds   *)
(* was accepted.                                                           *)
(*                                                                         *)
(* Locator: what a client may rely on in each of its states, as long as    *)
(* nothing went wrong outside since it began (HonestSound).                *)
(*                                                                         *)
(* Dispatch: the connection of a request that is not answered has exactly  *)
(* one holder, the Incoming or a callback (OneHolder), who also knows      *)
(* whether a locator is still to be told.                                  *)
(***************************************************************************)
EXTENDS MCRuntime, FiniteSetTheorems, WellFoundedInduction, TLAPS

-----------------------------------------------------------------------------
(* Request ids *)

\* The counter as the id that comes next, or MaxId + 1 when it will start again.
Upcoming == IF nextRequestId <= 0 THEN MaxId + 1 ELSE nextRequestId

CounterOK == nextRequestId = -(MaxId + 1) \/ nextRequestId \in Ids

AgesDistinct == \A c, d \in Outstanding : age[c] = age[d] => c = d

IdsFollow ==
    \A c \in Outstanding :
        \/ sent[c] + age[c] + 1 = Upcoming
        \/ sent[c] + age[c] + 1 = Upcoming + MaxId

\* The part of the inductive invariant about the counter.
Counting == TypeOK /\ CounterOK /\ AgesDistinct /\ IdsFollow

LEMMA CountingUnique ==
    ASSUME Counting, Window < MaxId
    PROVE  UniqueIds
  <1> SUFFICES ASSUME NEW c \in Outstanding, NEW d \in Outstanding, sent[c] = sent[d]
               PROVE  c = d
    BY DEF UniqueIds
  <1>1. c \in Calls /\ d \in Calls
    BY DEF Outstanding
  <1>2. age[c] \in 0 .. Window /\ age[d] \in 0 .. Window /\ sent[c] \in Ids \cup {NoId}
    BY <1>1 DEF Counting, TypeOK
  <1>3. Upcoming \in Int
    BY RequestIdAssumption DEF Counting, TypeOK, Upcoming
  <1>4. /\ sent[c] + age[c] + 1 = Upcoming \/ sent[c] + age[c] + 1 = Upcoming + MaxId
        /\ sent[d] + age[d] + 1 = Upcoming \/ sent[d] + age[d] + 1 = Upcoming + MaxId
    BY DEF Counting, IdsFollow
  <1>5. age[c] = age[d]
    BY <1>2, <1>3, <1>4, RequestIdAssumption, Window < MaxId DEF Ids, NoId
  <1> QED
    BY <1>5 DEF Counting, AgesDistinct

\* The facts about a new id: it is an id, and the counter moves on by one.
LEMMA NewIdFacts ==
    ASSUME TypeOK, CounterOK
    PROVE  /\ NewId \in Ids
           /\ Increment(NewId) \in -(MaxId + 1) .. MaxId
           /\ Increment(NewId) = -(MaxId + 1) \/ Increment(NewId) \in Ids
           /\ (IF Increment(NewId) <= 0 THEN MaxId + 1 ELSE Increment(NewId)) = NewId + 1
           /\ NewId = Upcoming \/ (NewId = 1 /\ Upcoming = MaxId + 1)
  BY RequestIdAssumption DEF TypeOK, CounterOK, NewId, Increment, Ids, Upcoming

\* The entries of the two maps keep their types.
LEMMA SendTypes ==
    ASSUME TypeOK, CounterOK, NEW c \in Calls, Send(c)
    PROVE  TypeOK'
  <1>1. NewId \in Ids /\ Increment(NewId) \in -(MaxId + 1) .. MaxId
    BY NewIdFacts
  <1>2. nextRequestId' \in -(MaxId + 1) .. MaxId
    BY <1>1 DEF Send
  <1>3. sent' \in [Calls -> Ids \cup {NoId}]
    BY <1>1 DEF Send, TypeOK
  <1>4. age' \in [Calls -> 0 .. Window]
    <2> SUFFICES ASSUME NEW d \in Calls
                 PROVE  (IF d \in Outstanding THEN age[d] + 1 ELSE 0) \in 0 .. Window
      BY DEF Send
    <2>1. age[d] \in 0 .. Window
      BY DEF TypeOK
    <2>2. d \in Outstanding => age[d] < Window
      BY DEF Send
    <2> QED
      BY <2>1, <2>2, RequestIdAssumption
  <1>5. requests' \subseteq Ids \X (Calls \ Async) /\ requestsHint' \in Ids \cup {NoId}
    BY <1>1 DEF Send, TypeOK, Insert
  <1>6. asyncRequests' \subseteq Ids \X Async /\ asyncRequestsHint' \in Ids \cup {NoId}
    BY <1>1 DEF Send, TypeOK, Insert
  <1>7. misled' \in BOOLEAN
    BY DEF Send, TypeOK
  <1> QED
    BY <1>2, <1>3, <1>4, <1>5, <1>6, <1>7 DEF TypeOK

\* A hint moves to the id of another entry, or to the end.
LEMMA NextHintType ==
    ASSUME NEW T, NEW map \in SUBSET (Ids \X T), NEW hint \in Ids \cup {NoId},
           NEW id, NEW h \in NextHint(map, hint, id)
    PROVE  h \in Ids \cup {NoId}
  <1>1. \A e \in map : e[1] \in Ids
    OBVIOUS
  <1> QED
    BY <1>1 DEF NextHint

LEMMA ReplyTypes ==
    ASSUME TypeOK, NEW c \in Calls, Reply(c)
    PROVE  TypeOK'
  <1>1. nextRequestId' \in -(MaxId + 1) .. MaxId
    BY DEF Reply, TypeOK
  <1>2. sent' \in [Calls -> Ids \cup {NoId}] /\ age' \in [Calls -> 0 .. Window]
    BY RequestIdAssumption DEF Reply, TypeOK
  <1>3. requests' \subseteq Ids \X (Calls \ Async) /\ asyncRequests' \subseteq Ids \X Async
    BY DEF Reply, TypeOK
  <1>4. requestsHint' \in Ids \cup {NoId}
    BY NextHintType DEF Reply, TypeOK
  <1>5. asyncRequestsHint' \in Ids \cup {NoId}
    BY NextHintType DEF Reply, TypeOK
  <1>6. misled' \in BOOLEAN
    BY DEF Reply, TypeOK
  <1> QED
    BY <1>1, <1>2, <1>3, <1>4, <1>5, <1>6 DEF TypeOK

LEMMA SendCounts ==
    ASSUME Counting, Window < MaxId, NEW c \in Calls, Send(c)
    PROVE  CounterOK' /\ AgesDistinct' /\ IdsFollow'
  <1>1. /\ NewId \in Ids
        /\ Increment(NewId) = -(MaxId + 1) \/ Increment(NewId) \in Ids
        /\ (IF Increment(NewId) <= 0 THEN MaxId + 1 ELSE Increment(NewId)) = NewId + 1
        /\ NewId = Upcoming \/ (NewId = 1 /\ Upcoming = MaxId + 1)
    BY NewIdFacts DEF Counting
  <1>2. CounterOK' /\ Upcoming' = NewId + 1
    BY <1>1 DEF Send, CounterOK, Upcoming
  <1>3. Outstanding' = Outstanding \cup {c} /\ c \notin Outstanding
    BY <1>1, RequestIdAssumption DEF Send, Outstanding, Counting, TypeOK, Ids, NoId
  <1>4. sent'[c] = NewId /\ age'[c] = 0
    BY DEF Send, Counting, TypeOK
  <1>5. ASSUME NEW d \in Outstanding
        PROVE  /\ sent'[d] = sent[d] /\ age'[d] = age[d] + 1
               /\ age[d] \in Nat /\ sent[d] \in Int
    BY <1>3 DEF Send, Counting, TypeOK, Outstanding, Ids, NoId
  <1>6. AgesDistinct'
    <2> SUFFICES ASSUME NEW d \in Outstanding \cup {c}, NEW e \in Outstanding \cup {c},
                        age'[d] = age'[e]
                 PROVE  d = e
      BY <1>3 DEF AgesDistinct
    <2>1. CASE d \in Outstanding /\ e \in Outstanding
      BY <2>1, <1>5 DEF Counting, AgesDistinct
    <2>2. CASE d \in Outstanding /\ e = c
      BY <2>2, <1>4, <1>5
    <2>3. CASE d = c /\ e \in Outstanding
      BY <2>3, <1>4, <1>5
    <2> QED
      BY <2>1, <2>2, <2>3
  <1>7. IdsFollow'
    <2> SUFFICES ASSUME NEW d \in Outstanding \cup {c}
                 PROVE  \/ sent'[d] + age'[d] + 1 = NewId + 1
                        \/ sent'[d] + age'[d] + 1 = NewId + 1 + MaxId
      BY <1>2, <1>3 DEF IdsFollow
    <2>1. CASE d = c
      BY <2>1, <1>1, <1>4 DEF Ids
    <2>2. CASE d \in Outstanding
      <3>1. \/ sent[d] + age[d] + 1 = Upcoming
            \/ sent[d] + age[d] + 1 = Upcoming + MaxId
        BY <2>2 DEF Counting, IdsFollow
      <3>2. age[d] < Window
        BY <2>2 DEF Send
      <3>3. sent[d] \in Ids
        BY <2>2 DEF Outstanding, Counting, TypeOK
      <3> QED
        BY <1>1, <1>5, <2>2, <3>1, <3>2, <3>3, RequestIdAssumption, Window < MaxId DEF Ids
    <2> QED
      BY <2>1, <2>2
  <1> QED
    BY <1>2, <1>6, <1>7

LEMMA ReplyCounts ==
    ASSUME Counting, NEW c \in Calls, Reply(c)
    PROVE  CounterOK' /\ AgesDistinct' /\ IdsFollow'
  <1>1. nextRequestId' = nextRequestId /\ Upcoming' = Upcoming
    BY DEF Reply, Upcoming
  <1>2. Outstanding' = Outstanding \ {c}
    BY DEF Reply, Outstanding, Counting, TypeOK
  <1>3. \A d \in Outstanding' : sent'[d] = sent[d] /\ age'[d] = age[d]
    BY <1>2 DEF Reply, Outstanding, Counting, TypeOK
  <1> QED
    BY <1>1, <1>2, <1>3 DEF Counting, CounterOK, AgesDistinct, IdsFollow

\* Counting is inductive.
LEMMA CountingStep ==
    ASSUME Counting, Window < MaxId, [Next]_vars
    PROVE  Counting'
  <1>1. ASSUME NEW c \in Calls, Send(c) PROVE Counting'
    BY <1>1, SendTypes, SendCounts DEF Counting
  <1>2. ASSUME NEW c \in Calls, Reply(c) PROVE Counting'
    BY <1>2, ReplyTypes, ReplyCounts DEF Counting
  <1>3. CASE UNCHANGED vars
    BY <1>3 DEF vars, Counting, TypeOK, CounterOK, AgesDistinct, IdsFollow, Upcoming,
                Outstanding
  <1> QED
    BY <1>1, <1>2, <1>3 DEF Next

LEMMA CountingInit ==
    ASSUME Init
    PROVE  Counting
  <1>1. TypeOK
    <2>1. nextRequestId \in -(MaxId + 1) .. MaxId
      BY RequestIdAssumption DEF Init
    <2>2. sent \in [Calls -> Ids \cup {NoId}] /\ age \in [Calls -> 0 .. Window]
      BY RequestIdAssumption DEF Init
    <2>3. requests = {} /\ asyncRequests = {} /\ requestsHint = NoId
          /\ asyncRequestsHint = NoId /\ misled \in BOOLEAN
      BY DEF Init
    <2> QED
      BY <2>1, <2>2, <2>3 DEF TypeOK
  <1>2. CounterOK
    BY RequestIdAssumption DEF Init, CounterOK, Ids
  <1>3. Outstanding = {}
    BY DEF Init, Outstanding
  <1> QED
    BY <1>1, <1>2, <1>3 DEF Counting, AgesDistinct, IdsFollow

\* Request ids are unique among the outstanding requests, whatever the width of
\* the counter, if none is outstanding for a whole round of it.
THEOREM RequestIdsUnique ==
    ASSUME Window < MaxId
    PROVE  Spec => []UniqueIds
  <1>1. Init => Counting
    BY CountingInit
  <1>2. Counting /\ [Next]_vars => Counting'
    BY CountingStep
  <1>3. Counting => UniqueIds
    BY CountingUnique
  <1> QED
    BY <1>1, <1>2, <1>3, PTL DEF Spec

-----------------------------------------------------------------------------
(* Replies.                                                                *)

\* The maps hold the outstanding requests, and each hint is an entry or the end.
MapsMatch ==
    /\ requests = {<<sent[c], c>> : c \in Outstanding \ Async}
    /\ asyncRequests = {<<sent[c], c>> : c \in Outstanding \cap Async}
    /\ requestsHint # NoId => Has(requests, requestsHint)
    /\ asyncRequestsHint # NoId => Has(asyncRequests, asyncRequestsHint)

Routing == Counting /\ MapsMatch /\ RepliesReachCaller

\* A reply finds the request of its call, in the right map.
LEMMA ReplyFinds ==
    ASSUME Routing, UniqueIds, NEW c \in Outstanding
    PROVE  /\ FindsSync(sent[c]) <=> c \notin Async
           /\ Found(sent[c]) = {c}
  <1>1. sent[c] # NoId
    BY DEF Outstanding
  <1>2. Has(requests, sent[c]) <=> c \notin Async
    <2>1. ASSUME NEW e \in requests, e[1] = sent[c] PROVE c \notin Async
      <3>1. PICK d \in Outstanding \ Async : e = <<sent[d], d>>
        BY DEF Routing, MapsMatch
      <3> QED
        BY <2>1, <3>1 DEF UniqueIds
    <2>2. c \notin Async => <<sent[c], c>> \in requests
      BY DEF Routing, MapsMatch
    <2>3. <<sent[c], c>>[1] = sent[c]
      OBVIOUS
    <2> QED
      BY <2>1, <2>2, <2>3 DEF Has
  <1>3. Has(asyncRequests, sent[c]) <=> c \in Async
    <2>1. ASSUME NEW e \in asyncRequests, e[1] = sent[c] PROVE c \in Async
      <3>1. PICK d \in Outstanding \cap Async : e = <<sent[d], d>>
        BY DEF Routing, MapsMatch
      <3> QED
        BY <2>1, <3>1 DEF UniqueIds
    <2>2. c \in Async => <<sent[c], c>> \in asyncRequests
      BY DEF Routing, MapsMatch
    <2>3. <<sent[c], c>>[1] = sent[c]
      OBVIOUS
    <2> QED
      BY <2>1, <2>2, <2>3 DEF Has
  <1>4. FindsSync(sent[c]) <=> c \notin Async
    BY <1>1, <1>2, <1>3 DEF FindsSync, Routing, MapsMatch
  <1>5. c \notin Async => {f \in requests : f[1] = sent[c]} = {<<sent[c], c>>}
    BY DEF Routing, MapsMatch, UniqueIds
  <1>6. c \in Async => {f \in asyncRequests : f[1] = sent[c]} = {<<sent[c], c>>}
    BY DEF Routing, MapsMatch, UniqueIds
  <1>7. {e[2] : e \in {<<sent[c], c>>}} = {c}
    OBVIOUS
  <1>8. CASE c \notin Async
    <2>1. Found(sent[c]) = {e[2] : e \in {f \in requests : f[1] = sent[c]}}
      BY <1>4, <1>8 DEF Found
    <2> QED
      BY <1>4, <1>5, <1>7, <1>8, <2>1
  <1>9. CASE c \in Async
    <2>1. Found(sent[c]) = {e[2] : e \in {f \in asyncRequests : f[1] = sent[c]}}
      BY <1>4, <1>9 DEF Found
    <2> QED
      BY <1>4, <1>6, <1>7, <1>9, <2>1
  <1> QED
    BY <1>8, <1>9

\* A hint that is erased moves to an entry that stays, or to the end.
LEMMA NextHintStays ==
    ASSUME NEW map, \A e \in map : e[1] \in Int, NEW hint,
           hint # NoId => Has(map, hint),
           NEW id, NEW h \in NextHint(map, hint, id), h # NoId, id \in Int
    PROVE  Has({e \in map : e[1] # id}, h)
  <1>1. CASE hint # id
    <2>1. h = hint /\ Has(map, hint)
      BY <1>1 DEF NextHint
    <2> QED
      BY <1>1, <2>1 DEF Has
  <1>2. CASE hint = id
    <2>1. PICK e \in map : e[1] = h /\ e[1] > id
      BY <1>2 DEF NextHint
    <2>2. e[1] \in Int
      OBVIOUS
    <2>3. e[1] # id
      BY <2>1, <2>2
    <2> QED
      BY <2>1, <2>3 DEF Has
  <1> QED
    BY <1>1, <1>2

LEMMA ReplyRoutes ==
    ASSUME Routing, UniqueIds, NEW c \in Calls, Reply(c)
    PROVE  MapsMatch' /\ RepliesReachCaller'
  <1>1. c \in Outstanding /\ sent[c] \in Ids
    BY DEF Reply, Outstanding, Routing, Counting, TypeOK
  <1>2. (FindsSync(sent[c]) <=> c \notin Async) /\ Found(sent[c]) = {c}
    BY <1>1, ReplyFinds
  <1>3. RepliesReachCaller'
    BY <1>2 DEF Reply, Routing, RepliesReachCaller
  <1>4. Outstanding' = Outstanding \ {c}
    BY DEF Reply, Outstanding, Routing, Counting, TypeOK
  <1>5. \A d \in Outstanding' : sent'[d] = sent[d]
    BY <1>4 DEF Reply, Outstanding, Routing, Counting, TypeOK
  <1>6. sent[c] \in Int
    BY <1>1 DEF Ids
  <1>7. \A d \in Outstanding : sent[d] = sent[c] => d = c
    BY <1>1 DEF UniqueIds
  <1>8. CASE c \notin Async
    <2>1. /\ requests' = {e \in requests : e[1] # sent[c]}
          /\ requestsHint' \in NextHint(requests, requestsHint, sent[c])
          /\ asyncRequests' = asyncRequests /\ asyncRequestsHint' = asyncRequestsHint
      BY <1>2, <1>8 DEF Reply
    <2>2. requests' = {<<sent'[d], d>> : d \in Outstanding' \ Async}
      <3>1. ASSUME NEW e \in requests'
            PROVE  e \in {<<sent'[d], d>> : d \in Outstanding' \ Async}
        <4>1. e \in requests /\ e[1] # sent[c]
          BY <2>1
        <4>2. PICK d \in Outstanding \ Async : e = <<sent[d], d>>
          BY <4>1 DEF Routing, MapsMatch
        <4>3. d # c
          BY <4>1, <4>2
        <4>4. d \in Outstanding' \ Async /\ sent'[d] = sent[d]
          BY <1>4, <1>5, <4>3
        <4> QED
          BY <4>2, <4>4
      <3>2. ASSUME NEW d \in Outstanding' \ Async
            PROVE  <<sent'[d], d>> \in requests'
        <4>1. d \in Outstanding \ Async /\ d # c /\ sent'[d] = sent[d]
          BY <1>4, <1>5
        <4>2. <<sent[d], d>> \in requests
          BY <4>1 DEF Routing, MapsMatch
        <4>3. <<sent[d], d>>[1] # sent[c]
          BY <1>7, <4>1
        <4> QED
          BY <2>1, <4>1, <4>2, <4>3
      <3> QED
        BY <3>1, <3>2
    <2>3. asyncRequests' = {<<sent'[d], d>> : d \in Outstanding' \cap Async}
      BY <1>4, <1>5, <1>8, <2>1 DEF Routing, MapsMatch
    <2>4. requestsHint' # NoId => Has(requests', requestsHint')
      <3>1. \A e \in requests : e[1] \in Int
        BY DEF Routing, Counting, TypeOK, Ids
      <3>2. requestsHint # NoId => Has(requests, requestsHint)
        BY DEF Routing, MapsMatch
      <3>3. requestsHint' # NoId => Has({e \in requests : e[1] # sent[c]}, requestsHint')
        BY <1>6, <2>1, <3>1, <3>2, NextHintStays
      <3> QED
        BY <2>1, <3>3
    <2> QED
      BY <1>3, <2>1, <2>2, <2>3, <2>4 DEF MapsMatch, Routing, Has
  <1>9. CASE c \in Async
    <2>1. /\ asyncRequests' = {e \in asyncRequests : e[1] # sent[c]}
          /\ asyncRequestsHint' \in NextHint(asyncRequests, asyncRequestsHint, sent[c])
          /\ requests' = requests /\ requestsHint' = requestsHint
      BY <1>2, <1>9 DEF Reply
    <2>2. asyncRequests' = {<<sent'[d], d>> : d \in Outstanding' \cap Async}
      <3>1. ASSUME NEW e \in asyncRequests'
            PROVE  e \in {<<sent'[d], d>> : d \in Outstanding' \cap Async}
        <4>1. e \in asyncRequests /\ e[1] # sent[c]
          BY <2>1
        <4>2. PICK d \in Outstanding \cap Async : e = <<sent[d], d>>
          BY <4>1 DEF Routing, MapsMatch
        <4>3. d # c
          BY <4>1, <4>2
        <4>4. d \in Outstanding' \cap Async /\ sent'[d] = sent[d]
          BY <1>4, <1>5, <4>3
        <4> QED
          BY <4>2, <4>4
      <3>2. ASSUME NEW d \in Outstanding' \cap Async
            PROVE  <<sent'[d], d>> \in asyncRequests'
        <4>1. d \in Outstanding \cap Async /\ d # c /\ sent'[d] = sent[d]
          BY <1>4, <1>5
        <4>2. <<sent[d], d>> \in asyncRequests
          BY <4>1 DEF Routing, MapsMatch
        <4>3. <<sent[d], d>>[1] # sent[c]
          BY <1>7, <4>1
        <4> QED
          BY <2>1, <4>1, <4>2, <4>3
      <3> QED
        BY <3>1, <3>2
    <2>3. requests' = {<<sent'[d], d>> : d \in Outstanding' \ Async}
      BY <1>4, <1>5, <1>9, <2>1 DEF Routing, MapsMatch
    <2>4. asyncRequestsHint' # NoId => Has(asyncRequests', asyncRequestsHint')
      <3>1. \A e \in asyncRequests : e[1] \in Int
        BY DEF Routing, Counting, TypeOK, Ids
      <3>2. asyncRequestsHint # NoId => Has(asyncRequests, asyncRequestsHint)
        BY DEF Routing, MapsMatch
      <3>3. asyncRequestsHint' # NoId =>
                Has({e \in asyncRequests : e[1] # sent[c]}, asyncRequestsHint')
        BY <1>6, <2>1, <3>1, <3>2, NextHintStays
      <3> QED
        BY <2>1, <3>3
    <2> QED
      BY <1>3, <2>1, <2>2, <2>3, <2>4 DEF MapsMatch, Routing, Has
  <1> QED
    BY <1>3, <1>8, <1>9

LEMMA SendRoutes ==
    ASSUME Routing, Counting', UniqueIds', NEW c \in Calls, Send(c)
    PROVE  MapsMatch' /\ RepliesReachCaller'
  <1>1. RepliesReachCaller'
    BY DEF Send, Routing, RepliesReachCaller
  <1>2. NewId \in Ids
    BY NewIdFacts DEF Routing, Counting
  <1>3. Outstanding' = Outstanding \cup {c} /\ c \notin Outstanding
    BY <1>2, RequestIdAssumption DEF Send, Outstanding, Routing, Counting, TypeOK, Ids, NoId
  <1>4. sent'[c] = NewId
    BY DEF Send, Routing, Counting, TypeOK
  <1>5. \A d \in Outstanding : sent'[d] = sent[d] /\ sent[d] # NewId
    <2> SUFFICES ASSUME NEW d \in Outstanding
                 PROVE  sent'[d] = sent[d] /\ sent[d] # NewId
      OBVIOUS
    <2>1. sent'[d] = sent[d]
      BY <1>3 DEF Send, Outstanding, Routing, Counting, TypeOK
    <2>2. d # c /\ d \in Outstanding' /\ c \in Outstanding'
      BY <1>3
    <2> QED
      BY <2>1, <2>2, <1>4 DEF UniqueIds
  <1>6. ~Has(requests, NewId) /\ ~Has(asyncRequests, NewId)
    <2>1. ASSUME NEW e \in requests PROVE e[1] # NewId
      <3>1. PICK d \in Outstanding \ Async : e = <<sent[d], d>>
        BY DEF Routing, MapsMatch
      <3> QED
        BY <1>5, <3>1
    <2>2. ASSUME NEW e \in asyncRequests PROVE e[1] # NewId
      <3>1. PICK d \in Outstanding \cap Async : e = <<sent[d], d>>
        BY DEF Routing, MapsMatch
      <3> QED
        BY <1>5, <3>1
    <2> QED
      BY <2>1, <2>2 DEF Has
  <1>7. CASE c \notin Async
    <2>1. /\ requests' = requests \cup {<<NewId, c>>} /\ requestsHint' = NewId
          /\ asyncRequests' = asyncRequests /\ asyncRequestsHint' = asyncRequestsHint
      BY <1>6, <1>7 DEF Send, Insert, Has
    <2>2. requests' = {<<sent'[d], d>> : d \in Outstanding' \ Async}
      BY <1>3, <1>4, <1>5, <1>7, <2>1 DEF Routing, MapsMatch
    <2>3. asyncRequests' = {<<sent'[d], d>> : d \in Outstanding' \cap Async}
      BY <1>3, <1>5, <1>7, <2>1 DEF Routing, MapsMatch
    <2>4. <<NewId, c>>[1] = NewId /\ <<NewId, c>> \in requests'
      BY <2>1
    <2> QED
      BY <1>1, <2>1, <2>2, <2>3, <2>4 DEF MapsMatch, Routing, Has
  <1>8. CASE c \in Async
    <2>1. /\ asyncRequests' = asyncRequests \cup {<<NewId, c>>}
          /\ asyncRequestsHint' = NewId
          /\ requests' = requests /\ requestsHint' = requestsHint
      BY <1>6, <1>8 DEF Send, Insert, Has
    <2>2. asyncRequests' = {<<sent'[d], d>> : d \in Outstanding' \cap Async}
      BY <1>3, <1>4, <1>5, <1>8, <2>1 DEF Routing, MapsMatch
    <2>3. requests' = {<<sent'[d], d>> : d \in Outstanding' \ Async}
      BY <1>3, <1>5, <1>8, <2>1 DEF Routing, MapsMatch
    <2>4. <<NewId, c>>[1] = NewId /\ <<NewId, c>> \in asyncRequests'
      BY <2>1
    <2> QED
      BY <1>1, <2>1, <2>2, <2>3, <2>4 DEF MapsMatch, Routing, Has
  <1> QED
    BY <1>1, <1>7, <1>8

\* Every reply reaches the call that made the request, whatever the width of the
\* counter and the order of the replies.
THEOREM RepliesRouted ==
    ASSUME Window < MaxId
    PROVE  Spec => []RepliesReachCaller
  <1>1. Init => Routing
    <2> SUFFICES ASSUME Init PROVE Routing
      OBVIOUS
    <2>1. Counting /\ Outstanding = {}
      BY CountingInit DEF Init, Outstanding
    <2> QED
      BY <2>1 DEF Init, Routing, MapsMatch, RepliesReachCaller
  <1>2. Routing /\ UniqueIds /\ UniqueIds' /\ [Next]_vars => Routing'
    <2> SUFFICES ASSUME Routing, UniqueIds, UniqueIds', [Next]_vars PROVE Routing'
      OBVIOUS
    <2>1. Counting'
      BY CountingStep DEF Routing
    <2>2. ASSUME NEW c \in Calls, Send(c) PROVE Routing'
      BY <2>1, <2>2, SendRoutes DEF Routing
    <2>3. ASSUME NEW c \in Calls, Reply(c) PROVE Routing'
      BY <2>1, <2>3, ReplyRoutes DEF Routing
    <2>4. CASE UNCHANGED vars
      BY <2>1, <2>4 DEF vars, Routing, MapsMatch, RepliesReachCaller, Outstanding, Has
    <2> QED
      BY <2>2, <2>3, <2>4 DEF Next
  <1>3. Routing => RepliesReachCaller
    BY DEF Routing
  <1> QED
    BY <1>1, <1>2, <1>3, RequestIdsUnique, PTL DEF Spec

-----------------------------------------------------------------------------
(* The servant manager *)

\* A nonempty set of numbers has a least one.
LEMMA LeastExists ==
    ASSUME NEW T, T \subseteq Nat, T # {}
    PROVE  \E x \in T : \A y \in T : x <= y
  <1>1. PICK x \in T : \A y \in T : ~(<<y, x>> \in OpToRel(<, Nat))
    BY NatLessThanWellFounded, WFMin
  <1>2. \A y \in T : <<y, x>> \in Nat \X Nat /\ (y < x => <<y, x>> \in OpToRel(<, Nat))
    BY DEF OpToRel
  <1>3. \A y \in T : ~(y < x)
    BY <1>1, <1>2
  <1> QED
    BY <1>3

\* The least element of a set is one of its elements.
LEMMA MinIsElement ==
    ASSUME NEW T, T \subseteq Nat, T # {}
    PROVE  S!Min(T) \in T
  BY LeastExists DEF S!Min

\* What follows a key in a map: another key, or the end.
LEMMA AfterIsElement ==
    ASSUME NEW K, K \subseteq Nat, NEW k \in Nat
    PROVE  S!After(K, k) = None \/ (S!After(K, k) \in K /\ S!After(K, k) # k)
  <1> DEFINE later == {j \in K : j > k}
  <1>1. CASE later = {}
    BY <1>1 DEF S!After
  <1>2. CASE later # {}
    <2>1. S!Min(later) \in later
      BY <1>2, MinIsElement
    <2> QED
      BY <1>2, <2>1 DEF S!After
  <1> QED
    BY <1>1, <1>2

\* The maps as they are used.
FacetMap(m) ==
    /\ DOMAIN m \subseteq Facets /\ m # <<>>
    /\ \A f \in DOMAIN m : m[f] \in Servants

\* The inductive invariant of the servant manager.
ServantsSound ==
    /\ DOMAIN servantMapMap \subseteq Identities
    /\ \A i \in DOMAIN servantMapMap : FacetMap(servantMapMap[i])
    /\ servantHint = None \/ servantHint \in DOMAIN servantMapMap
DefaultsSound ==
    /\ DOMAIN defaultServantMap \subseteq Categories
    /\ \A c \in DOMAIN defaultServantMap : defaultServantMap[c] \in Servants
LocatorsSound ==
    /\ locatorMap \subseteq Categories /\ toDeactivate \subseteq Categories
    /\ locatorHint = None \/ locatorHint \in locatorMap
    /\ deactivated \in [Categories -> Nat]
ResultSound ==
    /\ result \in [found : Servants \cup {None}, registered : Servants \cup {None}]
    /\ result.found = result.registered
ServantsInv ==
    /\ ServantsSound /\ DefaultsSound /\ LocatorsSound /\ ResultSound
    /\ instance \in BOOLEAN

\* The invariant is what the run checks of the servant manager.
LEMMA ServantsInvGives == ASSUME ServantsInv PROVE HintsValid
  <1>1. S!TypeOK
    BY DEF ServantsInv, ServantsSound, DefaultsSound, LocatorsSound, ResultSound, S!TypeOK,
       FacetMap
  <1>2. S!HintsValid
    BY DEF ServantsInv, ServantsSound, DefaultsSound, LocatorsSound, ResultSound, S!HintsValid,
       FacetMap
  <1> QED
    BY <1>1, <1>2 DEF HintsValid

\* A new servant manager satisfies the invariant.
LEMMA ServantsBegin == ASSUME S!Init PROVE ServantsInv
  BY DEF S!Init, S!Nothing, ServantsInv, ServantsSound, DefaultsSound, LocatorsSound, ResultSound

\* A search through the hint is as good as one in the map.
LEMMA EntryIsFound ==
    ASSUME ServantsInv, NEW i \in Identities
    PROVE  S!Entry(i) = IF i \in DOMAIN servantMapMap THEN i ELSE None
  BY ServantsAssumption DEF ServantsInv, ServantsSound, S!Entry

\* A facet map with one more servant.
LEMMA WithFacets ==
    ASSUME NEW m, m = <<>> \/ FacetMap(m), NEW f \in Facets, NEW s \in Servants
    PROVE  FacetMap(S!With(m, f, s))
  <1>1. DOMAIN S!With(m, f, s) = DOMAIN m \cup {f}
    BY DEF S!With
  <1>2. DOMAIN m \subseteq Facets
    BY DEF FacetMap
  <1>3. \A g \in DOMAIN m : m[g] \in Servants
    BY DEF FacetMap
  <1>4. \A g \in DOMAIN m \cup {f} : S!With(m, f, s)[g] \in Servants
    BY <1>3 DEF S!With
  <1>5. DOMAIN <<>> = {}
    OBVIOUS
  <1> QED
    BY <1>1, <1>2, <1>4, <1>5 DEF FacetMap

\* A facet map that loses a facet, and keeps one.
LEMMA WithoutFacet ==
    ASSUME NEW m, FacetMap(m), NEW f \in DOMAIN m, DOMAIN m # {f}
    PROVE  FacetMap(S!Without(m, f))
  <1>1. DOMAIN S!Without(m, f) = DOMAIN m \ {f}
    BY DEF S!Without
  <1>2. \A g \in DOMAIN m \ {f} : S!Without(m, f)[g] \in Servants
    BY DEF FacetMap, S!Without
  <1>3. PICK g \in DOMAIN m : g # f
    OBVIOUS
  <1>5. DOMAIN <<>> = {}
    OBVIOUS
  <1> QED
    BY <1>1, <1>2, <1>3, <1>5 DEF FacetMap

\* addServant() leaves the hint at the entry that it used.
LEMMA AddServantKeeps ==
    ASSUME ServantsInv, NEW i \in Identities, NEW f \in Facets, NEW s \in Servants,
           S!AddServant(i, f, s)
    PROVE  ServantsInv'
  <1> DEFINE m == IF S!Entry(i) = None THEN S!With(<<>>, f, s)
                  ELSE S!With(servantMapMap[i], f, s)
  <1>1. FacetMap(m)
    BY EntryIsFound, WithFacets, ServantsAssumption DEF ServantsInv, ServantsSound
  <1>2. servantMapMap' = S!With(servantMapMap, i, m) /\ servantHint' = i
    BY DEF S!AddServant
  <1> HIDE DEF m
  <1>3. DOMAIN servantMapMap' = DOMAIN servantMapMap \cup {i}
    BY <1>2 DEF S!With
  <1>4. \A j \in DOMAIN servantMapMap' : servantMapMap'[j] = IF j = i THEN m ELSE servantMapMap[j]
    BY <1>2, <1>3 DEF S!With
  <1>5. ServantsSound'
    BY <1>1, <1>2, <1>3, <1>4 DEF ServantsInv, ServantsSound, FacetMap
  <1> QED
    BY <1>5 DEF S!AddServant, S!locators, ServantsInv, DefaultsSound, LocatorsSound, ResultSound

\* A map entry that is erased: the hint goes on to the next one, or to the end.
LEMMA EraseKeeps ==
    ASSUME ServantsSound, NEW i \in DOMAIN servantMapMap, S!Erase(i)
    PROVE  ServantsSound'
  <1>1. DOMAIN servantMapMap' = DOMAIN servantMapMap \ {i}
    BY DEF S!Erase, S!Without
  <1>2. \A j \in DOMAIN servantMapMap' : servantMapMap'[j] = servantMapMap[j]
    BY <1>1 DEF S!Erase, S!Without
  <1>3. S!After(DOMAIN servantMapMap, i) = None
            \/ (S!After(DOMAIN servantMapMap, i) \in DOMAIN servantMapMap
                /\ S!After(DOMAIN servantMapMap, i) # i)
    BY AfterIsElement, ServantsAssumption DEF ServantsSound
  <1>4. servantHint' = None \/ servantHint' \in DOMAIN servantMapMap'
    BY <1>1, <1>3 DEF S!Erase, ServantsSound
  <1> QED
    BY <1>1, <1>2, <1>4 DEF ServantsSound, FacetMap

\* removeServant(): the entry is erased with its last facet.
LEMMA RemoveServantKeeps ==
    ASSUME ServantsInv, NEW i \in Identities, NEW f \in Facets, S!RemoveServant(i, f)
    PROVE  ServantsInv'
  <1>1. i \in DOMAIN servantMapMap /\ f \in DOMAIN servantMapMap[i]
    BY EntryIsFound, ServantsAssumption DEF S!RemoveServant
  <1>2. CASE DOMAIN servantMapMap[i] = {f}
    BY <1>1, <1>2, EraseKeeps DEF S!RemoveServant, S!locators, ServantsInv, DefaultsSound,
        LocatorsSound, ResultSound
  <1>3. CASE DOMAIN servantMapMap[i] # {f}
    <2> DEFINE m == S!Without(servantMapMap[i], f)
    <2>1. FacetMap(m)
      BY <1>1, <1>3, WithoutFacet DEF ServantsInv, ServantsSound
    <2>2. servantMapMap' = S!With(servantMapMap, i, m) /\ servantHint' = servantHint
      BY <1>3 DEF S!RemoveServant
    <2> HIDE DEF m
    <2>3. DOMAIN servantMapMap' = DOMAIN servantMapMap
      BY <1>1, <2>2 DEF S!With
    <2>4. \A j \in DOMAIN servantMapMap' : servantMapMap'[j] = IF j = i THEN m ELSE servantMapMap[j]
      BY <2>2, <2>3 DEF S!With
    <2>5. ServantsSound'
      BY <2>1, <2>2, <2>3, <2>4 DEF ServantsInv, ServantsSound, FacetMap
    <2> QED
      BY <2>5 DEF S!RemoveServant, S!locators, ServantsInv, DefaultsSound, LocatorsSound,
          ResultSound
  <1> QED
    BY <1>2, <1>3

\* removeAllFacets() erases the entry.
LEMMA RemoveAllFacetsKeeps ==
    ASSUME ServantsInv, NEW i \in Identities, S!RemoveAllFacets(i)
    PROVE  ServantsInv'
  <1>1. i \in DOMAIN servantMapMap
    BY EntryIsFound, ServantsAssumption DEF S!RemoveAllFacets
  <1> QED
    BY <1>1, EraseKeeps DEF S!RemoveAllFacets, S!locators, ServantsInv, DefaultsSound,
        LocatorsSound, ResultSound

\* addDefaultServant() and removeDefaultServant() leave hints alone.
LEMMA DefaultsKeep ==
    ASSUME ServantsInv, NEW c \in Categories,
           (\E s \in Servants : S!AddDefaultServant(c, s)) \/ S!RemoveDefaultServant(c)
    PROVE  ServantsInv'
  <1>1. CASE \E s \in Servants : S!AddDefaultServant(c, s)
    <2>1. PICK s \in Servants : S!AddDefaultServant(c, s)
      BY <1>1
    <2>2. DOMAIN defaultServantMap' = DOMAIN defaultServantMap \cup {c}
      BY <2>1 DEF S!AddDefaultServant, S!With
    <2>3. \A d \in DOMAIN defaultServantMap' :
              defaultServantMap'[d] = IF d = c THEN s ELSE defaultServantMap[d]
      BY <2>1, <2>2 DEF S!AddDefaultServant, S!With
    <2>4. DefaultsSound'
      BY <2>2, <2>3 DEF ServantsInv, DefaultsSound
    <2> QED
      BY <2>1, <2>4 DEF S!AddDefaultServant, S!locators, ServantsInv, ServantsSound,
          LocatorsSound, ResultSound
  <1>2. CASE S!RemoveDefaultServant(c)
    <2>2. DOMAIN defaultServantMap' = DOMAIN defaultServantMap \ {c}
      BY <1>2 DEF S!RemoveDefaultServant, S!Without
    <2>3. \A d \in DOMAIN defaultServantMap' : defaultServantMap'[d] = defaultServantMap[d]
      BY <1>2, <2>2 DEF S!RemoveDefaultServant, S!Without
    <2>4. DefaultsSound'
      BY <2>2, <2>3 DEF ServantsInv, DefaultsSound
    <2> QED
      BY <1>2, <2>4 DEF S!RemoveDefaultServant, S!locators, ServantsInv, ServantsSound,
          LocatorsSound, ResultSound
  <1> QED
    BY <1>1, <1>2

\* findServant() and its kin: what they find is what is registered.
LEMMA SearchesKeep ==
    ASSUME ServantsInv, NEW i \in Identities,
           (\E f \in Facets : S!FindServant(i, f)) \/ S!HasServant(i)
    PROVE  ServantsInv'
  <1>1. CASE \E f \in Facets : S!FindServant(i, f)
    <2>1. PICK f \in Facets : S!FindServant(i, f)
      BY <1>1
    <2> DEFINE hit == S!Entry(i) # None /\ f \in DOMAIN servantMapMap[i]
               found == IF hit THEN servantMapMap[i][f] ELSE S!Default(Category[i])
    <2>2. hit <=> (i \in DOMAIN servantMapMap /\ f \in DOMAIN servantMapMap[i])
      BY EntryIsFound, ServantsAssumption
    <2>3. found = S!Registered(i, f)
      BY <2>2 DEF S!Registered
    <2>4. found \in Servants \cup {None}
      BY <2>2 DEF ServantsInv, ServantsSound, DefaultsSound, FacetMap, S!Default
    <2>5. result' = [found |-> found, registered |-> S!Registered(i, f)]
      BY <2>1 DEF S!FindServant
    <2>6. ServantsSound'
      BY <2>1, <2>2 DEF ServantsInv, ServantsSound, S!FindServant, FacetMap
    <2> HIDE DEF found
    <2>7. ResultSound'
      BY <2>3, <2>4, <2>5 DEF ResultSound
    <2> QED
      BY <2>1, <2>6, <2>7 DEF S!FindServant, S!locators, ServantsInv, DefaultsSound,
          LocatorsSound
  <1>2. CASE S!HasServant(i)
    <2>1. i \in DOMAIN servantMapMap
      BY <1>2, EntryIsFound, ServantsAssumption DEF S!HasServant
    <2> QED
      BY <1>2, <2>1 DEF S!HasServant, S!locators, ServantsInv, ServantsSound, DefaultsSound,
          LocatorsSound, ResultSound, FacetMap
  <1> QED
    BY <1>1, <1>2

\* addServantLocator(), removeServantLocator() and findServantLocator().
LEMMA LocatorsKeep ==
    ASSUME ServantsInv, NEW c \in Categories,
           \/ S!AddServantLocator(c) \/ S!RemoveServantLocator(c) \/ S!FindServantLocator(c)
    PROVE  ServantsInv'
  <1>1. locatorMap \ {c} # {} => S!Min(locatorMap \ {c}) \in locatorMap \ {c}
    <2>1. locatorMap \ {c} \subseteq Nat
      BY ServantsAssumption DEF ServantsInv, LocatorsSound
    <2> QED
      BY <2>1, MinIsElement
  <1>2. LocatorsSound'
    <2>1. CASE S!AddServantLocator(c)
      BY <2>1 DEF S!AddServantLocator, ServantsInv, LocatorsSound
    <2>2. CASE S!RemoveServantLocator(c)
      <3>1. c \in locatorMap
        BY <2>2, ServantsAssumption DEF S!RemoveServantLocator, ServantsInv, LocatorsSound
      <3> QED
        BY <1>1, <2>2, <3>1 DEF S!RemoveServantLocator, ServantsInv, LocatorsSound
    <2>3. CASE S!FindServantLocator(c)
      BY <2>3, ServantsAssumption DEF S!FindServantLocator, ServantsInv, LocatorsSound
    <2> QED
      BY <2>1, <2>2, <2>3
  <1>3. /\ UNCHANGED <<servantMapMap, servantHint>> /\ UNCHANGED defaultServantMap
        /\ UNCHANGED <<instance, result>>
    BY DEF S!AddServantLocator, S!RemoveServantLocator, S!FindServantLocator
  <1> QED
    BY <1>2, <1>3 DEF ServantsInv, ServantsSound, DefaultsSound, ResultSound, FacetMap

\* destroy() clears the maps and sets the hints to their ends.
LEMMA DestroyKeeps ==
    ASSUME ServantsInv, S!Destroy
    PROVE  ServantsInv'
  <1>1. ServantsSound'
    BY DEF S!Destroy, ServantsSound
  <1>2. LocatorsSound'
    BY DEF S!Destroy, ServantsInv, LocatorsSound
  <1>3. DefaultsSound' /\ ResultSound' /\ instance' \in BOOLEAN
    BY DEF S!Destroy, ServantsInv, DefaultsSound, ResultSound
  <1> QED
    BY <1>1, <1>2, <1>3 DEF ServantsInv

\* deactivate() of the locators that destroy() took out of the map.
LEMMA DeactivateKeeps ==
    ASSUME ServantsInv, S!DeactivateLocator
    PROVE  ServantsInv'
  <1>1. S!Min(toDeactivate) \in toDeactivate
    <2>1. toDeactivate \subseteq Nat /\ toDeactivate # {}
      BY ServantsAssumption DEF ServantsInv, LocatorsSound, S!DeactivateLocator
    <2> QED
      BY <2>1, MinIsElement
  <1>2. LocatorsSound'
    BY <1>1 DEF S!DeactivateLocator, ServantsInv, LocatorsSound
  <1> QED
    BY <1>2 DEF S!DeactivateLocator, ServantsInv, ServantsSound, DefaultsSound, ResultSound,
        FacetMap

\* Every step of the servant manager keeps the invariant.
LEMMA ServantsStep ==
    ASSUME ServantsInv, S!Next
    PROVE  ServantsInv'
  <1>1. CASE \E i \in Identities, f \in Facets :
                 \/ \E s \in Servants : S!AddServant(i, f, s)
                 \/ S!RemoveServant(i, f) \/ S!FindServant(i, f)
    BY <1>1, AddServantKeeps, RemoveServantKeeps, SearchesKeep
  <1>2. CASE \E i \in Identities : S!RemoveAllFacets(i) \/ S!HasServant(i)
    BY <1>2, RemoveAllFacetsKeeps, SearchesKeep
  <1>3. CASE \E c \in Categories :
                 \/ \E s \in Servants : S!AddDefaultServant(c, s)
                 \/ S!RemoveDefaultServant(c)
                 \/ S!AddServantLocator(c) \/ S!RemoveServantLocator(c)
                 \/ S!FindServantLocator(c)
    BY <1>3, DefaultsKeep, LocatorsKeep
  <1> QED
    BY <1>1, <1>2, <1>3, DestroyKeeps, DeactivateKeeps DEF S!Next

\* Steps of the other components do not touch it.
LEMMA ServantsRest ==
    ASSUME ServantsInv, UNCHANGED servantVars
    PROVE  ServantsInv'
  BY DEF servantVars, ServantsInv, ServantsSound, DefaultsSound, LocatorsSound, ResultSound,
      FacetMap

\* The invariant of the servant manager.
THEOREM ServantsInductive == RuntimeSpec => []ServantsInv
  <1>1. RuntimeInit => ServantsInv
    BY ServantsBegin DEF RuntimeInit
  <1>2. ServantsInv /\ [RuntimeNext]_allVars => ServantsInv'
    <2> SUFFICES ASSUME ServantsInv, [RuntimeNext]_allVars PROVE ServantsInv'
      OBVIOUS
    <2>1. CASE part = "servants" /\ S!Next
      BY <2>1, ServantsStep
    <2>2. CASE UNCHANGED servantVars
      BY <2>2, ServantsRest
    <2> QED
      BY <2>1, <2>2 DEF RuntimeNext, allVars
  <1> QED
    BY <1>1, <1>2, PTL DEF RuntimeSpec

\* ServantManager: a hint never dangles, searches through it find what is registered, and
\* no empty facet map stays; for all identities, categories, facets and servants.
THEOREM HintsAreValid == RuntimeSpec => []HintsValid
  BY ServantsInductive, ServantsInvGives, PTL

-----------------------------------------------------------------------------
(* Batch requests *)

\* A message that is right, given what the requests returned.
MessageSound(m, o) ==
    /\ m \in B!Message
    /\ m.num = Len(m.reqs) /\ m.num \in 1 .. MaxBatch
    /\ \A k \in 1 .. Len(m.reqs) : o[m.reqs[k]] = "ok"
MessagesSound(q, o) == \A i \in 1 .. Len(q) : MessageSound(q[i], o)

\* No request is twice in the messages all, or in the batch s, or in both.
Apart(all) ==
    \A i, j \in 1 .. Len(all) :
        \A k \in 1 .. Len(all[i].reqs) : \A l \in 1 .. Len(all[j].reqs) :
            all[i].reqs[k] = all[j].reqs[l] => i = j /\ k = l
Distinct(s) == \A k, l \in 1 .. Len(s) : s[k] = s[l] => k = l
Away(s, all) ==
    \A k \in 1 .. Len(s) : \A i \in 1 .. Len(all) : \A l \in 1 .. Len(all[i].reqs) :
        s[k] # all[i].reqs[l]

\* The batch and the request that has it.
OwnerSound ==
    /\ owner = None => aborting = "no" /\ lent = <<>>
    /\ owner = None /\ state = "open" => num = Len(stream) /\ num <= MaxBatch
    /\ owner # None => outcome[owner] = "busy"
    /\ owner # None /\ aborting = "no" =>
           stream = <<>> /\ num = Len(lent) /\ num <= MaxBatch
    /\ aborting # "no" => lent = <<>>
    /\ \A k \in 1 .. Len(lent) : outcome[lent[k]] = "ok"
    /\ \A k \in 1 .. Len(stream) : outcome[stream[k]] = "ok" \/ stream[k] = owner

BatchesApart ==
    /\ Apart(wire \o queue)
    /\ Distinct(stream) /\ Away(stream, wire \o queue)
    /\ Distinct(lent) /\ Away(lent, wire \o queue)

Noticed == told \/ \E r \in Requests : outcome[r] = "aborted"

\* After an automatic flush something is in the batch, so that its failure is noticed.
AutoFlushSound ==
    queue # <<>> /\ queue[Len(queue)].by = None => stream # <<>> \/ owner # None \/ Noticed

BatchInv ==
    /\ B!TypeOK
    /\ MessagesSound(queue, outcome) /\ MessagesSound(wire, outcome)
    /\ OwnerSound /\ BatchesApart /\ AutoFlushSound /\ B!LossReported

-----------------------------------------------------------------------------
\* The invariant is what the run checks of batch requests.
LEMMA BatchInvGives == ASSUME BatchInv PROVE BatchExact
  <1>1. B!TypeOK /\ B!LossReported
    BY DEF BatchInv
  <1>2. B!CountsMatch
    <2> SUFFICES ASSUME NEW i \in 1 .. Len(queue \o wire)
                 PROVE  LET m == (queue \o wire)[i]
                        IN  m.num = Len(m.reqs) /\ m.num \in 1 .. MaxBatch
      BY DEF B!CountsMatch
    <2>1. queue \in Seq(B!Message) /\ wire \in Seq(B!Message)
      BY <1>1 DEF B!TypeOK
    <2>2. \/ i \in 1 .. Len(queue) /\ (queue \o wire)[i] = queue[i]
          \/ i - Len(queue) \in 1 .. Len(wire) /\ (queue \o wire)[i] = wire[i - Len(queue)]
      BY <2>1
    <2> QED
      BY <2>2 DEF BatchInv, MessagesSound, MessageSound
  <1>3. B!SentAtMostOnce
    <2> DEFINE all == wire \o queue
    <2>1. queue \in Seq(B!Message) /\ wire \in Seq(B!Message)
      BY <1>1 DEF B!TypeOK
    <2>2. \A i \in 1 .. Len(all) : MessageSound(all[i], outcome)
      <3> SUFFICES ASSUME NEW i \in 1 .. Len(all) PROVE MessageSound(all[i], outcome)
        OBVIOUS
      <3>1. \/ i \in 1 .. Len(wire) /\ all[i] = wire[i]
            \/ i - Len(wire) \in 1 .. Len(queue) /\ all[i] = queue[i - Len(wire)]
        BY <2>1
      <3> QED
        BY <3>1 DEF BatchInv, MessagesSound
    <2>3. ASSUME NEW r \in Requests, outcome[r] \in {"retry", "failed", "aborted"}
          PROVE  r \notin B!InMessages(all) \cup B!Elements(stream) \cup B!Elements(lent)
      <3>1. r \notin B!InMessages(all)
        BY <2>2, <2>3 DEF B!InMessages, B!Elements, MessageSound
      <3>2. r # owner
        BY <2>3, BatchAssumption DEF BatchInv, OwnerSound
      <3> QED
        BY <2>3, <3>1, <3>2 DEF B!Elements, BatchInv, OwnerSound
    <2> QED
      BY <2>3 DEF B!SentAtMostOnce, BatchInv, BatchesApart, Apart
  <1> QED
    BY <1>1, <1>2, <1>3 DEF BatchExact

\* A new connection has an empty batch.
LEMMA BatchBegins == ASSUME B!Init PROVE BatchInv
  <1>1. wire \o queue = <<>>
    BY DEF B!Init
  <1>2. B!TypeOK
    <2>1. outcome \in [Requests \cup Flushes -> B!Outcomes]
      BY DEF B!Init, B!Outcomes
    <2>2. <<>> \in Seq(Requests) /\ <<>> \in Seq(B!Message)
      OBVIOUS
    <2>3. stream \in Seq(Requests) /\ lent \in Seq(Requests) /\ queue \in Seq(B!Message)
          /\ wire \in Seq(B!Message)
      BY <2>2 DEF B!Init
    <2>4. told \in BOOLEAN /\ owner \in Requests \cup {None} /\ unreported \subseteq Requests
          /\ num \in Nat
      BY DEF B!Init
    <2>5. /\ state \in {"open", "closing", "closed", "finished"}
          /\ aborting \in {"no", "connection", "limit"}
      BY DEF B!Init
    <2> QED
      BY <2>1, <2>3, <2>4, <2>5 DEF B!TypeOK
  <1>3. MessagesSound(queue, outcome) /\ MessagesSound(wire, outcome) /\ OwnerSound
    BY BatchAssumption DEF B!Init, MessagesSound, OwnerSound
  <1>4. BatchesApart
    BY <1>1 DEF B!Init, BatchesApart, Apart, Distinct, Away
  <1>5. AutoFlushSound /\ B!LossReported
    BY DEF B!Init, AutoFlushSound, B!LossReported
  <1> QED
    BY <1>2, <1>3, <1>4, <1>5 DEF BatchInv

-----------------------------------------------------------------------------
(* Sequences of messages *)

\* What requests returned, as far as messages depend on it.
OkStays == \A r \in Requests : outcome[r] = "ok" => outcome'[r] = "ok"

\* A message stays right as long as its requests have returned.
LEMMA MessageStays ==
    ASSUME NEW m, MessageSound(m, outcome), OkStays
    PROVE  MessageSound(m, outcome')
  <1>1. m.reqs \in Seq(Requests)
    BY DEF MessageSound, B!Message
  <1> QED
    BY <1>1 DEF MessageSound, OkStays

\* So do the messages of a queue.
LEMMA MessagesStay ==
    ASSUME NEW q \in Seq(B!Message), MessagesSound(q, outcome), OkStays
    PROVE  MessagesSound(q, outcome')
  BY MessageStays DEF MessagesSound

\* A queue of right messages grows by one.
LEMMA MessagesGrow ==
    ASSUME NEW q \in Seq(B!Message), NEW o, MessagesSound(q, o), NEW m, MessageSound(m, o)
    PROVE  MessagesSound(Append(q, m), o) /\ Append(q, m) \in Seq(B!Message)
  <1>1. m \in B!Message
    BY DEF MessageSound
  <1> QED
    BY <1>1 DEF MessagesSound

\* A batch that becomes a message.
LEMMA ApartGrows ==
    ASSUME NEW all \in Seq(B!Message), Apart(all), NEW m \in B!Message,
           Distinct(m.reqs), Away(m.reqs, all)
    PROVE  Apart(Append(all, m))
  <1> DEFINE a == Append(all, m)
  <1>1. a \in Seq(B!Message) /\ Len(a) = Len(all) + 1 /\ a[Len(all) + 1] = m
    OBVIOUS
  <1>2. \A i \in 1 .. Len(all) : a[i] = all[i]
    OBVIOUS
  <1> HIDE DEF a
  <1> SUFFICES ASSUME NEW i \in 1 .. Len(a), NEW j \in 1 .. Len(a),
                      NEW k \in 1 .. Len(a[i].reqs), NEW l \in 1 .. Len(a[j].reqs),
                      a[i].reqs[k] = a[j].reqs[l]
               PROVE  i = j /\ k = l
    BY DEF Apart, a
  <1>3. (i \in 1 .. Len(all) \/ i = Len(all) + 1) /\ (j \in 1 .. Len(all) \/ j = Len(all) + 1)
    BY <1>1
  <1>4. CASE i \in 1 .. Len(all) /\ j \in 1 .. Len(all)
    <2>1. a[i] = all[i] /\ a[j] = all[j]
      BY <1>2, <1>4
    <2> QED
      BY <1>4, <2>1 DEF Apart
  <1>5. CASE i = Len(all) + 1 /\ j = Len(all) + 1
    BY <1>1, <1>5 DEF Distinct
  <1>6. CASE i = Len(all) + 1 /\ j \in 1 .. Len(all)
    <2>1. a[i] = m /\ a[j] = all[j]
      BY <1>1, <1>2, <1>6
    <2> QED
      BY <1>6, <2>1 DEF Away
  <1>7. CASE j = Len(all) + 1 /\ i \in 1 .. Len(all)
    <2>1. a[j] = m /\ a[i] = all[i]
      BY <1>1, <1>2, <1>7
    <2> QED
      BY <1>7, <2>1 DEF Away
  <1> QED
    BY <1>3, <1>4, <1>5, <1>6, <1>7

\* An empty batch shares nothing with any message.
LEMMA EmptyIsAway == ASSUME NEW all PROVE Distinct(<<>>) /\ Away(<<>>, all)
  BY DEF Distinct, Away

\* The requests in a longer sequence.
LEMMA ElementsAppended ==
    ASSUME NEW s \in Seq(Requests), NEW r
    PROVE  B!Elements(Append(s, r)) = B!Elements(s) \cup {r}
  <1>1. Len(Append(s, r)) = Len(s) + 1 /\ Append(s, r)[Len(s) + 1] = r
    OBVIOUS
  <1>2. \A i \in 1 .. Len(s) : Append(s, r)[i] = s[i]
    OBVIOUS
  <1> QED
    BY <1>1, <1>2 DEF B!Elements

\* The requests in a longer queue.
LEMMA MessagesAppended ==
    ASSUME NEW q \in Seq(B!Message), NEW m \in B!Message
    PROVE  B!InMessages(Append(q, m)) = B!InMessages(q) \cup B!Elements(m.reqs)
  <1> DEFINE a == Append(q, m)
  <1>1. Len(a) = Len(q) + 1 /\ a[Len(q) + 1] = m
    OBVIOUS
  <1>2. \A i \in 1 .. Len(q) : a[i] = q[i]
    OBVIOUS
  <1> HIDE DEF a
  <1>3. \A i \in 1 .. Len(a) : i \in 1 .. Len(q) \/ i = Len(q) + 1
    BY <1>1
  <1>4. 1 .. Len(q) \subseteq 1 .. Len(a) /\ Len(q) + 1 \in 1 .. Len(a)
    BY <1>1
  <1>5. ASSUME NEW x \in B!InMessages(a) PROVE x \in B!InMessages(q) \cup B!Elements(m.reqs)
    <2>1. PICK i \in 1 .. Len(a) : x \in B!Elements(a[i].reqs)
      BY DEF B!InMessages
    <2> QED
      BY <1>1, <1>2, <1>3, <2>1 DEF B!InMessages
  <1>6. ASSUME NEW x \in B!InMessages(q) \cup B!Elements(m.reqs) PROVE x \in B!InMessages(a)
    BY <1>1, <1>2, <1>4 DEF B!InMessages
  <1> QED
    BY <1>5, <1>6 DEF a

\* The requests in a queue whose first message leaves.
LEMMA MessagesOfTail ==
    ASSUME NEW q \in Seq(B!Message), q # <<>>
    PROVE  B!InMessages(q) = B!InMessages(Tail(q)) \cup B!Elements(Head(q).reqs)
  <1> DEFINE t == Tail(q)
  <1>1. Len(q) \in Nat /\ Len(q) > 0 /\ Len(t) = Len(q) - 1 /\ Head(q) = q[1]
    OBVIOUS
  <1>2. \A i \in 1 .. Len(t) : t[i] = q[i + 1]
    OBVIOUS
  <1> HIDE DEF t
  <1>3. ASSUME NEW x \in B!InMessages(q) PROVE x \in B!InMessages(t) \cup B!Elements(q[1].reqs)
    <2>1. PICK i \in 1 .. Len(q) : x \in B!Elements(q[i].reqs)
      BY DEF B!InMessages
    <2>2. CASE i = 1
      BY <2>1, <2>2
    <2>3. CASE i # 1
      <3>1. i - 1 \in 1 .. Len(t) /\ t[i - 1] = q[i]
        BY <1>1, <1>2, <2>3
      <3> QED
        BY <2>1, <3>1 DEF B!InMessages
    <2> QED
      BY <2>2, <2>3
  <1>4. ASSUME NEW x \in B!InMessages(t) PROVE x \in B!InMessages(q)
    <2>1. PICK i \in 1 .. Len(t) : x \in B!Elements(t[i].reqs)
      BY DEF B!InMessages
    <2>2. i + 1 \in 1 .. Len(q) /\ t[i] = q[i + 1]
      BY <1>1, <1>2
    <2> QED
      BY <2>1, <2>2 DEF B!InMessages
  <1>5. ASSUME NEW x \in B!Elements(q[1].reqs) PROVE x \in B!InMessages(q)
    <2>1. 1 \in 1 .. Len(q)
      BY <1>1
    <2> QED
      BY <2>1 DEF B!InMessages
  <1> QED
    BY <1>1, <1>3, <1>4, <1>5 DEF t

\* No request is in an empty batch or queue.
LEMMA NothingInEmpty == B!Elements(<<>>) = {} /\ B!InMessages(<<>>) = {}
  BY DEF B!Elements, B!InMessages

\* A queue that loses messages at its end still has no request twice.
LEMMA PrefixApart ==
    ASSUME NEW a \in Seq(B!Message), NEW b \in Seq(B!Message), Len(b) <= Len(a),
           \A i \in 1 .. Len(b) : b[i] = a[i]
    PROVE  /\ Apart(a) => Apart(b)
           /\ \A s : Away(s, a) => Away(s, b)
  <1>1. \A i \in 1 .. Len(b) : i \in 1 .. Len(a)
    OBVIOUS
  <1>2. ASSUME Apart(a) PROVE Apart(b)
    <2> SUFFICES ASSUME NEW i \in 1 .. Len(b), NEW j \in 1 .. Len(b),
                        NEW k \in 1 .. Len(b[i].reqs), NEW l \in 1 .. Len(b[j].reqs),
                        b[i].reqs[k] = b[j].reqs[l]
                 PROVE  i = j /\ k = l
      BY DEF Apart
    <2>1. i \in 1 .. Len(a) /\ j \in 1 .. Len(a) /\ b[i] = a[i] /\ b[j] = a[j]
      BY <1>1
    <2> QED
      BY <1>2, <2>1 DEF Apart
  <1>3. ASSUME NEW s, Away(s, a) PROVE Away(s, b)
    BY <1>1, <1>3 DEF Away
  <1> QED
    BY <1>2, <1>3

\* Requests that were not accepted are in no message.
LEMMA AwayFromSound ==
    ASSUME NEW q \in Seq(B!Message), NEW w \in Seq(B!Message), NEW o,
           MessagesSound(q, o), MessagesSound(w, o), NEW s,
           \A k \in 1 .. Len(s) : o[s[k]] # "ok"
    PROVE  Away(s, w \o q)
  <1>1. ASSUME NEW i \in 1 .. Len(w \o q) PROVE MessageSound((w \o q)[i], o)
    <2>1. \/ i \in 1 .. Len(w) /\ (w \o q)[i] = w[i]
          \/ i - Len(w) \in 1 .. Len(q) /\ (w \o q)[i] = q[i - Len(w)]
      OBVIOUS
    <2> QED
      BY <2>1 DEF MessagesSound
  <1> QED
    BY <1>1 DEF Away, MessageSound

-----------------------------------------------------------------------------
(* Accounting of losses *)

InBatches == B!Elements(stream) \cup B!Elements(lent) \cup B!InMessages(queue)
                 \cup B!InMessages(wire)

\* Nothing is lost when every accepted request stays in a batch or a message.
LEMMA NothingLost ==
    ASSUME \A r \in Requests : outcome'[r] = "ok" => outcome[r] = "ok" \/ r \in InBatches',
           InBatches \subseteq InBatches'
    PROVE  B!Lost' \subseteq B!Lost
  BY DEF B!Lost, InBatches

\* Losses stay noticed, or will be.
NoticeStays ==
    /\ Noticed => Noticed'
    /\ B!HasException => B!HasException'
    /\ B!HasException /\ (stream # <<>> \/ owner # None) =>
           stream' # <<>> \/ owner' # None \/ Noticed'

\* A step that loses nothing keeps the account of losses.
LEMMA StillReported ==
    ASSUME BatchInv, B!Account("none"), B!Lost' \subseteq B!Lost, NoticeStays
    PROVE  B!LossReported' /\ told' = told /\ unreported' \subseteq Requests
  <1>1. told' = told /\ unreported' = unreported
    BY DEF B!Account, BatchInv, B!TypeOK
  <1>2. B!LossReported'
    BY <1>1 DEF BatchInv, B!LossReported, NoticeStays, Noticed
  <1> QED
    BY <1>1, <1>2 DEF BatchInv, B!TypeOK

\* A caller that gets an exception clears the account.
LEMMA ReportedNow ==
    ASSUME BatchInv, NEW x, x \in {"connection", "other"}, B!Account(x)
    PROVE  /\ B!LossReported' /\ told' \in BOOLEAN /\ unreported' \subseteq Requests
           /\ (told => told') /\ (x = "connection" => told')
  <1>1. unreported' = {} /\ told' = (told \/ x = "connection")
    BY DEF B!Account
  <1> QED
    BY <1>1 DEF BatchInv, B!TypeOK, B!LossReported

-----------------------------------------------------------------------------
(* Steps that leave the messages alone *)

\* The messages stay right when only the batch changes.
LEMMA QuietMessages ==
    ASSUME BatchInv, UNCHANGED <<queue, wire>>, OkStays
    PROVE  /\ MessagesSound(queue', outcome') /\ MessagesSound(wire', outcome')
           /\ queue' \in Seq(B!Message) /\ wire' \in Seq(B!Message)
           /\ wire' \o queue' = wire \o queue
           /\ B!InMessages(queue') = B!InMessages(queue)
           /\ B!InMessages(wire') = B!InMessages(wire)
  BY MessagesStay DEF BatchInv, B!TypeOK

\* What is in the messages was accepted, and what is in the batch is a request.
LEMMA OwnerFacts ==
    ASSUME BatchInv
    PROVE  /\ \A k \in 1 .. Len(stream) : stream[k] \in Requests
           /\ \A k \in 1 .. Len(lent) : lent[k] \in Requests
           /\ owner = None => \A k \in 1 .. Len(stream) : outcome[stream[k]] = "ok"
           /\ stream \in Seq(Requests) /\ lent \in Seq(Requests)
           /\ queue \in Seq(B!Message) /\ wire \in Seq(B!Message)
           /\ num \in Nat
  BY BatchAssumption DEF BatchInv, B!TypeOK, OwnerSound

\* prepareBatchRequest(): the caller takes the stream.
LEMMA PrepareKeeps ==
    ASSUME BatchInv, NEW r \in Requests, B!PrepareBatchRequest(r)
    PROVE  BatchInv'
  <1> USE OwnerFacts
  <1>1. outcome[r] = "idle" /\ UNCHANGED <<queue, wire>> /\ UNCHANGED <<state, num, aborting>>
    BY DEF B!PrepareBatchRequest
  <1>2. PICK x \in {"retry", "failed", "busy"} : outcome' = [outcome EXCEPT ![r] = x]
    BY DEF B!PrepareBatchRequest
  <1>3. outcome \in [Requests \cup Flushes -> B!Outcomes]
    BY DEF BatchInv, B!TypeOK
  <1>4. outcome' \in [Requests \cup Flushes -> B!Outcomes] /\ outcome'[r] = x
        /\ \A y \in Requests : y # r => outcome'[y] = outcome[y]
    BY <1>2, <1>3 DEF B!Outcomes
  <1>5. OkStays /\ (\A y \in Requests : outcome'[y] = "ok" => outcome[y] = "ok")
    BY <1>1, <1>4 DEF OkStays
  <1>6. Noticed /\ (told => told') => Noticed'
    BY <1>1, <1>4 DEF Noticed
  <1>7. r # owner
    BY <1>1, BatchAssumption DEF BatchInv, OwnerSound
  <1>8. CASE B!HasException /\ UNCHANGED <<stream, owner, lent>>
    <2>1. OwnerSound'
      BY <1>1, <1>4, <1>5, <1>7, <1>8 DEF BatchInv, OwnerSound, OkStays, B!TypeOK
    <2>2. BatchesApart'
      BY <1>1, <1>8 DEF BatchInv, BatchesApart
    <2>3. InBatches \subseteq InBatches'
      BY <1>1, <1>8 DEF InBatches
    <2>4. B!Lost' \subseteq B!Lost
      BY <1>5, <2>3, NothingLost
    <2>5. B!LossReported' /\ told' \in BOOLEAN /\ unreported' \subseteq Requests /\ (told => told')
      <3>1. CASE B!Account("none")
        <4>1. told' = told
          BY <3>1 DEF B!Account, BatchInv, B!TypeOK
        <4>2. NoticeStays
          BY <1>1, <1>6, <1>8, <4>1 DEF NoticeStays, B!HasException
        <4> QED
          BY <2>4, <3>1, <4>2, StillReported DEF BatchInv, B!TypeOK
      <3>2. CASE B!Account("connection")
        BY <3>2, ReportedNow
      <3> QED
        BY <1>8, <3>1, <3>2 DEF B!PrepareBatchRequest
    <2>6. AutoFlushSound'
      BY <1>1, <1>6, <1>8, <2>5 DEF BatchInv, AutoFlushSound
    <2> QED
      BY <1>1, <1>4, <1>5, <1>8, <2>1, <2>2, <2>5, <2>6, QuietMessages DEF BatchInv, B!TypeOK
  <1>9. CASE ~B!HasException
    <2>1. /\ owner = None /\ owner' = r /\ lent' = stream /\ stream' = <<>>
          /\ outcome'[r] = "busy" /\ B!Account("none")
      BY <1>3, <1>9 DEF B!PrepareBatchRequest
    <2>2. OwnerSound'
      BY <1>1, <1>4, <1>5, <1>9, <2>1, BatchAssumption
          DEF BatchInv, OwnerSound, OkStays, B!HasException
    <2>3. BatchesApart'
      BY <1>1, <2>1, EmptyIsAway DEF BatchInv, BatchesApart
    <2>4. InBatches \subseteq InBatches'
      <3>1. lent = <<>>
        BY <2>1 DEF BatchInv, OwnerSound
      <3> QED
        BY <1>1, <2>1, <3>1, NothingInEmpty DEF InBatches
    <2>5. B!Lost' \subseteq B!Lost
      BY <1>5, <2>4, NothingLost
    <2>6. told' = told
      BY <2>1 DEF B!Account, BatchInv, B!TypeOK
    <2>7. NoticeStays
      BY <1>1, <1>6, <1>9, <2>6 DEF NoticeStays, B!HasException
    <2>8. B!LossReported' /\ told' = told /\ unreported' \subseteq Requests
      BY <2>1, <2>5, <2>7, StillReported
    <2>9. AutoFlushSound'
      BY <2>1, BatchAssumption DEF AutoFlushSound
    <2> QED
      BY <1>1, <1>4, <1>5, <2>1, <2>2, <2>3, <2>8, <2>9, QuietMessages DEF BatchInv, B!TypeOK
  <1> QED
    BY <1>8, <1>9 DEF B!PrepareBatchRequest

\* The batch of r, with r in it.
LEMMA BatchWith ==
    ASSUME BatchInv, NEW r \in Requests, owner = r, aborting = "no"
    PROVE  /\ outcome[r] = "busy" /\ stream = <<>> /\ num = Len(lent) /\ num <= MaxBatch
           /\ Append(lent, r) \in Seq(Requests)
           /\ Distinct(lent) /\ Away(lent, wire \o queue)
           /\ Distinct(Append(lent, r)) /\ Away(Append(lent, r), wire \o queue)
           /\ \A k \in 1 .. Len(Append(lent, r)) :
                  outcome[Append(lent, r)[k]] = "ok" \/ Append(lent, r)[k] = r
           /\ Len(Append(lent, r)) = num + 1
  <1> USE OwnerFacts
  <1> DEFINE s == Append(lent, r)
  <1>1. outcome[r] = "busy" /\ stream = <<>> /\ num = Len(lent) /\ num <= MaxBatch
        /\ \A k \in 1 .. Len(lent) : outcome[lent[k]] = "ok"
    BY BatchAssumption DEF BatchInv, OwnerSound
  <1>2. Distinct(lent) /\ Away(lent, wire \o queue)
    BY DEF BatchInv, BatchesApart
  <1>3. s \in Seq(Requests) /\ Len(s) = Len(lent) + 1 /\ s[Len(lent) + 1] = r
    OBVIOUS
  <1>4. \A k \in 1 .. Len(lent) : s[k] = lent[k]
    OBVIOUS
  <1>5. \A k \in 1 .. Len(s) : k \in 1 .. Len(lent) \/ k = Len(lent) + 1
    BY <1>3
  <1> HIDE DEF s
  <1>6. Distinct(s)
    BY <1>1, <1>2, <1>3, <1>4, <1>5 DEF Distinct
  <1>7. Away(<<r>>, wire \o queue)
    <2>1. \A k \in 1 .. Len(<<r>>) : outcome[<<r>>[k]] # "ok"
      BY <1>1
    <2> QED
      BY <2>1, AwayFromSound DEF BatchInv
  <1>8. \A i \in 1 .. Len(wire \o queue) : \A l \in 1 .. Len((wire \o queue)[i].reqs) :
            r # (wire \o queue)[i].reqs[l]
    <2>1. 1 \in 1 .. Len(<<r>>) /\ <<r>>[1] = r
      OBVIOUS
    <2> QED
      BY <1>7, <2>1 DEF Away
  <1>9. Away(s, wire \o queue)
    BY SMTT(30), <1>2, <1>3, <1>4, <1>5, <1>8 DEF Away
  <1>10. \A k \in 1 .. Len(s) : outcome[s[k]] = "ok" \/ s[k] = r
    BY <1>1, <1>3, <1>4, <1>5
  <1> QED
    BY <1>1, <1>2, <1>3, <1>6, <1>9, <1>10 DEF s

\* finishBatchRequest() throws, with the batch s, before anything is sent.
LEMMA FinishThrowsKeeps ==
    ASSUME BatchInv, NEW r \in Requests, owner = r, aborting = "no",
           NEW s \in {lent, Append(lent, r)}, NEW what \in {"connection", "limit"},
           B!FinishThrows(s, what), UNCHANGED <<queue, wire>>, state' \in {state, "closed"},
           B!Account("none")
    PROVE  BatchInv'
  <1> USE OwnerFacts
  <1>1. /\ stream' = s /\ lent' = <<>> /\ aborting' = what /\ num' = num /\ owner' = r
        /\ outcome' = outcome
    BY DEF B!FinishThrows
  <1>2. /\ s \in Seq(Requests) /\ Distinct(s) /\ Away(s, wire \o queue)
        /\ \A k \in 1 .. Len(s) : outcome[s[k]] = "ok" \/ s[k] = r
    <2>1. CASE s = lent
      BY <2>1, BatchWith DEF BatchInv, OwnerSound
    <2>2. CASE s = Append(lent, r)
      BY <2>2, BatchWith
    <2> QED
      BY <2>1, <2>2
  <1>3. OkStays /\ r # None /\ outcome[r] = "busy"
    BY <1>1, BatchWith, BatchAssumption DEF OkStays
  <1>4. OwnerSound'
    BY <1>1, <1>2, <1>3 DEF OwnerSound
  <1>5. BatchesApart'
    BY <1>1, <1>2, <1>3, QuietMessages, EmptyIsAway DEF BatchInv, BatchesApart
  <1>6. InBatches \subseteq InBatches'
    <2>1. B!Elements(lent) \subseteq B!Elements(s)
      BY ElementsAppended
    <2>2. B!Elements(stream) = {}
      BY BatchWith, NothingInEmpty
    <2> QED
      BY <1>1, <2>1, <2>2 DEF InBatches
  <1>7. B!Lost' \subseteq B!Lost
    BY <1>1, <1>6, NothingLost
  <1>8. told' = told
    BY DEF B!Account, BatchInv, B!TypeOK
  <1>9. NoticeStays
    BY <1>1, <1>3, <1>8 DEF NoticeStays, B!HasException, Noticed
  <1>10. B!LossReported' /\ unreported' \subseteq Requests
    BY <1>7, <1>9, StillReported
  <1>11. AutoFlushSound'
    BY <1>1, <1>3 DEF AutoFlushSound
  <1>12. B!TypeOK'
    BY <1>1, <1>2, <1>3, <1>8, <1>10, QuietMessages DEF BatchInv, B!TypeOK
  <1> QED
    BY <1>3, <1>4, <1>5, <1>10, <1>11, <1>12, QuietMessages DEF BatchInv

\* A batch becomes a message: it is queued or written.
LEMMA SendMessageKeeps ==
    ASSUME BatchInv, NEW m, MessageSound(m, outcome), Distinct(m.reqs),
           Away(m.reqs, wire \o queue), NEW w \in B!Writes, ~B!SendFails(w), B!SendMessage(m, w)
    PROVE  /\ queue' \in Seq(B!Message) /\ wire' \in Seq(B!Message)
           /\ MessagesSound(queue', outcome) /\ MessagesSound(wire', outcome)
           /\ Apart(wire' \o queue')
           /\ B!InMessages(queue') \cup B!InMessages(wire') =
                  B!InMessages(queue) \cup B!InMessages(wire) \cup B!Elements(m.reqs)
           /\ queue' # <<>> => queue'[Len(queue')] = m
  <1> USE OwnerFacts
  <1>1. m \in B!Message
    BY DEF MessageSound
  <1>2. Apart(wire \o queue) /\ MessagesSound(queue, outcome) /\ MessagesSound(wire, outcome)
    BY DEF BatchInv, BatchesApart
  <1> DEFINE a == Append(wire \o queue, m)
  <1>3. wire \o queue \in Seq(B!Message)
    OBVIOUS
  <1>4. Apart(a) /\ a \in Seq(B!Message)
    <2>1. a \in Seq(B!Message)
      BY <1>1, <1>3
    <2> DEFINE all == wire \o queue
    <2>2. all \in Seq(B!Message) /\ Apart(all) /\ Away(m.reqs, all)
      BY <1>2, <1>3
    <2> HIDE DEF all
    <2>3. Apart(Append(all, m))
      BY <1>1, <2>2, ApartGrows
    <2> QED
      BY <2>1, <2>3 DEF all
  <1>5. CASE queue # <<>> \/ w = "block"
    <2>1. queue' = Append(queue, m) /\ wire' = wire
      BY <1>5 DEF B!SendMessage
    <2>2. Len(wire' \o queue') = Len(a) /\ \A i \in 1 .. Len(a) : (wire' \o queue')[i] = a[i]
      BY <1>1, <2>1
    <2>3. wire' \o queue' \in Seq(B!Message)
      BY <1>1, <2>1
    <2> HIDE DEF a
    <2>4. Apart(wire' \o queue')
      <3>1. Len(wire' \o queue') <= Len(a)
        BY <1>4, <2>2
      <3> QED
        BY <1>4, <2>2, <2>3, <3>1, PrefixApart
    <2>5. queue'[Len(queue')] = m
      BY <1>1, <2>1
    <2> QED
      BY <1>1, <1>2, <2>1, <2>4, <2>5, MessagesGrow, MessagesAppended
  <1>6. CASE queue = <<>> /\ w = "sent"
    <2>1. queue' = <<>> /\ wire' = Append(wire, m)
      BY <1>6 DEF B!SendMessage
    <2>2. Len(wire' \o queue') = Len(a) /\ \A i \in 1 .. Len(a) : (wire' \o queue')[i] = a[i]
      BY <1>1, <1>6, <2>1
    <2>3. wire' \o queue' \in Seq(B!Message)
      BY <1>1, <2>1
    <2> HIDE DEF a
    <2>4. Apart(wire' \o queue')
      <3>1. Len(wire' \o queue') <= Len(a)
        BY <1>4, <2>2
      <3> QED
        BY <1>4, <2>2, <2>3, <3>1, PrefixApart
    <2> QED
      BY <1>1, <1>2, <1>6, <2>1, <2>4, MessagesGrow, MessagesAppended
  <1> QED
    BY <1>5, <1>6 DEF B!Writes, B!SendFails

\* What r's end changes in the table of outcomes.
LEMMA OutcomeOf ==
    ASSUME BatchInv, NEW r \in Requests, outcome[r] # "ok", NEW x \in B!Outcomes,
           outcome' = [outcome EXCEPT ![r] = x]
    PROVE  /\ outcome' \in [Requests \cup Flushes -> B!Outcomes] /\ outcome'[r] = x
           /\ \A y \in Requests : y # r => outcome'[y] = outcome[y]
           /\ OkStays
           /\ outcome[r] # "aborted" /\ (told => told') => (Noticed => Noticed')
  <1>1. outcome \in [Requests \cup Flushes -> B!Outcomes]
    BY DEF BatchInv, B!TypeOK
  <1>2. /\ outcome' \in [Requests \cup Flushes -> B!Outcomes] /\ outcome'[r] = x
        /\ \A y \in Requests : y # r => outcome'[y] = outcome[y]
    BY <1>1
  <1> QED
    BY <1>2 DEF OkStays, Noticed

\* The request is in the batch, which has room for it.
LEMMA AddsKeeps ==
    ASSUME BatchInv, NEW r \in Requests, owner = r, aborting = "no",
           ~B!TooLarge(Append(lent, r)), B!FinishAdds(r, Append(lent, r), num + 1),
           UNCHANGED <<state, queue, wire>>, B!Account("none")
    PROVE  BatchInv'
  <1> USE OwnerFacts
  <1> DEFINE s == Append(lent, r)
  <1>1. /\ stream' = s /\ lent' = <<>> /\ num' = num + 1 /\ owner' = None /\ aborting' = "no"
        /\ outcome' = [outcome EXCEPT ![r] = "ok"]
    BY DEF B!FinishAdds
  <1>2. /\ outcome[r] = "busy" /\ s \in Seq(Requests) /\ Distinct(s) /\ Away(s, wire \o queue)
        /\ Len(s) = num + 1 /\ stream = <<>>
        /\ \A k \in 1 .. Len(s) : outcome[s[k]] = "ok" \/ s[k] = r
    BY BatchWith
  <1>3. Len(s) <= MaxBatch
    BY <1>2, BatchAssumption DEF B!TooLarge
  <1>4. B!Elements(s) = B!Elements(lent) \cup {r}
    BY ElementsAppended
  <1> HIDE DEF s
  <1>5. told' = told
    BY DEF B!Account, BatchInv, B!TypeOK
  <1>6. /\ outcome' \in [Requests \cup Flushes -> B!Outcomes] /\ outcome'[r] = "ok"
        /\ \A y \in Requests : y # r => outcome'[y] = outcome[y]
        /\ OkStays /\ (Noticed => Noticed')
    BY <1>1, <1>2, <1>5, OutcomeOf DEF B!Outcomes
  <1>7. OwnerSound'
    BY <1>1, <1>2, <1>3, <1>6 DEF OwnerSound, OkStays
  <1>8. BatchesApart'
    BY <1>1, <1>2, <1>6, QuietMessages, EmptyIsAway DEF BatchInv, BatchesApart
  <1>9. r \in InBatches' /\ InBatches \subseteq InBatches'
    BY <1>1, <1>2, <1>4, NothingInEmpty DEF InBatches
  <1>10. B!Lost' \subseteq B!Lost
    BY <1>6, <1>9, NothingLost
  <1>11. stream' # <<>>
    BY <1>1, <1>2
  <1>12. NoticeStays
    BY <1>6, <1>11 DEF NoticeStays, B!HasException
  <1>13. B!LossReported' /\ unreported' \subseteq Requests
    BY <1>10, <1>12, StillReported
  <1>14. AutoFlushSound'
    BY <1>11 DEF AutoFlushSound
  <1>15. B!TypeOK'
    BY <1>1, <1>2, <1>5, <1>6, <1>13, QuietMessages DEF BatchInv, B!TypeOK
  <1> QED
    BY <1>6, <1>7, <1>8, <1>13, <1>14, <1>15, QuietMessages DEF BatchInv

\* The batch is sent, and the request begins the next one, or is too large for it.
LEMMA AutoFlushKeeps ==
    ASSUME BatchInv, NEW r \in Requests, owner = r, aborting = "no", num > 0,
           ~B!HasException, NEW w \in B!Writes, ~B!SendFails(w),
           B!SendMessage([reqs |-> lent, num |-> num, by |-> None], w),
           \/ /\ stream' = <<>> /\ lent' = <<>> /\ num' = 0 /\ aborting' = "limit"
              /\ UNCHANGED <<owner, outcome>>
           \/ B!FinishAdds(r, <<r>>, 1),
           UNCHANGED state, B!Account("none")
    PROVE  BatchInv'
  <1> USE OwnerFacts
  <1> DEFINE m == [reqs |-> lent, num |-> num, by |-> None]
  <1>1. /\ outcome[r] = "busy" /\ stream = <<>> /\ num = Len(lent) /\ num <= MaxBatch
        /\ Distinct(lent) /\ Away(lent, wire \o queue)
    BY BatchWith
  <1>2. \A k \in 1 .. Len(lent) : outcome[lent[k]] = "ok"
    BY DEF BatchInv, OwnerSound
  <1>3. MessageSound(m, outcome) /\ m.reqs = lent /\ m.by = None
    BY <1>1, <1>2, BatchAssumption DEF MessageSound, B!Message
  <1> HIDE DEF m
  <1>4. B!SendMessage(m, w)
    BY DEF m
  <1>5. /\ queue' \in Seq(B!Message) /\ wire' \in Seq(B!Message)
        /\ MessagesSound(queue', outcome) /\ MessagesSound(wire', outcome)
        /\ Apart(wire' \o queue')
        /\ B!InMessages(queue') \cup B!InMessages(wire') =
               B!InMessages(queue) \cup B!InMessages(wire) \cup B!Elements(lent)
    BY <1>1, <1>3, <1>4, SendMessageKeeps
  <1>6. told' = told /\ r # None
    BY BatchAssumption DEF B!Account, BatchInv, B!TypeOK
  <1>7. /\ outcome' \in [Requests \cup Flushes -> B!Outcomes]
        /\ \A y \in Requests : y # r => outcome'[y] = outcome[y]
        /\ OkStays /\ (Noticed => Noticed')
    <2>1. CASE outcome' = outcome
      BY <1>6, <2>1 DEF OkStays, Noticed, BatchInv, B!TypeOK
    <2>2. CASE outcome' = [outcome EXCEPT ![r] = "ok"]
      BY <1>1, <1>6, <2>2, OutcomeOf DEF B!Outcomes
    <2> QED
      BY <2>1, <2>2 DEF B!FinishAdds
  <1>8. /\ MessagesSound(queue', outcome') /\ MessagesSound(wire', outcome')
    <2>1. \A q \in Seq(B!Message) : MessagesSound(q, outcome) => MessagesSound(q, outcome')
      BY <1>7, MessagesStay
    <2> QED
      BY <1>5, <2>1
  <1>9. /\ lent' = <<>>
        /\ \/ stream' = <<>> /\ num' = 0 /\ aborting' = "limit" /\ owner' = r /\ outcome' = outcome
           \/ /\ stream' = <<r>> /\ num' = 1 /\ aborting' = "no" /\ owner' = None
              /\ outcome' = [outcome EXCEPT ![r] = "ok"]
    BY DEF B!FinishAdds
  <1>10. outcome' = [outcome EXCEPT ![r] = "ok"] => outcome'[r] = "ok"
    BY DEF BatchInv, B!TypeOK
  <1>11. Len(<<r>>) = 1 /\ <<r>>[1] = r /\ <<r>> \in Seq(Requests) /\ <<r>> # <<>>
    OBVIOUS
  <1>12. OwnerSound'
    <2>1. CASE stream' = <<>>
      BY <1>1, <1>6, <1>9, <1>11, <2>1 DEF OwnerSound
    <2>2. CASE stream' = <<r>>
      BY <1>6, <1>9, <1>10, <1>11, <2>2, BatchAssumption DEF OwnerSound
    <2> QED
      BY <1>9, <2>1, <2>2
  <1>13. Distinct(<<r>>) /\ Away(<<r>>, wire' \o queue')
    <2>1. \A k \in 1 .. Len(<<r>>) : outcome[<<r>>[k]] # "ok"
      BY <1>1
    <2>2. Away(<<r>>, wire' \o queue')
      BY <1>5, <2>1, AwayFromSound
    <2> QED
      BY <1>11, <2>2 DEF Distinct
  <1>14. BatchesApart'
    BY <1>5, <1>9, <1>13, EmptyIsAway DEF BatchesApart
  <1>15. InBatches \subseteq InBatches'
    BY <1>1, <1>5, NothingInEmpty DEF InBatches
  <1>16. outcome'[r] = "ok" => r \in InBatches'
    <2>1. r \in B!Elements(<<r>>)
      BY <1>11 DEF B!Elements
    <2> QED
      BY <1>1, <1>9, <2>1 DEF InBatches
  <1>17. B!Lost' \subseteq B!Lost
    BY <1>7, <1>15, <1>16, NothingLost
  <1>18. stream' # <<>> \/ owner' # None
    BY <1>6, <1>9, <1>11
  <1>19. NoticeStays
    BY <1>7, <1>18 DEF NoticeStays, B!HasException
  <1>20. B!LossReported' /\ unreported' \subseteq Requests
    BY <1>17, <1>19, StillReported
  <1>21. AutoFlushSound'
    BY <1>18 DEF AutoFlushSound
  <1>22. B!TypeOK'
    <2>1. /\ stream' \in Seq(Requests) /\ lent' \in Seq(Requests) /\ num' \in Nat
          /\ owner' \in Requests \cup {None} /\ aborting' \in {"no", "connection", "limit"}
      <3>1. <<>> \in Seq(Requests) /\ 0 \in Nat /\ 1 \in Nat
        OBVIOUS
      <3>2. CASE stream' = <<>>
        BY <1>9, <1>11, <3>1, <3>2
      <3>3. CASE stream' = <<r>>
        BY <1>9, <1>11, <3>1, <3>3
      <3> QED
        BY <1>9, <3>2, <3>3
    <2> QED
      BY <1>5, <1>6, <1>7, <1>20, <2>1 DEF BatchInv, B!TypeOK
  <1> QED
    BY <1>8, <1>12, <1>14, <1>20, <1>21, <1>22 DEF BatchInv

\* finishBatchRequest(): the request joins the batch, or the batch is flushed first.
LEMMA FinishBatchKeeps ==
    ASSUME BatchInv, NEW r \in Requests, B!FinishBatchRequest(r)
    PROVE  BatchInv'
  <1> DEFINE s == Append(lent, r)
  <1>1. owner = r /\ aborting = "no" /\ B!Account("none")
    BY DEF B!FinishBatchRequest
  <1>2. CASE (B!FinishThrows(s, "connection") \/ B!FinishThrows(s, "limit"))
             /\ UNCHANGED <<state, queue, wire>>
    BY <1>1, <1>2, FinishThrowsKeeps
  <1>3. CASE ~B!TooLarge(s) /\ B!FinishAdds(r, s, num + 1) /\ UNCHANGED <<state, queue, wire>>
    BY <1>1, <1>3, AddsKeeps
  <1>4. CASE ~B!HasException /\ num > 0 /\ \E w \in B!Writes :
                 /\ B!SendFails(w) /\ state' = "closed" /\ B!FinishThrows(lent, "connection")
                 /\ UNCHANGED <<queue, wire>>
    BY <1>1, <1>4, FinishThrowsKeeps
  <1>5. CASE ~B!HasException /\ num > 0 /\ \E w \in B!Writes :
                 /\ ~B!SendFails(w)
                 /\ B!SendMessage([reqs |-> lent, num |-> num, by |-> None], w)
                 /\ IF r \in Big
                    THEN /\ stream' = <<>> /\ lent' = <<>> /\ num' = 0
                         /\ aborting' = "limit"
                         /\ UNCHANGED <<owner, outcome>>
                    ELSE B!FinishAdds(r, <<r>>, 1)
                 /\ UNCHANGED state
    BY <1>1, <1>5, AutoFlushKeeps
  <1> QED
    BY <1>2, <1>3, <1>4, <1>5 DEF B!FinishBatchRequest

\* abortBatchRequest(): the batch is discarded, and its owner told.
LEMMA AbortKeeps ==
    ASSUME BatchInv, NEW r \in Requests, B!AbortBatchRequest(r)
    PROVE  BatchInv'
  <1> USE OwnerFacts
  <1>1. /\ owner = r /\ stream' = <<>> /\ lent' = <<>> /\ num' = 0 /\ owner' = None
        /\ aborting' = "no" /\ UNCHANGED <<queue, wire>> /\ UNCHANGED state
    BY DEF B!AbortBatchRequest
  <1>2. PICK a \in {"connection", "other"} :
            /\ B!Account(a)
            /\ outcome' = [outcome EXCEPT ![r] = IF a = "connection" THEN "failed" ELSE "aborted"]
    BY DEF B!AbortBatchRequest
  <1>3. B!LossReported' /\ told' \in BOOLEAN /\ unreported' \subseteq Requests
        /\ (told => told') /\ (a = "connection" => told')
    BY <1>2, ReportedNow
  <1>4. outcome[r] = "busy"
    BY <1>1, BatchAssumption DEF BatchInv, OwnerSound
  <1>5. /\ outcome' \in [Requests \cup Flushes -> B!Outcomes] /\ OkStays
        /\ a = "other" => outcome'[r] = "aborted"
    BY <1>2, <1>4, OutcomeOf DEF B!Outcomes
  <1>6. Noticed'
    BY <1>3, <1>5 DEF Noticed
  <1>7. OwnerSound'
    BY <1>1, BatchAssumption DEF OwnerSound
  <1>8. BatchesApart'
    BY <1>1, <1>5, QuietMessages, EmptyIsAway DEF BatchInv, BatchesApart
  <1>9. AutoFlushSound'
    BY <1>6 DEF AutoFlushSound
  <1>10. B!TypeOK'
    BY <1>1, <1>3, <1>5, QuietMessages DEF BatchInv, B!TypeOK
  <1> QED
    BY <1>1, <1>3, <1>5, <1>7, <1>8, <1>9, <1>10, QuietMessages DEF BatchInv

-----------------------------------------------------------------------------
(* Steps that leave the requests' outcomes and the owner alone *)

RequestsStay == \A r \in Requests : outcome'[r] = outcome[r]

\* The outcomes of requests are what the invariant says of them.
LEMMA RequestsStayGives ==
    ASSUME RequestsStay
    PROVE  OkStays /\ ((told => told') => (Noticed => Noticed'))
           /\ \A r \in Requests : outcome'[r] = "ok" => outcome[r] = "ok"
  BY DEF RequestsStay, OkStays, Noticed

\* The owner of the batch does not notice a flush.
LEMMA OwnerStays ==
    ASSUME BatchInv, RequestsStay, UNCHANGED <<stream, num, owner, lent, aborting>>,
           B!HasException => B!HasException'
    PROVE  OwnerSound'
  BY OwnerFacts, BatchAssumption DEF BatchInv, B!TypeOK, OwnerSound, RequestsStay, B!HasException

\* Flushes that send nothing: a table of outcomes in which only f changed.
LEMMA FlushOutcome ==
    ASSUME BatchInv, NEW f \in Flushes, NEW x \in B!Outcomes,
           outcome' = [outcome EXCEPT ![f] = x]
    PROVE  outcome' \in [Requests \cup Flushes -> B!Outcomes] /\ RequestsStay
  <1>1. outcome \in [Requests \cup Flushes -> B!Outcomes]
    BY DEF BatchInv, B!TypeOK
  <1>2. outcome' \in [Requests \cup Flushes -> B!Outcomes]
    BY <1>1
  <1>3. \A r \in Requests : r # f
    BY BatchAssumption
  <1> QED
    BY <1>1, <1>2, <1>3 DEF RequestsStay

\* The state of the connection changes, and nothing else but the end of a flush.
LEMMA ConnectionSteps ==
    ASSUME BatchInv, UNCHANGED <<stream, num, owner, lent, aborting, queue, wire>>,
           outcome' \in [Requests \cup Flushes -> B!Outcomes], RequestsStay,
           state' \in {"open", "closing", "closed", "finished"},
           B!HasException => B!HasException',
           B!Account("none") \/ B!Account("connection")
    PROVE  BatchInv'
  <1>1. OkStays /\ ((told => told') => (Noticed => Noticed'))
        /\ \A r \in Requests : outcome'[r] = "ok" => outcome[r] = "ok"
    BY RequestsStayGives
  <1>2. B!Lost' \subseteq B!Lost
    <2>1. InBatches' = InBatches
      BY DEF InBatches
    <2> QED
      BY <1>1, <2>1, NothingLost
  <1>3. B!LossReported' /\ unreported' \subseteq Requests /\ (told => told') /\ told' \in BOOLEAN
    <2>1. CASE B!Account("none")
      <3>1. told' = told
        BY <2>1 DEF B!Account, BatchInv, B!TypeOK
      <3>2. NoticeStays
        BY <1>1, <3>1 DEF NoticeStays
      <3> QED
        BY <1>2, <2>1, <3>1, <3>2, StillReported DEF BatchInv, B!TypeOK
    <2>2. CASE B!Account("connection")
      BY <2>2, ReportedNow
    <2> QED
      BY <2>1, <2>2
  <1>4. OwnerSound'
    BY OwnerStays
  <1>5. BatchesApart'
    BY DEF BatchInv, BatchesApart
  <1>6. AutoFlushSound'
    BY <1>1, <1>3 DEF BatchInv, AutoFlushSound
  <1>7. B!TypeOK'
    BY <1>3 DEF BatchInv, B!TypeOK
  <1> QED
    BY <1>1, <1>3, <1>4, <1>5, <1>6, <1>7, QuietMessages DEF BatchInv

\* A flush takes the batch; f waits for the message, or it was written.
LEMMA FlushSends ==
    ASSUME BatchInv, NEW f \in Flushes, owner = None, ~B!HasException, num > 0,
           UNCHANGED <<owner, lent, aborting>>, stream' = <<>>,
           NEW w \in B!Writes, ~B!SendFails(w),
           B!SendMessage([reqs |-> stream, num |-> num, by |-> f], w),
           num' = 0, NEW x \in {"ok", "busy"}, outcome' = [outcome EXCEPT ![f] = x],
           UNCHANGED state, B!Account("none")
    PROVE  BatchInv'
  <1> USE OwnerFacts
  <1> DEFINE m == [reqs |-> stream, num |-> num, by |-> f]
  <1>1. /\ lent = <<>> /\ num = Len(stream) /\ num <= MaxBatch /\ aborting = "no"
        /\ Distinct(stream) /\ Away(stream, wire \o queue)
    BY DEF BatchInv, OwnerSound, BatchesApart, B!HasException
  <1>2. MessageSound(m, outcome) /\ m.reqs = stream /\ m.by = f
    BY <1>1, BatchAssumption DEF MessageSound, B!Message
  <1> HIDE DEF m
  <1>3. B!SendMessage(m, w)
    BY DEF m
  <1>4. /\ queue' \in Seq(B!Message) /\ wire' \in Seq(B!Message)
        /\ MessagesSound(queue', outcome) /\ MessagesSound(wire', outcome)
        /\ Apart(wire' \o queue')
        /\ B!InMessages(queue') \cup B!InMessages(wire') =
               B!InMessages(queue) \cup B!InMessages(wire) \cup B!Elements(stream)
        /\ queue' # <<>> => queue'[Len(queue')] = m
    BY <1>1, <1>2, <1>3, SendMessageKeeps
  <1>5. outcome' \in [Requests \cup Flushes -> B!Outcomes] /\ RequestsStay
    BY FlushOutcome DEF B!Outcomes
  <1>6. told' = told
    BY DEF B!Account, BatchInv, B!TypeOK
  <1>7. OkStays /\ (Noticed => Noticed')
        /\ \A r \in Requests : outcome'[r] = "ok" => outcome[r] = "ok"
    BY <1>5, <1>6, RequestsStayGives
  <1>8. /\ MessagesSound(queue', outcome') /\ MessagesSound(wire', outcome')
    <2>1. \A q \in Seq(B!Message) : MessagesSound(q, outcome) => MessagesSound(q, outcome')
      BY <1>7, MessagesStay
    <2> QED
      BY <1>4, <2>1
  <1>9. OwnerSound'
    BY <1>1, BatchAssumption DEF OwnerSound
  <1>10. BatchesApart'
    BY <1>1, <1>4, EmptyIsAway DEF BatchesApart
  <1>11. InBatches \subseteq InBatches'
    BY <1>1, <1>4, NothingInEmpty DEF InBatches
  <1>12. B!Lost' \subseteq B!Lost
    BY <1>7, <1>11, NothingLost
  <1>13. NoticeStays
    BY <1>7 DEF NoticeStays, B!HasException
  <1>14. B!LossReported' /\ unreported' \subseteq Requests
    BY <1>12, <1>13, StillReported
  <1>15. AutoFlushSound'
    BY <1>2, <1>4, BatchAssumption DEF AutoFlushSound
  <1>16. B!TypeOK'
    BY <1>4, <1>5, <1>6, <1>14 DEF BatchInv, B!TypeOK
  <1> QED
    BY <1>8, <1>9, <1>10, <1>14, <1>15, <1>16 DEF BatchInv

\* A flush whose message could not be written.
LEMMA FlushFails ==
    ASSUME BatchInv, NEW f \in Flushes, owner = None, ~B!HasException,
           UNCHANGED <<num, owner, lent, aborting, queue, wire>>, stream' = <<>>,
           outcome' = [outcome EXCEPT ![f] = "failed"],
           state' = "closed", B!Account("connection")
    PROVE  BatchInv'
  <1> USE OwnerFacts
  <1>1. B!LossReported' /\ told' \in BOOLEAN /\ unreported' \subseteq Requests /\ told'
    BY ReportedNow
  <1>2. outcome' \in [Requests \cup Flushes -> B!Outcomes] /\ RequestsStay
    BY FlushOutcome DEF B!Outcomes
  <1>3. OkStays
    BY <1>2, RequestsStayGives
  <1>4. OwnerSound'
    BY BatchAssumption DEF BatchInv, OwnerSound
  <1>5. BatchesApart'
    BY EmptyIsAway DEF BatchInv, BatchesApart
  <1>6. AutoFlushSound'
    BY <1>1 DEF AutoFlushSound, Noticed
  <1>7. B!TypeOK'
    BY <1>1, <1>2 DEF BatchInv, B!TypeOK
  <1> QED
    BY <1>1, <1>3, <1>4, <1>5, <1>6, <1>7, QuietMessages DEF BatchInv

\* flushBatchRequests(): the batch becomes a message, or the caller an exception.
LEMMA FlushKeeps ==
    ASSUME BatchInv, NEW f \in Flushes, B!Flush(f)
    PROVE  BatchInv'
  <1>1. UNCHANGED <<owner, lent, aborting>> /\ (owner = None \/ B!HasException)
    BY DEF B!Flush
  <1>2. CASE /\ UNCHANGED <<state, stream, num, queue, wire>>
             /\ \/ outcome' = [outcome EXCEPT ![f] = "failed"] /\ B!Account("connection")
                \/ outcome' = [outcome EXCEPT ![f] = "ok"] /\ B!Account("none")
    <2>1. outcome' \in [Requests \cup Flushes -> B!Outcomes] /\ RequestsStay
      BY <1>2, FlushOutcome DEF B!Outcomes
    <2>2. state' \in {"open", "closing", "closed", "finished"}
          /\ (B!HasException => B!HasException')
      BY <1>2 DEF BatchInv, B!TypeOK, B!HasException
    <2> QED
      BY <1>1, <1>2, <2>1, <2>2, ConnectionSteps
  <1>3. CASE /\ ~B!HasException /\ num > 0 /\ stream' = <<>>
             /\ \E w \in B!Writes :
                    /\ state' = "closed"
                    /\ outcome' = [outcome EXCEPT ![f] = "failed"]
                    /\ UNCHANGED <<num, queue, wire>>
                    /\ B!Account("connection")
    BY <1>1, <1>3, FlushFails
  <1>4. CASE /\ ~B!HasException /\ num > 0 /\ stream' = <<>>
             /\ \E w \in B!Writes :
                    /\ ~B!SendFails(w)
                    /\ B!SendMessage([reqs |-> stream, num |-> num, by |-> f], w)
                    /\ num' = 0
                    /\ outcome' = [outcome EXCEPT
                           ![f] = IF queue = <<>> /\ w = "sent" THEN "ok" ELSE "busy"]
                    /\ UNCHANGED state
                    /\ B!Account("none")
    BY <1>1, <1>4, FlushSends
  <1> QED
    BY <1>2, <1>3, <1>4 DEF B!Flush

-----------------------------------------------------------------------------
\* The head of the queue is written.
LEMMA SendNextKeeps ==
    ASSUME BatchInv, B!SendNextMessage
    PROVE  BatchInv'
  <1> USE OwnerFacts
  <1> DEFINE m == Head(queue)
  <1>1. /\ queue # <<>> /\ wire' = Append(wire, m) /\ queue' = Tail(queue)
        /\ outcome' = IF m.by = None THEN outcome ELSE [outcome EXCEPT ![m.by] = "ok"]
        /\ UNCHANGED <<stream, num, owner, lent, aborting>> /\ UNCHANGED state
        /\ B!Account("none")
    BY DEF B!SendNextMessage
  <1>2. m = queue[1] /\ 1 \in 1 .. Len(queue) /\ m \in B!Message
    BY <1>1
  <1>3. m.by \in Flushes \cup {None} /\ MessageSound(m, outcome)
    BY <1>2 DEF B!Message, BatchInv, MessagesSound
  <1>4. B!InMessages(queue) = B!InMessages(Tail(queue)) \cup B!Elements(m.reqs)
        /\ B!InMessages(Append(wire, m)) = B!InMessages(wire) \cup B!Elements(m.reqs)
    BY <1>1, <1>2, MessagesOfTail, MessagesAppended
  <1>5. Tail(queue) \in Seq(B!Message) /\ Len(Tail(queue)) = Len(queue) - 1
        /\ \A i \in 1 .. Len(Tail(queue)) : Tail(queue)[i] = queue[i + 1]
    BY <1>1
  <1>6. wire' \o queue' \in Seq(B!Message) /\ Len(wire' \o queue') <= Len(wire \o queue)
    BY <1>1, <1>2
  <1>7. \A i \in 1 .. Len(wire' \o queue') : (wire' \o queue')[i] = (wire \o queue)[i]
    BY <1>1, <1>2, <1>5
  <1> HIDE DEF m
  <1>8. outcome' \in [Requests \cup Flushes -> B!Outcomes] /\ RequestsStay
    <2>1. CASE m.by = None
      BY <1>1, <2>1 DEF BatchInv, B!TypeOK, RequestsStay
    <2>2. CASE m.by # None
      BY <1>1, <1>3, <2>2, FlushOutcome DEF B!Outcomes
    <2> QED
      BY <2>1, <2>2
  <1>9. told' = told
    BY <1>1 DEF B!Account, BatchInv, B!TypeOK
  <1>10. OkStays /\ (Noticed => Noticed')
         /\ \A r \in Requests : outcome'[r] = "ok" => outcome[r] = "ok"
    BY <1>8, <1>9, RequestsStayGives
  <1>11. /\ MessagesSound(queue', outcome) /\ MessagesSound(wire', outcome)
         /\ queue' \in Seq(B!Message) /\ wire' \in Seq(B!Message)
    <2>1. MessagesSound(queue, outcome) /\ MessagesSound(wire, outcome)
      BY DEF BatchInv
    <2>2. MessagesSound(Tail(queue), outcome)
      BY <1>5, <2>1 DEF MessagesSound
    <2> QED
      BY <1>1, <1>2, <1>3, <1>5, <2>1, <2>2, MessagesGrow
  <1>12. MessagesSound(queue', outcome') /\ MessagesSound(wire', outcome')
    <2>1. \A q \in Seq(B!Message) : MessagesSound(q, outcome) => MessagesSound(q, outcome')
      BY <1>10, MessagesStay
    <2> QED
      BY <1>11, <2>1
  <1>13. OwnerSound'
    BY <1>1, <1>8, OwnerStays DEF B!HasException
  <1>14. BatchesApart'
    <2>1. wire \o queue \in Seq(B!Message)
      OBVIOUS
    <2>2. /\ Apart(wire \o queue) => Apart(wire' \o queue')
          /\ \A s : Away(s, wire \o queue) => Away(s, wire' \o queue')
      BY <1>6, <1>7, <2>1, PrefixApart
    <2> QED
      BY <1>1, <2>2 DEF BatchInv, BatchesApart
  <1>15. InBatches \subseteq InBatches'
    BY <1>1, <1>4 DEF InBatches
  <1>16. B!Lost' \subseteq B!Lost
    BY <1>10, <1>15, NothingLost
  <1>17. NoticeStays
    BY <1>1, <1>10 DEF NoticeStays, B!HasException
  <1>18. B!LossReported' /\ unreported' \subseteq Requests
    BY <1>1, <1>16, <1>17, StillReported
  <1>19. AutoFlushSound'
    <2>1. queue' # <<>> => queue'[Len(queue')] = queue[Len(queue)]
      BY <1>1, <1>5
    <2> QED
      BY <1>1, <1>10, <2>1 DEF BatchInv, AutoFlushSound
  <1>20. B!TypeOK'
    BY <1>1, <1>8, <1>9, <1>11, <1>18 DEF BatchInv, B!TypeOK
  <1> QED
    BY <1>12, <1>13, <1>14, <1>18, <1>19, <1>20 DEF BatchInv

\* finish(): the queue is dropped.
LEMMA FinishKeeps ==
    ASSUME BatchInv, B!Finish
    PROVE  BatchInv'
  <1> USE OwnerFacts
  <1> DEFINE waiting == {queue[i].by : i \in 1 .. Len(queue)} \ {None}
  <1>1. /\ state = "closed" /\ state' = "finished" /\ queue' = <<>> /\ wire' = wire
        /\ outcome' = [x \in DOMAIN outcome |-> IF x \in waiting THEN "failed" ELSE outcome[x]]
        /\ UNCHANGED <<stream, num, owner, lent, aborting>>
        /\ B!Account(IF waiting = {} THEN "none" ELSE "connection")
    BY DEF B!Finish
  <1>2. waiting \subseteq Flushes
    <2>1. \A i \in 1 .. Len(queue) : queue[i] \in B!Message
      OBVIOUS
    <2> QED
      BY <2>1 DEF B!Message
  <1>3. queue # <<>> /\ waiting = {} => queue[Len(queue)].by = None
    <2>1. queue # <<>> => Len(queue) \in 1 .. Len(queue)
      OBVIOUS
    <2> QED
      BY <2>1
  <1> HIDE DEF waiting
  <1>4. outcome' \in [Requests \cup Flushes -> B!Outcomes] /\ RequestsStay
    <2>1. outcome \in [Requests \cup Flushes -> B!Outcomes]
      BY DEF BatchInv, B!TypeOK
    <2>2. outcome' \in [Requests \cup Flushes -> B!Outcomes]
      BY <1>1, <2>1 DEF B!Outcomes
    <2>3. \A r \in Requests : r \notin waiting /\ r \in DOMAIN outcome
      BY <1>2, <2>1, BatchAssumption
    <2> QED
      BY <1>1, <2>2, <2>3 DEF RequestsStay
  <1>5. OkStays /\ ((told => told') => (Noticed => Noticed'))
        /\ \A r \in Requests : outcome'[r] = "ok" => outcome[r] = "ok"
    BY <1>4, RequestsStayGives
  <1>6. /\ MessagesSound(queue', outcome') /\ MessagesSound(wire', outcome')
        /\ queue' \in Seq(B!Message) /\ wire' \in Seq(B!Message)
    <2>1. MessagesSound(wire, outcome')
      BY <1>5, MessagesStay DEF BatchInv
    <2>2. MessagesSound(<<>>, outcome')
      BY DEF MessagesSound
    <2> QED
      BY <1>1, <2>1, <2>2
  <1>7. OwnerSound'
    BY <1>1, <1>4, OwnerStays DEF B!HasException
  <1>8. BatchesApart'
    <2>1. wire \o queue \in Seq(B!Message) /\ wire' \o queue' \in Seq(B!Message)
      BY <1>6
    <2>2. Len(wire' \o queue') <= Len(wire \o queue)
          /\ \A i \in 1 .. Len(wire' \o queue') : (wire' \o queue')[i] = (wire \o queue)[i]
      BY <1>1
    <2>3. /\ Apart(wire \o queue) => Apart(wire' \o queue')
          /\ \A s : Away(s, wire \o queue) => Away(s, wire' \o queue')
      BY <2>1, <2>2, PrefixApart
    <2> QED
      BY <1>1, <2>3 DEF BatchInv, BatchesApart
  <1>9. AutoFlushSound'
    BY <1>1 DEF AutoFlushSound
  <1>10. B!LossReported' /\ unreported' \subseteq Requests /\ told' \in BOOLEAN
    <2>1. CASE waiting # {}
      BY <1>1, <2>1, ReportedNow
    <2>2. CASE waiting = {} /\ queue = <<>>
      <3>1. B!Account("none") /\ told' = told
        BY <1>1, <2>2 DEF B!Account, BatchInv, B!TypeOK
      <3>2. InBatches \subseteq InBatches'
        BY <1>1, <2>2 DEF InBatches
      <3>3. NoticeStays
        BY <1>1, <1>5, <3>1 DEF NoticeStays, B!HasException
      <3> QED
        BY <1>5, <3>1, <3>2, <3>3, NothingLost, StillReported DEF BatchInv, B!TypeOK
    <2>3. CASE waiting = {} /\ queue # <<>>
      <3>1. B!Account("none") /\ told' = told
        BY <1>1, <2>3 DEF B!Account, BatchInv, B!TypeOK
      <3>2. stream # <<>> \/ owner # None \/ Noticed
        BY <1>3, <2>3 DEF BatchInv, AutoFlushSound
      <3>3. stream' # <<>> \/ owner' # None \/ Noticed'
        BY <1>1, <1>5, <3>1, <3>2
      <3>4. B!LossReported'
        BY <1>1, <3>3 DEF B!LossReported, B!HasException, Noticed
      <3>5. unreported' = unreported \cup (B!Lost' \ B!Lost)
        BY <3>1 DEF B!Account
      <3>6. B!Lost' \subseteq Requests
        BY DEF B!Lost
      <3> QED
        BY <3>1, <3>4, <3>5, <3>6 DEF BatchInv, B!TypeOK
    <2> QED
      BY <2>1, <2>2, <2>3
  <1>11. B!TypeOK'
    BY <1>1, <1>4, <1>6, <1>10 DEF BatchInv, B!TypeOK
  <1> QED
    BY <1>6, <1>7, <1>8, <1>9, <1>10, <1>11 DEF BatchInv

\* Every step of a connection's batch requests keeps the invariant.
LEMMA BatchStep ==
    ASSUME BatchInv, B!Next
    PROVE  BatchInv'
  <1>1. CASE B!Monitor \/ B!Close
    <2>1. /\ UNCHANGED <<stream, num, owner, lent, aborting, queue, wire>>
          /\ outcome' = outcome /\ B!Account("none")
          /\ state' \in {"open", "closing", "closed", "finished"}
          /\ (B!HasException => B!HasException')
      BY <1>1 DEF B!Monitor, B!Close, B!HasException
    <2> QED
      BY <2>1, ConnectionSteps DEF RequestsStay, BatchInv, B!TypeOK
  <1> QED
    BY <1>1, PrepareKeeps, FinishBatchKeeps, AbortKeeps, FlushKeeps, SendNextKeeps, FinishKeeps
        DEF B!Next

\* Steps of the other components do not touch the batch.
LEMMA BatchRest ==
    ASSUME BatchInv, UNCHANGED batchVars
    PROVE  BatchInv'
  BY DEF batchVars, BatchInv, B!TypeOK, MessagesSound, OwnerSound, BatchesApart, AutoFlushSound,
      Noticed, B!LossReported, B!HasException

\* BatchInv is an inductive invariant of the batch requests of a connection.
THEOREM BatchInductive == RuntimeSpec => []BatchInv
  <1>1. RuntimeInit => BatchInv
    BY BatchBegins DEF RuntimeInit
  <1>2. BatchInv /\ [RuntimeNext]_allVars => BatchInv'
    <2> SUFFICES ASSUME BatchInv, [RuntimeNext]_allVars PROVE BatchInv'
      OBVIOUS
    <2>1. CASE part = "batch" /\ B!Next
      BY <2>1, BatchStep
    <2>2. CASE UNCHANGED batchVars
      BY <2>2, BatchRest
    <2> QED
      BY <2>1, <2>2 DEF RuntimeNext, allVars
  <1> QED
    BY <1>1, <1>2, PTL DEF RuntimeSpec

\* Batch requests (prepareBatchRequest(), finishBatchRequest(), abortBatchRequest(),
\* flushBatchRequests()): a message's header has the number of the requests in it, no request
\* is sent twice or after its caller got an exception, and when accepted requests are lost
\* somebody is told; for every number of requests, flushes and size of a batch.
THEOREM BatchIsExact == RuntimeSpec => []BatchExact
  BY BatchInductive, BatchInvGives, PTL

-----------------------------------------------------------------------------
(* The locator *)

RequestRecord ==
    [key : L!Keys \cup {None}, sent : BOOLEAN,
     state : {"pending", "served", "cached", "response", "exception"},
     answer : L!Homes \cup {Null, Failed},
     callbacks : SUBSET Clients, wellKnown : SUBSET Objects]
ClientRecord ==
    [at : {"idle", "lookup", "request", "add", "waiting", "connect", "retry", "ok", "failed"},
     key : L!Keys, wellKnown : Objects \cup {None}, req : Nat,
     endpoint : Endpoints \cup {None}, cached : BOOLEAN,
     tries : 0 .. 2, excused : BOOLEAN]

Slots == 1 .. MaxRequests
Active(r) == r.state \in {"pending", "served", "cached"}

\* The record r of slot i, with what the map of requests and the clients say of it.
RequestSound(i, r, cu, cl) ==
    /\ r = L!NoRequest \/ r.key \in L!Keys
    /\ r.key \in Adapters => r.answer \notin Adapters
    /\ \A c \in r.callbacks : cl[c].at = "waiting" /\ cl[c].req = i
    /\ Active(r) => r.key \in L!Keys /\ cu[r.key] = i
CurrentSound(k, n, rs) == n # 0 => n \in Slots /\ rs[n].key = k /\ Active(rs[n])

\* A client b that has a request, or waits for one.
HolderSound(c, b, rs) ==
    /\ b.at \in {"add", "waiting"} => b.req \in Slots /\ rs[b.req].key = b.key
    /\ b.at = "waiting" =>
           /\ rs[b.req].sent /\ Active(rs[b.req])
           /\ c \in Blocking \/ c \in rs[b.req].callbacks
           /\ b.wellKnown = None \/ b.wellKnown \in rs[b.req].wellKnown
KeySound(c, b) ==
    /\ b.wellKnown = None => b.key = Target[c]
    /\ b.wellKnown # None => b.wellKnown = Target[c] /\ Target[c] \in Objects /\ b.key \in Adapters

\* Nothing went wrong outside since a client began.
Honest(b) == b.at \notin {"idle", "ok", "failed"} /\ ~b.excused
AnswersRight ==
    \A i \in Slots : reqs[i].state \in {"served", "cached"} =>
                         reqs[i].answer = L!Registered(reqs[i].key)
EntryRight(o) == objectTable[o].ref = None \/ objectTable[o].ref = home[o]

HonestSound(c, b) ==
    /\ L!Now(Target[c]) # None
    /\ AnswersRight
    /\ b.at = "add" /\ ~Active(reqs[b.req]) => reqs[b.req].answer = L!Registered(b.key)
    /\ b.tries = 2 => /\ Target[c] \in Objects /\ EntryRight(Target[c])
                      /\ b.wellKnown # None => b.key = home[Target[c]]
    /\ b.at = "connect" /\ ~b.cached => b.endpoint = L!Registered(b.key)
    /\ b.at = "retry" => b.tries # 2 /\ Target[c] \in Objects /\ EntryRight(Target[c])
    /\ b.at = "waiting" /\ b.wellKnown # None /\ reqs[b.req].state = "cached"
           /\ reqs[b.req].answer \notin Endpoints => EntryRight(Target[c])

LocatorTypes ==
    /\ L!TypeOK /\ home \in [Objects -> Adapters \cup Endpoints]
RequestsSound == \A i \in Slots : RequestSound(i, reqs[i], current, client)
CurrentsSound == \A k \in L!Keys : CurrentSound(k, current[k], reqs)
ClientSound(c) ==
    /\ HolderSound(c, client[c], reqs) /\ KeySound(c, client[c])
    /\ Honest(client[c]) => HonestSound(c, client[c])
    /\ client[c].at = "failed" => client[c].excused
LocatorInv ==
    /\ LocatorTypes /\ RequestsSound /\ CurrentsSound
    /\ \A c \in Clients : ClientSound(c)

-----------------------------------------------------------------------------
\* The types of the state, as the proofs use them.
LEMMA LocatorFacts ==
    ASSUME LocatorInv
    PROVE  /\ reqs \in [Slots -> RequestRecord] /\ client \in [Clients -> ClientRecord]
           /\ current \in [L!Keys -> 0 .. MaxRequests]
           /\ adapterTable \in [Adapters -> [ref : Endpoints \cup {None}, fresh : BOOLEAN]]
           /\ objectTable \in [Objects -> [ref : L!Homes, fresh : BOOLEAN]]
           /\ place \in [Adapters -> Endpoints \cup {None}]
           /\ home \in [Objects -> Adapters \cup Endpoints]
           /\ Target \in [Clients -> L!Keys] /\ faults \in 0 .. MaxFaults
           /\ background \in BOOLEAN
  BY LocatorAssumption DEF LocatorInv, LocatorTypes, L!TypeOK, RequestRecord, ClientRecord, Slots,
      L!Homes, L!Keys

\* The types after a step.
LEMMA LocatorTyped ==
    ASSUME reqs' \in [Slots -> RequestRecord], client' \in [Clients -> ClientRecord],
           current' \in [L!Keys -> 0 .. MaxRequests],
           adapterTable' \in [Adapters -> [ref : Endpoints \cup {None}, fresh : BOOLEAN]],
           objectTable' \in [Objects -> [ref : L!Homes, fresh : BOOLEAN]],
           place' \in [Adapters -> Endpoints \cup {None}],
           home' \in [Objects -> Adapters \cup Endpoints],
           faults' \in 0 .. MaxFaults, background' \in BOOLEAN
    PROVE  LocatorTypes'
  <1>1. home' \in [Objects -> L!Homes]
    BY DEF L!Homes
  <1> QED
    BY <1>1 DEF LocatorTypes, L!TypeOK, RequestRecord, ClientRecord, Slots

\* The invariant is what the run checks of the locator.
LEMMA LocatorInvGives == ASSUME LocatorInv PROVE LocatorExact
  <1> USE LocatorFacts
  <1>1. L!TypeOK
    BY DEF LocatorInv, LocatorTypes
  <1>2. L!OneRequest
    BY DEF LocatorInv, RequestsSound, RequestSound, Active, L!OneRequest, Slots
  <1>3. L!NoneForgotten
    <2> SUFFICES ASSUME NEW c \in Clients, client[c].at = "waiting"
                 PROVE  LET r == reqs[client[c].req] IN
                        /\ r.sent /\ r.state \in {"pending", "served", "cached"}
                        /\ c \in L!Waiters(client[c].req)
      BY DEF L!NoneForgotten
    <2>1. HolderSound(c, client[c], reqs)
      BY DEF LocatorInv, ClientSound
    <2> QED
      BY <2>1 DEF HolderSound, Active, L!Waiters
  <1>4. L!CacheHeals
    BY DEF LocatorInv, ClientSound, L!CacheHeals
  <1> QED
    BY <1>1, <1>2, <1>3, <1>4 DEF LocatorExact

\* Whatever the cache holds at first, the invariant is true.
LEMMA LocatorBegins == ASSUME L!Init PROVE LocatorInv
  <1>1. reqs = [i \in Slots |-> L!NoRequest] /\ L!NoRequest \in RequestRecord
    BY DEF L!Init, Slots, L!NoRequest, RequestRecord, L!Homes
  <1>2. \A c \in Clients : /\ client[c].at = "idle" /\ client[c].key = Target[c]
                           /\ client[c].wellKnown = None /\ client[c] \in ClientRecord
    BY LocatorAssumption DEF L!Init, ClientRecord, L!Keys
  <1>3. L!TypeOK
    <2>1. reqs \in [Slots -> RequestRecord]
      BY <1>1
    <2>2. client \in [Clients -> ClientRecord]
      BY <1>2 DEF L!Init
    <2>3. adapterTable \in [Adapters -> [ref : Endpoints \cup {None}, fresh : BOOLEAN]]
      <3>1. \A x \in {L!Entry(e) : e \in Endpoints} \cup {L!NoEntry} :
                x \in [ref : Endpoints \cup {None}, fresh : BOOLEAN]
        <4>1. \A e \in Endpoints : L!Entry(e) \in [ref : Endpoints \cup {None}, fresh : BOOLEAN]
          BY DEF L!Entry
        <4>2. L!NoEntry \in [ref : Endpoints \cup {None}, fresh : BOOLEAN]
          BY DEF L!NoEntry
        <4> QED
          BY <4>1, <4>2
      <3> QED
        BY <3>1 DEF L!Init
    <2>4. objectTable \in [Objects -> [ref : L!Homes, fresh : BOOLEAN]]
      <3>1. \A x \in {L!Entry(e) : e \in Adapters \cup Endpoints} \cup {L!NoEntry} :
                x \in [ref : L!Homes, fresh : BOOLEAN]
        <4>1. \A e \in Adapters \cup Endpoints : L!Entry(e) \in [ref : L!Homes, fresh : BOOLEAN]
          BY DEF L!Entry, L!Homes
        <4>2. L!NoEntry \in [ref : L!Homes, fresh : BOOLEAN]
          BY DEF L!NoEntry, L!Homes
        <4> QED
          BY <4>1, <4>2
      <3> QED
        BY <3>1 DEF L!Init
    <2>5. home \in [Objects -> L!Homes]
      BY DEF L!Init, L!Homes
    <2>6. current \in [L!Keys -> 0 .. MaxRequests] /\ faults \in 0 .. MaxFaults
      BY LocatorAssumption DEF L!Init
    <2>7. place \in [Adapters -> Endpoints \cup {None}] /\ background \in BOOLEAN
      BY DEF L!Init
    <2> QED
      BY <2>1, <2>2, <2>3, <2>4, <2>5, <2>6, <2>7 DEF L!TypeOK, Slots, RequestRecord, ClientRecord
  <1>4. LocatorTypes
    BY <1>3 DEF LocatorTypes, L!Init
  <1>5. RequestsSound
    BY <1>1, LocatorAssumption DEF RequestsSound, RequestSound, L!NoRequest, Active
  <1>6. CurrentsSound
    BY DEF CurrentsSound, CurrentSound, L!Init
  <1>7. \A c \in Clients : ClientSound(c)
    BY <1>2 DEF ClientSound, HolderSound, KeySound, Honest
  <1> QED
    BY <1>4, <1>5, <1>6, <1>7 DEF LocatorInv

-----------------------------------------------------------------------------
(* What a step leaves as it was *)

\* A request n that a client has, and one that client d waits for.
HeldStays(n) ==
    /\ reqs'[n].key = reqs[n].key
    /\ ~Active(reqs'[n]) => /\ reqs'[n].answer = reqs[n].answer
                            /\ ~Active(reqs[n]) \/ reqs[n].state = "cached"
WaitedStays(d, n) ==
    /\ Active(reqs'[n]) /\ reqs'[n].sent
    /\ d \in reqs[n].callbacks => d \in reqs'[n].callbacks
    /\ reqs[n].wellKnown \subseteq reqs'[n].wellKnown
    /\ reqs'[n].state = "cached" /\ reqs'[n].answer \notin Endpoints =>
           \/ reqs[n].state = "cached" /\ reqs'[n].answer = reqs[n].answer
           \/ client[d].wellKnown # None => EntryRight(Target[d])'

\* The locator tells the truth, and the cache of objects gets no worse.
WorldStays == UNCHANGED place /\ UNCHANGED home
TablesHeal ==
    AnswersRight => AnswersRight' /\ \A o \in Objects : EntryRight(o) => EntryRight(o)'

\* Servers that stay are found where they were.
LEMMA WorldStaysGives ==
    ASSUME WorldStays
    PROVE  /\ \A k : L!Now(k)' = L!Now(k)
           /\ \A k : L!Registered(k)' = L!Registered(k)
  BY DEF WorldStays, L!Now, L!Registered

\* A client that takes no part in a step keeps what it relies on.
LEMMA BystanderStays ==
    ASSUME LocatorInv, NEW d \in Clients, client'[d] = client[d], WorldStays, TablesHeal,
           client[d].at \in {"add", "waiting"} => HeldStays(client[d].req),
           client[d].at = "waiting" => WaitedStays(d, client[d].req)
    PROVE  ClientSound(d)'
  <1> USE LocatorFacts
  <1> DEFINE b == client[d]  n == client[d].req
  <1>1. ClientSound(d) /\ b \in ClientRecord
    BY DEF LocatorInv
  <1>2. HolderSound(d, b, reqs')
    BY <1>1 DEF ClientSound, HolderSound, HeldStays, WaitedStays
  <1>3. ASSUME Honest(b) PROVE HonestSound(d, b)'
    <2>1. HonestSound(d, b)
      BY <1>1, <1>3 DEF ClientSound
    <2>2. AnswersRight' /\ \A o \in Objects : EntryRight(o) => EntryRight(o)'
      BY <2>1 DEF HonestSound, TablesHeal
    <2>3. L!Now(Target[d])' # None
      BY <2>1, WorldStaysGives DEF HonestSound
    <2>4. b.at = "add" /\ ~Active(reqs'[n]) => reqs'[n].answer = L!Registered(b.key)'
      <3> SUFFICES ASSUME b.at = "add", ~Active(reqs'[n])
                   PROVE  reqs'[n].answer = L!Registered(b.key)
        BY WorldStaysGives
      <3>1. n \in Slots /\ reqs[n].key = b.key
        BY <1>1 DEF ClientSound, HolderSound
      <3>2. reqs'[n].answer = reqs[n].answer /\ (~Active(reqs[n]) \/ reqs[n].state = "cached")
        BY DEF HeldStays
      <3> QED
        BY <2>1, <3>1, <3>2 DEF HonestSound, AnswersRight
    <2>5. b.tries = 2 => /\ Target[d] \in Objects /\ EntryRight(Target[d])'
                         /\ b.wellKnown # None => b.key = home'[Target[d]]
      BY <2>1, <2>2 DEF HonestSound, WorldStays
    <2>6. b.at = "connect" /\ ~b.cached => b.endpoint = L!Registered(b.key)'
      BY <2>1, WorldStaysGives DEF HonestSound
    <2>7. b.at = "retry" => b.tries # 2 /\ Target[d] \in Objects /\ EntryRight(Target[d])'
      BY <2>1, <2>2 DEF HonestSound
    <2>8. b.at = "waiting" /\ b.wellKnown # None /\ reqs'[n].state = "cached"
              /\ reqs'[n].answer \notin Endpoints => EntryRight(Target[d])'
      BY <1>1, <2>1, <2>2 DEF HonestSound, WaitedStays, ClientSound, KeySound
    <2> QED
      BY <2>2, <2>3, <2>4, <2>5, <2>6, <2>7, <2>8 DEF HonestSound
  <1> QED
    BY <1>1, <1>2, <1>3 DEF ClientSound, KeySound, Honest

\* Requests that do not change.
LEMMA RequestStays ==
    ASSUME LocatorInv, NEW i \in Slots, reqs'[i] = reqs[i],
           Active(reqs[i]) => current'[reqs[i].key] = current[reqs[i].key],
           \A c \in Clients : client[c].at = "waiting" /\ client[c].req = i =>
                                  client'[c].at = "waiting" /\ client'[c].req = i
    PROVE  RequestSound(i, reqs'[i], current', client')
  <1>1. RequestSound(i, reqs[i], current, client) /\ reqs[i].callbacks \subseteq Clients
    BY LocatorFacts DEF LocatorInv, RequestsSound, RequestRecord
  <1> QED
    BY <1>1 DEF RequestSound

\* Steps of a client c that are about itself and the cache.
LEMMA ClientOnly ==
    ASSUME LocatorInv, NEW c \in Clients, client[c].at # "waiting",
           UNCHANGED current, UNCHANGED reqs, UNCHANGED faults, UNCHANGED background,
           client' \in [Clients -> ClientRecord],
           \A d \in Clients : d # c => client'[d] = client[d],
           ClientSound(c)', WorldStays, TablesHeal,
           adapterTable' \in [Adapters -> [ref : Endpoints \cup {None}, fresh : BOOLEAN]],
           objectTable' \in [Objects -> [ref : L!Homes, fresh : BOOLEAN]]
    PROVE  LocatorInv'
  <1> USE LocatorFacts
  <1>1. LocatorTypes'
    BY LocatorTyped DEF WorldStays
  <1>2. RequestsSound'
    <2> SUFFICES ASSUME NEW i \in Slots PROVE RequestSound(i, reqs'[i], current', client')
      BY DEF RequestsSound
    <2>1. \A d \in Clients : client[d].at = "waiting" /\ client[d].req = i =>
                                 client'[d].at = "waiting" /\ client'[d].req = i
      OBVIOUS
    <2> QED
      BY <2>1, RequestStays
  <1>3. CurrentsSound'
    BY DEF LocatorInv, CurrentsSound
  <1>4. ASSUME NEW d \in Clients, d # c PROVE ClientSound(d)'
    <2>1. ClientSound(d)
      BY DEF LocatorInv
    <2>2. client[d].at \in {"add", "waiting"} => HeldStays(client[d].req)
      BY <2>1 DEF HeldStays
    <2>3. client[d].at = "waiting" => WaitedStays(d, client[d].req)
      BY <2>1 DEF ClientSound, HolderSound, WaitedStays
    <2> QED
      BY <1>4, <2>2, <2>3, BystanderStays
  <1> QED
    BY <1>1, <1>2, <1>3, <1>4 DEF LocatorInv

-----------------------------------------------------------------------------
(* Clients *)

\* A client begins, excused if an answer that is no longer true is on its way.
LEMMA BeginKeeps ==
    ASSUME LocatorInv, NEW c \in Clients, L!Begin(c)
    PROVE  LocatorInv'
  <1> USE LocatorFacts
  <1>1. /\ client[c].at = "idle" /\ UNCHANGED <<current, reqs>> /\ UNCHANGED <<place, home, faults>>
        /\ UNCHANGED <<adapterTable, objectTable>> /\ UNCHANGED background
    BY DEF L!Begin, L!world, L!table
  <1>2. PICK x \in BOOLEAN :
            /\ x = (\/ L!Now(Target[c]) = None
                    \/ \E i \in DOMAIN reqs : /\ reqs[i].state \in {"served", "cached"}
                                              /\ reqs[i].answer # L!Registered(reqs[i].key))
            /\ client' = [client EXCEPT ![c].at = "lookup", ![c].tries = 1, ![c].excused = x]
    BY DEF L!Begin
  <1>3. client[c] \in ClientRecord /\ ClientSound(c)
    BY DEF LocatorInv
  <1> DEFINE y == [client[c] EXCEPT !.at = "lookup", !.tries = 1, !.excused = x]
  <1>a. y \in ClientRecord
    <2>1. x \in BOOLEAN /\ 1 \in 0 .. 2
      BY <1>2
    <2> QED
      BY <1>3, <2>1 DEF ClientRecord
  <1>b. client' = [client EXCEPT ![c] = y]
    BY <1>2, <1>3
  <1>4. /\ client' \in [Clients -> ClientRecord] /\ client'[c] = y
        /\ \A d \in Clients : d # c => client'[d] = client[d]
    BY <1>a, <1>b
  <1>5. /\ client'[c].at = "lookup" /\ client'[c].tries = 1 /\ client'[c].excused = x
        /\ client'[c].key = client[c].key /\ client'[c].wellKnown = client[c].wellKnown
    BY <1>3, <1>4 DEF ClientRecord
  <1>6. WorldStays /\ TablesHeal
    BY <1>1 DEF WorldStays, TablesHeal, AnswersRight, EntryRight, L!Registered
  <1>7. ClientSound(c)'
    <2>1. HolderSound(c, client'[c], reqs') /\ KeySound(c, client'[c])
      BY <1>3, <1>5 DEF HolderSound, KeySound, ClientSound
    <2>2. ~x => L!Now(Target[c])' # None /\ AnswersRight'
      BY <1>1, <1>2, <1>6, WorldStaysGives DEF AnswersRight
    <2> QED
      BY <1>5, <2>1, <2>2 DEF ClientSound, HonestSound, Honest
  <1> QED
    BY <1>1, <1>4, <1>6, <1>7, ClientOnly

\* What a client finds for its key.
LEMMA ResolvedFields ==
    ASSUME NEW b \in ClientRecord, NEW found \in L!Homes, found # None, NEW x \in BOOLEAN,
           found \in Adapters => b.key \in Objects
    PROVE  /\ L!Resolved(b, found, x) \in ClientRecord
           /\ L!Resolved(b, found, x).tries = b.tries /\ L!Resolved(b, found, x).excused = b.excused
           /\ found \in Adapters =>
                  /\ L!Resolved(b, found, x).at = "lookup" /\ L!Resolved(b, found, x).key = found
                  /\ L!Resolved(b, found, x).wellKnown = b.key
           /\ found \notin Adapters =>
                  /\ found \in Endpoints /\ L!Resolved(b, found, x).at = "connect"
                  /\ L!Resolved(b, found, x).endpoint = found /\ L!Resolved(b, found, x).cached = x
                  /\ L!Resolved(b, found, x).key = b.key
                  /\ L!Resolved(b, found, x).wellKnown = b.wellKnown
  <1>1. CASE found \in Adapters
    BY <1>1 DEF L!Resolved, ClientRecord, L!Keys
  <1>2. CASE found \notin Adapters
    BY <1>2 DEF L!Resolved, ClientRecord, L!Homes
  <1> QED
    BY <1>1, <1>2

\* The cache, as far as a client sees it.
LEMMA CachedFacts ==
    ASSUME LocatorInv, NEW k \in L!Keys, L!Cached(k).ref # None
    PROVE  /\ L!Cached(k).ref \in L!Homes
           /\ L!Cached(k).ref \in Adapters => k \in Objects
           /\ k \in Objects => L!Cached(k) = objectTable[k]
  BY LocatorFacts, LocatorAssumption DEF L!Cached, L!Keys, L!Homes

\* A client that has no request, after a step of its own.
LEMMA ClientMoves ==
    ASSUME LocatorInv, NEW c \in Clients, client'[c] \in ClientRecord, WorldStays, TablesHeal,
           client'[c].at \in {"lookup", "request", "connect", "retry", "ok"},
           KeySound(c, client'[c]), Honest(client'[c]) => Honest(client[c]),
           Honest(client'[c]) =>
               /\ client'[c].tries = 2 =>
                      /\ Target[c] \in Objects /\ EntryRight(Target[c])'
                      /\ client'[c].wellKnown # None => client'[c].key = home[Target[c]]
               /\ client'[c].at = "connect" /\ ~client'[c].cached =>
                      client'[c].endpoint = L!Registered(client'[c].key)
               /\ client'[c].at = "retry" =>
                      client'[c].tries # 2 /\ Target[c] \in Objects /\ EntryRight(Target[c])'
    PROVE  ClientSound(c)'
  <1>1. ClientSound(c)
    BY DEF LocatorInv
  <1>2. HolderSound(c, client'[c], reqs')
    BY DEF HolderSound
  <1>3. ASSUME Honest(client'[c]) PROVE HonestSound(c, client[c])'
    <2>1. HonestSound(c, client[c])
      BY <1>1, <1>3 DEF ClientSound
    <2>2. AnswersRight' /\ L!Now(Target[c])' # None
      BY <2>1, WorldStaysGives DEF HonestSound, TablesHeal
    <2> QED
      BY <1>3, <2>2, WorldStaysGives DEF HonestSound, WorldStays
  <1> QED
    BY <1>2, <1>3 DEF ClientSound

\* What is honest about a client whose table entry is right.
LEMMA HonestFacts ==
    ASSUME LocatorInv, NEW c \in Clients
    PROVE  /\ client[c] \in ClientRecord /\ KeySound(c, client[c])
           /\ Honest(client[c]) => HonestSound(c, client[c])
           /\ HolderSound(c, client[c], reqs)
           /\ Target[c] \in L!Keys /\ client[c].key \in L!Keys
  BY LocatorFacts DEF LocatorInv, ClientSound, ClientRecord

\* Steps that touch neither the cache nor the requests.
LEMMA NothingChanges ==
    ASSUME UNCHANGED <<place, home>>, UNCHANGED <<objectTable, reqs>>
    PROVE  WorldStays /\ TablesHeal
  BY DEF WorldStays, TablesHeal, AnswersRight, EntryRight, L!Registered

\* A client uses what the cache says of its key; x: it will be excused.
LEMMA CacheUsed ==
    ASSUME LocatorInv, NEW c \in Clients, client[c].at = "lookup",
           L!Cached(client[c].key).ref # None, client'[c] \in ClientRecord,
           NEW y, y = L!Resolved(client[c], L!Cached(client[c].key).ref, TRUE),
           client'[c].at = y.at, client'[c].key = y.key, client'[c].wellKnown = y.wellKnown,
           client'[c].cached = y.cached, client'[c].tries = y.tries,
           y.excused => client'[c].excused, WorldStays, TablesHeal,
           UNCHANGED objectTable
    PROVE  ClientSound(c)'
  <1> USE LocatorFacts, HonestFacts
  <1> DEFINE b == client[c]  found == L!Cached(client[c].key).ref
  <1>1. found \in L!Homes /\ (found \in Adapters => b.key \in Objects) /\ b \in ClientRecord
        /\ (b.key \in Objects => found = objectTable[b.key].ref)
    BY CachedFacts
  <1>2. /\ y.tries = b.tries /\ y.excused = b.excused
        /\ found \in Adapters => y.at = "lookup" /\ y.key = found /\ y.wellKnown = b.key
        /\ found \notin Adapters => /\ y.at = "connect" /\ y.cached = TRUE /\ y.key = b.key
                                  /\ y.wellKnown = b.wellKnown
    <2>1. y = L!Resolved(b, found, TRUE) /\ found # None
      OBVIOUS
    <2> HIDE DEF b, found
    <2>2. \A x \in BOOLEAN : LET z == L!Resolved(b, found, x) IN
              /\ z.tries = b.tries /\ z.excused = b.excused
              /\ found \in Adapters => z.at = "lookup" /\ z.key = found /\ z.wellKnown = b.key
              /\ found \notin Adapters => /\ z.at = "connect" /\ z.cached = x /\ z.key = b.key
                                        /\ z.wellKnown = b.wellKnown
      BY <1>1, <2>1, ResolvedFields
    <2> QED
      BY <2>1, <2>2, Zenon
  <1>3. b.key \in Objects => b.wellKnown = None /\ b.key = Target[c]
    BY LocatorAssumption DEF KeySound
  <1>4. KeySound(c, client'[c])
    BY ZenonT(60), <1>1, <1>2, <1>3, LocatorAssumption DEF KeySound
  <1>5. Honest(client'[c]) => Honest(b)
    BY <1>2 DEF Honest
  <1>6. ASSUME Honest(b), b.tries = 2
        PROVE  /\ Target[c] \in Objects /\ EntryRight(Target[c])'
               /\ client'[c].wellKnown # None => client'[c].key = home[Target[c]]
    <2>1. /\ Target[c] \in Objects /\ EntryRight(Target[c])
          /\ b.wellKnown # None => b.key = home[Target[c]]
      BY <1>6 DEF HonestSound
    <2>2. EntryRight(Target[c])'
      BY <2>1 DEF EntryRight, WorldStays
    <2> QED
      BY <1>1, <1>2, <1>3, <2>1, <2>2 DEF EntryRight
  <1> QED
    BY <1>2, <1>4, <1>5, <1>6, ClientMoves

\* A step of client c with request n.
LEMMA OneRequestChanges ==
    ASSUME LocatorInv, NEW c \in Clients, client[c].at # "waiting", NEW n \in Slots,
           reqs' \in [Slots -> RequestRecord], \A i \in Slots : i # n => reqs'[i] = reqs[i],
           client' \in [Clients -> ClientRecord],
           \A d \in Clients : d # c => client'[d] = client[d],
           ClientSound(c)', WorldStays, TablesHeal, UNCHANGED faults, UNCHANGED background,
           UNCHANGED adapterTable, UNCHANGED objectTable,
           RequestSound(n, reqs'[n], current', client'), CurrentsSound',
           current' \in [L!Keys -> 0 .. MaxRequests],
           \A i \in Slots : i # n /\ Active(reqs[i]) =>
                                current'[reqs[i].key] = current[reqs[i].key],
           \A d \in Clients : d # c /\ client[d].at \in {"add", "waiting"} /\ client[d].req = n =>
                                  /\ HeldStays(n)
                                  /\ client[d].at = "waiting" => WaitedStays(d, n)
    PROVE  LocatorInv'
  <1> USE LocatorFacts
  <1>1. LocatorTypes'
    BY LocatorTyped DEF WorldStays
  <1>2. RequestsSound'
    <2> SUFFICES ASSUME NEW i \in Slots, i # n PROVE RequestSound(i, reqs'[i], current', client')
      BY DEF RequestsSound
    <2>1. \A d \in Clients : client[d].at = "waiting" /\ client[d].req = i =>
                                 client'[d].at = "waiting" /\ client'[d].req = i
      OBVIOUS
    <2>2. Active(reqs[i]) => current'[reqs[i].key] = current[reqs[i].key]
      OBVIOUS
    <2> QED
      BY <2>1, <2>2, RequestStays
  <1>3. ASSUME NEW d \in Clients, d # c PROVE ClientSound(d)'
    <2>1. HolderSound(d, client[d], reqs)
      BY HonestFacts
    <2>2. client[d].at \in {"add", "waiting"} => HeldStays(client[d].req)
      BY <1>3, <2>1 DEF HeldStays, HolderSound
    <2>3. client[d].at = "waiting" => WaitedStays(d, client[d].req)
      BY <1>3, <2>1 DEF HolderSound, WaitedStays
    <2> QED
      BY <1>3, <2>2, <2>3, BystanderStays
  <1> QED
    BY <1>1, <1>2, <1>3 DEF LocatorInv

\* A free slot is found when there is one.
LEMMA FreeSlotFacts ==
    ASSUME LocatorInv, \E i \in 1 .. MaxRequests : reqs[i] = L!NoRequest
    PROVE  L!FreeSlot \in Slots /\ reqs[L!FreeSlot] = L!NoRequest
  <1> DEFINE T == {i \in Slots : reqs[i] = L!NoRequest}
  <1>1. T \subseteq Nat /\ T # {}
    BY LocatorAssumption DEF Slots
  <1>2. PICK i \in T : \A j \in T : i <= j
    BY <1>1, LeastExists
  <1>3. i \in 1 .. MaxRequests /\ reqs[i] = L!NoRequest
        /\ \A j \in 1 .. i - 1 : reqs[j] # L!NoRequest
    BY <1>2, LocatorAssumption DEF Slots
  <1> QED
    BY <1>3 DEF L!FreeSlot, Slots

\* Nobody holds a slot that is free.
LEMMA FreeIsUnheld ==
    ASSUME LocatorInv, NEW n \in Slots, reqs[n] = L!NoRequest
    PROVE  /\ \A d \in Clients : client[d].at \in {"add", "waiting"} => client[d].req # n
           /\ \A k \in L!Keys : current[k] # n
  <1>1. reqs[n].key = None /\ None \notin L!Keys /\ n # 0
    BY LocatorAssumption DEF L!NoRequest, L!Keys, Slots
  <1> QED
    BY <1>1, HonestFacts DEF LocatorInv, CurrentsSound, CurrentSound, HolderSound

\* What a new request looks like.
LEMMA NewRequestFacts ==
    ASSUME LocatorInv, NEW k \in L!Keys, NEW W, W \subseteq Objects \cup {None},
           NEW x, x \in BOOLEAN, L!NewRequest(k, W, x)
    PROVE  LET n == L!FreeSlot IN
             /\ n \in Slots /\ reqs[n] = L!NoRequest
             /\ current' = [current EXCEPT ![k] = n]
             /\ reqs' \in [Slots -> RequestRecord] /\ \A i \in Slots : i # n => reqs'[i] = reqs[i]
             /\ reqs'[n].key = k /\ reqs'[n].state = "pending" /\ reqs'[n].callbacks = {}
             /\ reqs'[n].answer = None
  <1> USE LocatorFacts
  <1>1. L!FreeSlot \in Slots /\ reqs[L!FreeSlot] = L!NoRequest
    BY FreeSlotFacts DEF L!NewRequest
  <1> DEFINE r == [key |-> k, sent |-> x, state |-> "pending", answer |-> None,
                   callbacks |-> {}, wellKnown |-> W \ {None}]
  <1>2. r \in RequestRecord /\ r.key = k /\ r.state = "pending" /\ r.callbacks = {}
        /\ r.answer = None
    BY DEF RequestRecord, L!Homes
  <1>3. reqs' = [reqs EXCEPT ![L!FreeSlot] = r] /\ current' = [current EXCEPT ![k] = L!FreeSlot]
    BY DEF L!NewRequest
  <1> HIDE DEF r
  <1> QED
    BY <1>1, <1>2, <1>3

\* A new request is the only one for its key: the map had none.
LEMMA NewRequestKeeps ==
    ASSUME LocatorInv, NEW c \in Clients, client[c].at # "waiting",
           NEW k \in L!Keys, current[k] = 0,
           NEW W, W \subseteq Objects \cup {None}, NEW x, x \in BOOLEAN, L!NewRequest(k, W, x),
           client' \in [Clients -> ClientRecord],
           \A d \in Clients : d # c => client'[d] = client[d],
           WorldStays, UNCHANGED faults, UNCHANGED background,
           UNCHANGED adapterTable, UNCHANGED objectTable
    PROVE  TablesHeal /\ (ClientSound(c)' => LocatorInv')
  <1> DEFINE n == L!FreeSlot
  <1>1.      /\ n \in Slots /\ reqs[n] = L!NoRequest
             /\ current' = [current EXCEPT ![k] = n]
             /\ reqs' \in [Slots -> RequestRecord] /\ \A i \in Slots : i # n => reqs'[i] = reqs[i]
             /\ reqs'[n].key = k /\ reqs'[n].state = "pending" /\ reqs'[n].callbacks = {}
             /\ reqs'[n].answer = None
    BY NewRequestFacts
  <1> HIDE DEF n
  <1> USE LocatorFacts
  <1>2. TablesHeal
    <2>1. ASSUME AnswersRight PROVE AnswersRight'
      <3> SUFFICES ASSUME NEW i \in Slots, reqs'[i].state \in {"served", "cached"}
                   PROVE  reqs'[i].answer = L!Registered(reqs'[i].key)
        BY WorldStaysGives DEF AnswersRight
      <3>1. i # n
        BY <1>1
      <3> QED
        BY <1>1, <2>1, <3>1 DEF AnswersRight
    <2> QED
      BY <2>1 DEF TablesHeal, EntryRight, WorldStays
  <1>3. RequestSound(n, reqs'[n], current', client')
    BY <1>1, LocatorAssumption DEF RequestSound
  <1>4. n \in 0 .. MaxRequests /\ n # 0 /\ current' \in [L!Keys -> 0 .. MaxRequests]
    BY <1>1, LocatorAssumption DEF Slots
  <1>5. CurrentsSound'
    <2> SUFFICES ASSUME NEW j \in L!Keys PROVE CurrentSound(j, current'[j], reqs')
      BY DEF CurrentsSound
    <2>1. CASE j = k
      BY <1>1, <2>1 DEF CurrentSound, Active
    <2>2. CASE j # k
      <3>1. current'[j] = current[j] /\ current[j] # n
        BY <1>1, <2>2, FreeIsUnheld
      <3> QED
        BY <1>1, <3>1 DEF LocatorInv, CurrentsSound, CurrentSound
    <2> QED
      BY <2>1, <2>2
  <1>6. \A i \in Slots : i # n /\ Active(reqs[i]) => current'[reqs[i].key] = current[reqs[i].key]
    <2> SUFFICES ASSUME NEW i \in Slots, Active(reqs[i])
                 PROVE  current'[reqs[i].key] = current[reqs[i].key]
      OBVIOUS
    <2>1. reqs[i].key \in L!Keys /\ current[reqs[i].key] = i /\ i # 0
      BY LocatorAssumption DEF LocatorInv, RequestsSound, RequestSound, Slots
    <2> QED
      BY <1>1, <2>1
  <1>7. \A d \in Clients : client[d].at \in {"add", "waiting"} => client[d].req # n
    BY <1>1, FreeIsUnheld
  <1>8. ASSUME ClientSound(c)' PROVE LocatorInv'
    <2>1. \A d \in Clients : d # c /\ client[d].at \in {"add", "waiting"} /\ client[d].req = n =>
                                  /\ HeldStays(n)
                                  /\ client[d].at = "waiting" => WaitedStays(d, n)
      BY <1>7
    <2>2. /\ n \in Slots /\ reqs' \in [Slots -> RequestRecord]
          /\ \A i \in Slots : i # n => reqs'[i] = reqs[i]
      BY <1>1
    <2> QED
      BY <1>2, <1>3, <1>4, <1>5, <1>6, <1>8, <2>1, <2>2, OneRequestChanges
  <1> QED
    BY <1>2, <1>8

\* A request under way takes one more well-known object.
LEMMA JoinKeeps ==
    ASSUME LocatorInv, NEW c \in Clients, client[c].at # "waiting",
           NEW k \in L!Keys, current[k] # 0,
           NEW W, W \subseteq Objects \cup {None}, L!JoinRequest(k, W),
           client' \in [Clients -> ClientRecord],
           \A d \in Clients : d # c => client'[d] = client[d],
           WorldStays, UNCHANGED faults, UNCHANGED background,
           UNCHANGED adapterTable, UNCHANGED objectTable
    PROVE  TablesHeal /\ (ClientSound(c)' => LocatorInv')
  <1> USE LocatorFacts
  <1> DEFINE n == current[k]
  <1>1. n \in Slots /\ reqs[n].key = k /\ Active(reqs[n]) /\ reqs[n] \in RequestRecord
    BY DEF LocatorInv, CurrentsSound, CurrentSound
  <1>2. RequestSound(n, reqs[n], current, client)
    BY <1>1 DEF LocatorInv, RequestsSound
  <1> HIDE DEF n
  <1> DEFINE r == [reqs[n] EXCEPT !.wellKnown = @ \cup (W \ {None}), !.sent = TRUE]
  <1>3. /\ r \in RequestRecord /\ r.key = reqs[n].key /\ r.state = reqs[n].state
        /\ r.answer = reqs[n].answer /\ r.callbacks = reqs[n].callbacks /\ r.sent = TRUE
        /\ reqs[n].wellKnown \subseteq r.wellKnown
    BY <1>1 DEF RequestRecord
  <1>4. reqs' = [reqs EXCEPT ![n] = r] /\ UNCHANGED current
    BY DEF L!JoinRequest, n
  <1> HIDE DEF r
  <1>5. /\ reqs' \in [Slots -> RequestRecord] /\ \A i \in Slots : i # n => reqs'[i] = reqs[i]
        /\ reqs'[n] = r
    BY <1>1, <1>3, <1>4
  <1>6. \A i \in Slots : reqs'[i].key = reqs[i].key /\ reqs'[i].state = reqs[i].state
                         /\ reqs'[i].answer = reqs[i].answer
    BY <1>3, <1>5
  <1>7. TablesHeal
    BY <1>6, WorldStaysGives DEF TablesHeal, AnswersRight, EntryRight, WorldStays
  <1>8. RequestSound(n, reqs'[n], current', client')
    <2>1. \A d \in reqs[n].callbacks : client'[d].at = "waiting" /\ client'[d].req = n
      BY <1>1, <1>2 DEF RequestSound, RequestRecord
    <2>2. reqs'[n].key \in L!Keys
      BY <1>1, <1>6
    <2> QED
      BY <1>2, <1>3, <1>4, <1>5, <2>1, <2>2 DEF RequestSound, Active
  <1>9. CurrentsSound'
    BY <1>4, <1>6 DEF LocatorInv, CurrentsSound, CurrentSound, Active
  <1>10. ASSUME NEW d \in Clients, client[d].at \in {"add", "waiting"}, client[d].req = n
         PROVE  HeldStays(n) /\ (client[d].at = "waiting" => WaitedStays(d, n))
    BY <1>1, <1>3, <1>5 DEF HeldStays, WaitedStays, Active
  <1> QED
    BY <1>1, <1>4, <1>5, <1>7, <1>8, <1>9, <1>10, OneRequestChanges

\* One client's record is replaced.
LEMMA ClientReplaced ==
    ASSUME LocatorInv, NEW c \in Clients, NEW y \in ClientRecord, client' = [client EXCEPT ![c] = y]
    PROVE  /\ client' \in [Clients -> ClientRecord] /\ client'[c] = y
           /\ \A d \in Clients : d # c => client'[d] = client[d]
  BY LocatorFacts

\* getEndpoints(): a hit, an expired entry with a background update, or a miss.
LEMMA LookupKeeps ==
    ASSUME LocatorInv, NEW c \in Clients, L!Lookup(c)
    PROVE  LocatorInv'
  <1> USE LocatorFacts, HonestFacts
  <1> DEFINE b == client[c]  found == L!Cached(b.key).ref  y == L!Resolved(b, found, TRUE)
  <1>1. /\ b.at = "lookup" /\ UNCHANGED <<place, home, faults>> /\ UNCHANGED background
        /\ UNCHANGED <<adapterTable, objectTable>>
    BY DEF L!Lookup, L!world, L!table
  <1>2. WorldStays
    BY <1>1 DEF WorldStays
  <1>3. ASSUME found # None PROVE y \in ClientRecord
    <2>1. found \in L!Homes /\ (found \in Adapters => b.key \in Objects)
      BY <1>3, CachedFacts
    <2> HIDE DEF b, found
    <2>2. \A x \in BOOLEAN : L!Resolved(b, found, x) \in ClientRecord
      BY <1>3, <2>1, ResolvedFields DEF b
    <2> QED
      BY <2>2, Zenon
  <1>4. CASE L!Hit(b.key) /\ client' = [client EXCEPT ![c] = y] /\ UNCHANGED <<current, reqs>>
    <2>1. found # None
      BY <1>4 DEF L!Hit
    <2>2. WorldStays /\ TablesHeal
      BY <1>1, <1>4, NothingChanges
    <2>3. /\ client' \in [Clients -> ClientRecord] /\ client'[c] = y
          /\ \A d \in Clients : d # c => client'[d] = client[d]
      BY <1>3, <1>4, <2>1, ClientReplaced
    <2>4. ClientSound(c)'
      BY <1>1, <2>1, <2>2, <2>3, CacheUsed
    <2> QED
      BY <1>1, <1>4, <2>2, <2>3, <2>4, ClientOnly
  <1>5. CASE /\ L!Stale(b.key) /\ client' = [client EXCEPT ![c] = [y EXCEPT !.excused = TRUE]]
             /\ IF current[b.key] = 0 THEN L!NewRequest(b.key, {b.wellKnown}, TRUE)
                ELSE L!JoinRequest(b.key, {b.wellKnown})
    <2>1. found # None
      BY <1>5 DEF L!Stale
    <2> DEFINE z == [y EXCEPT !.excused = TRUE]
    <2>2. /\ z \in ClientRecord /\ z.at = y.at /\ z.key = y.key /\ z.wellKnown = y.wellKnown
          /\ z.cached = y.cached /\ z.tries = y.tries /\ z.excused = TRUE
      <3>1. y \in ClientRecord
        BY <1>3, <2>1
      <3> HIDE DEF y
      <3> QED
        BY <3>1 DEF ClientRecord
    <2> HIDE DEF y, z
    <2>3. /\ client' \in [Clients -> ClientRecord] /\ client'[c] = z
          /\ \A d \in Clients : d # c => client'[d] = client[d]
      BY <1>5, <2>2, ClientReplaced DEF z
    <2>4. {b.wellKnown} \subseteq Objects \cup {None} /\ b.key \in L!Keys
      BY DEF ClientRecord
    <2>5. TablesHeal /\ (ClientSound(c)' => LocatorInv')
      <3>1. CASE current[b.key] = 0
        <4>1. \A x : x \in BOOLEAN /\ L!NewRequest(b.key, {b.wellKnown}, x) =>
                         TablesHeal /\ (ClientSound(c)' => LocatorInv')
          BY ZenonT(60), <1>1, <1>2, <2>3, <2>4, <3>1, NewRequestKeeps
        <4>2. L!NewRequest(b.key, {b.wellKnown}, TRUE)
          BY <1>5, <3>1
        <4> QED
          BY <4>1, <4>2, Zenon
      <3>2. CASE current[b.key] # 0
        <4>0. PICK V : V = {b.wellKnown}
          OBVIOUS
        <4>1. L!JoinRequest(b.key, V) /\ V \subseteq Objects \cup {None}
          BY <1>5, <2>4, <3>2, <4>0
        <4>2. \A W : W \subseteq Objects \cup {None} /\ L!JoinRequest(b.key, W) =>
                         TablesHeal /\ (ClientSound(c)' => LocatorInv')
          BY <1>1, <1>2, <2>3, <2>4, <3>2, JoinKeeps
        <4> QED
          BY <4>1, <4>2
      <3> QED
        BY <3>1, <3>2
    <2>6. ClientSound(c)'
      BY <1>1, <1>2, <2>1, <2>2, <2>3, <2>5, CacheUsed DEF y
    <2> QED
      BY <2>5, <2>6
  <1>6. CASE client' = [client EXCEPT ![c].at = "request"] /\ UNCHANGED <<current, reqs>>
    <2> DEFINE z == [b EXCEPT !.at = "request"]
    <2>1. /\ z \in ClientRecord /\ z.at = "request" /\ z.key = b.key /\ z.wellKnown = b.wellKnown
          /\ z.tries = b.tries /\ z.excused = b.excused
      BY DEF ClientRecord
    <2>2. client' = [client EXCEPT ![c] = z]
      BY <1>6
    <2> HIDE DEF z
    <2>3. /\ client' \in [Clients -> ClientRecord] /\ client'[c] = z
          /\ \A d \in Clients : d # c => client'[d] = client[d]
      BY <2>1, <2>2, ClientReplaced
    <2>4. WorldStays /\ TablesHeal
      BY <1>1, <1>6, NothingChanges
    <2>5. KeySound(c, client'[c])
      BY <2>1, <2>3 DEF KeySound
    <2>6. Honest(client'[c]) => Honest(client[c])
      BY <1>1, <2>1, <2>3 DEF Honest
    <2>7. Honest(client[c]) /\ b.tries = 2 =>
              /\ Target[c] \in Objects /\ EntryRight(Target[c])'
              /\ b.wellKnown # None => b.key = home[Target[c]]
      BY <1>1 DEF HonestSound, EntryRight
    <2>8. ClientSound(c)'
      BY <2>1, <2>3, <2>4, <2>5, <2>6, <2>7, ClientMoves
    <2> QED
      BY <1>1, <1>6, <2>3, <2>4, <2>8, ClientOnly
  <1> QED
    BY <1>4, <1>5, <1>6 DEF L!Lookup

\* A client that has a request and is about to add itself.
LEMMA HasRequest ==
    ASSUME LocatorInv, NEW c \in Clients, client[c].at = "request", client'[c] \in ClientRecord,
           client'[c].at = "add", client'[c].key = client[c].key,
           client'[c].wellKnown = client[c].wellKnown, client'[c].tries = client[c].tries,
           client'[c].excused = client[c].excused,
           client'[c].req \in Slots, reqs'[client'[c].req].key = client[c].key,
           Active(reqs'[client'[c].req]), WorldStays, TablesHeal, UNCHANGED objectTable
    PROVE  ClientSound(c)'
  <1> USE LocatorFacts, HonestFacts
  <1>1. HolderSound(c, client'[c], reqs') /\ KeySound(c, client'[c])
    BY DEF HolderSound, KeySound
  <1>2. ASSUME Honest(client'[c]) PROVE HonestSound(c, client[c])'
    <2>1. HonestSound(c, client[c])
      BY <1>2 DEF Honest
    <2>2. AnswersRight' /\ L!Now(Target[c])' # None
      BY <2>1, WorldStaysGives DEF HonestSound, TablesHeal
    <2>3. client[c].tries = 2 => /\ Target[c] \in Objects /\ EntryRight(Target[c])'
                                 /\ client[c].wellKnown # None => client[c].key = home'[Target[c]]
      BY <2>1 DEF HonestSound, EntryRight, WorldStays
    <2> QED
      BY <2>2, <2>3 DEF HonestSound
  <1> QED
    BY <1>1, <1>2 DEF ClientSound

\* getAdapterRequest() and getObjectRequest(): the request of the map, or a new one.
LEMMA GetRequestKeeps ==
    ASSUME LocatorInv, NEW c \in Clients, L!GetRequest(c)
    PROVE  LocatorInv'
  <1> USE LocatorFacts, HonestFacts
  <1> DEFINE b == client[c]
  <1>1. /\ b.at = "request" /\ UNCHANGED <<place, home, faults>> /\ UNCHANGED background
        /\ UNCHANGED <<adapterTable, objectTable>>
    BY DEF L!GetRequest, L!world, L!table
  <1>2. WorldStays
    BY <1>1 DEF WorldStays
  <1>3. ASSUME NEW n \in Slots, client' = [client EXCEPT ![c].at = "add", ![c].req = n]
        PROVE  /\ client' \in [Clients -> ClientRecord]
               /\ \A d \in Clients : d # c => client'[d] = client[d]
               /\ client'[c].at = "add" /\ client'[c].req = n /\ client'[c].key = b.key
               /\ client'[c].wellKnown = b.wellKnown /\ client'[c].tries = b.tries
               /\ client'[c].excused = b.excused
    <2> DEFINE z == [b EXCEPT !.at = "add", !.req = n]
    <2>1. n \in Nat
      BY LocatorAssumption DEF Slots
    <2>2. /\ z \in ClientRecord /\ z.at = "add" /\ z.key = b.key /\ z.wellKnown = b.wellKnown
          /\ z.tries = b.tries /\ z.excused = b.excused /\ z.req = n
      BY <2>1 DEF ClientRecord
    <2>3. client' = [client EXCEPT ![c] = z]
      BY <1>3
    <2> HIDE DEF z
    <2> QED
      BY <2>2, <2>3, ClientReplaced
  <1>4. CASE /\ current[b.key] # 0 /\ UNCHANGED <<current, reqs>>
             /\ client' = [client EXCEPT ![c].at = "add", ![c].req = current[b.key]]
    <2>1. /\ current[b.key] \in Slots /\ reqs[current[b.key]].key = b.key
          /\ Active(reqs[current[b.key]])
      BY <1>4 DEF LocatorInv, CurrentsSound, CurrentSound
    <2>2. TablesHeal
      BY <1>1, <1>4, NothingChanges
    <2>3. /\ client' \in [Clients -> ClientRecord]
          /\ \A d \in Clients : d # c => client'[d] = client[d]
          /\ client'[c].at = "add" /\ client'[c].req = current[b.key] /\ client'[c].key = b.key
          /\ client'[c].wellKnown = b.wellKnown /\ client'[c].tries = b.tries
          /\ client'[c].excused = b.excused
      BY <1>3, <1>4, <2>1
    <2>4. ClientSound(c)'
      BY <1>1, <1>2, <1>4, <2>1, <2>2, <2>3, HasRequest
    <2> QED
      BY <1>1, <1>2, <1>4, <2>2, <2>3, <2>4, ClientOnly
  <1>5. CASE /\ current[b.key] = 0 /\ L!NewRequest(b.key, {}, FALSE)
             /\ client' = [client EXCEPT ![c].at = "add", ![c].req = L!FreeSlot]
    <2> DEFINE n == L!FreeSlot
    <2>1. /\ n \in Slots /\ reqs'[n].key = b.key /\ reqs'[n].state = "pending"
      <3>1. \A x : x \in BOOLEAN /\ L!NewRequest(b.key, {}, x) =>
                       n \in Slots /\ reqs'[n].key = b.key /\ reqs'[n].state = "pending"
        BY NewRequestFacts
      <3> QED
        BY <1>5, <3>1, Zenon
    <2> HIDE DEF n
    <2>2. /\ client' \in [Clients -> ClientRecord]
          /\ \A d \in Clients : d # c => client'[d] = client[d]
          /\ client'[c].at = "add" /\ client'[c].req = n /\ client'[c].key = b.key
          /\ client'[c].wellKnown = b.wellKnown /\ client'[c].tries = b.tries
          /\ client'[c].excused = b.excused
      BY <1>3, <1>5, <2>1 DEF n
    <2>3. TablesHeal /\ (ClientSound(c)' => LocatorInv')
      <3>1. \A x : x \in BOOLEAN /\ L!NewRequest(b.key, {}, x) =>
                       TablesHeal /\ (ClientSound(c)' => LocatorInv')
        BY <1>1, <1>2, <1>5, <2>2, NewRequestKeeps
      <3> QED
        BY <1>5, <3>1, Zenon
    <2>4. ClientSound(c)'
      BY <1>1, <1>2, <2>1, <2>2, <2>3, HasRequest DEF Active
    <2> QED
      BY <2>3, <2>4
  <1> QED
    BY <1>4, <1>5 DEF L!GetRequest

\* clearCache() and the cache: entries only go.
LEMMA ClearCacheFacts ==
    ASSUME LocatorInv, NEW k \in L!Keys, L!ClearCache(k), UNCHANGED reqs, WorldStays
    PROVE  /\ adapterTable' \in [Adapters -> [ref : Endpoints \cup {None}, fresh : BOOLEAN]]
           /\ objectTable' \in [Objects -> [ref : L!Homes, fresh : BOOLEAN]]
           /\ TablesHeal
           /\ k \in Objects => EntryRight(k)'
  <1> USE LocatorFacts
  <1>1. /\ L!NoEntry \in [ref : Endpoints \cup {None}, fresh : BOOLEAN]
        /\ L!NoEntry \in [ref : L!Homes, fresh : BOOLEAN] /\ L!NoEntry.ref = None
    BY DEF L!NoEntry, L!Homes
  <1>2. objectTable' = [o \in Objects |-> IF o = k THEN L!NoEntry ELSE objectTable[o]]
    BY DEF L!ClearCache
  <1>3. PICK x : adapterTable' = [a \in Adapters |-> IF a = x THEN L!NoEntry ELSE adapterTable[a]]
    BY DEF L!ClearCache
  <1>4. adapterTable' \in [Adapters -> [ref : Endpoints \cup {None}, fresh : BOOLEAN]]
    BY <1>1, <1>3
  <1>5. objectTable' \in [Objects -> [ref : L!Homes, fresh : BOOLEAN]]
    BY <1>1, <1>2
  <1>6. \A o \in Objects : EntryRight(o) => EntryRight(o)'
    BY <1>1, <1>2 DEF EntryRight, WorldStays
  <1>7. AnswersRight => AnswersRight'
    BY WorldStaysGives DEF AnswersRight
  <1>8. k \in Objects => EntryRight(k)'
    BY <1>1, <1>2 DEF EntryRight
  <1> QED
    BY <1>4, <1>5, <1>6, <1>7, <1>8 DEF TablesHeal

\* A client that was given the endpoint that the locator knows fails only because it came
\* by way of an object's old adapter, and in its first try.
LEMMA WrongEndpoint ==
    ASSUME LocatorInv, NEW c \in Clients, Honest(client[c]),
           client[c].at = "connect", ~client[c].cached, L!Now(Target[c]) # client[c].endpoint
    PROVE  Target[c] \in Objects /\ client[c].tries # 2
  <1> USE LocatorFacts, HonestFacts
  <1> DEFINE b == client[c]
  <1>1. /\ HonestSound(c, b) /\ b.endpoint = L!Registered(b.key) /\ L!Now(Target[c]) # None
        /\ b.tries = 2 => Target[c] \in Objects /\ (b.wellKnown # None => b.key = home[Target[c]])
    BY DEF HonestSound
  <1>2. b.endpoint \in Endpoints \cup {None} /\ KeySound(c, b) /\ Target[c] \in L!Keys
    BY DEF ClientRecord
  <1>3. CASE b.wellKnown = None
    <2>1. b.key = Target[c]
      BY <1>2, <1>3 DEF KeySound
    <2>2. CASE Target[c] \in Adapters
      BY <1>1, <2>1, <2>2 DEF L!Registered, L!Now
    <2>3. CASE Target[c] \in Objects
      <3>1. Target[c] \notin Adapters /\ b.endpoint = home[Target[c]]
            /\ home[Target[c]] \notin Adapters
        BY <1>1, <1>2, <2>1, <2>3, LocatorAssumption DEF L!Registered
      <3> QED
        BY <3>1 DEF L!Now
    <2> QED
      BY <1>2, <2>2, <2>3 DEF L!Keys
  <1>4. CASE b.wellKnown # None
    <2>1. Target[c] \in Objects /\ b.key \in Adapters /\ Target[c] \notin Adapters
      BY <1>2, <1>4, LocatorAssumption DEF KeySound
    <2>2. b.endpoint = place[b.key]
      BY <1>1, <2>1 DEF L!Registered
    <2>3. ASSUME b.tries = 2 PROVE FALSE
      BY <1>1, <1>4, <2>1, <2>2, <2>3 DEF L!Now
    <2> QED
      BY <2>1, <2>3
  <1> QED
    BY <1>3, <1>4

\* The connection is made, or the cache is cleared and asked again.
LEMMA ConnectKeeps ==
    ASSUME LocatorInv, NEW c \in Clients, L!Connect(c)
    PROVE  LocatorInv'
  <1> USE LocatorFacts, HonestFacts
  <1> DEFINE b == client[c]
  <1>1. b.at = "connect" /\ UNCHANGED <<place, home, faults>> /\ UNCHANGED background
        /\ UNCHANGED <<current, reqs>>
    BY DEF L!Connect, L!world
  <1>2. WorldStays
    BY <1>1 DEF WorldStays
  <1>3. CASE client' = [client EXCEPT ![c].at = "ok"] /\ UNCHANGED <<adapterTable, objectTable>>
    <2> DEFINE z == [b EXCEPT !.at = "ok"]
    <2>1. z \in ClientRecord /\ z.at = "ok" /\ z.key = b.key /\ z.wellKnown = b.wellKnown
      BY DEF ClientRecord
    <2>2. client' = [client EXCEPT ![c] = z]
      BY <1>3
    <2> HIDE DEF z
    <2>3. /\ client' \in [Clients -> ClientRecord] /\ client'[c] = z
          /\ \A d \in Clients : d # c => client'[d] = client[d]
      BY <2>1, <2>2, ClientReplaced
    <2>4. TablesHeal
      BY <1>1, <1>3, NothingChanges
    <2>5. ClientSound(c)'
      BY <2>1, <2>3 DEF ClientSound, HolderSound, KeySound, Honest
    <2> QED
      BY <1>1, <1>2, <1>3, <2>3, <2>4, <2>5, ClientOnly
  <1>4. CASE /\ L!Now(Target[c]) # b.endpoint /\ L!ClearCache(Target[c])
             /\ client' = [client EXCEPT ![c] =
                    IF b.cached
                    THEN [b EXCEPT !.at = "lookup", !.key = Target[c], !.wellKnown = None]
                    ELSE [b EXCEPT !.at = "retry"]]
    <2> DEFINE z == IF b.cached
                    THEN [b EXCEPT !.at = "lookup", !.key = Target[c], !.wellKnown = None]
                    ELSE [b EXCEPT !.at = "retry"]
    <2>1. /\ z \in ClientRecord /\ z.tries = b.tries /\ z.excused = b.excused
          /\ b.cached => z.at = "lookup" /\ z.key = Target[c] /\ z.wellKnown = None
          /\ ~b.cached => z.at = "retry" /\ z.key = b.key /\ z.wellKnown = b.wellKnown
      <3>1. CASE b.cached
        BY ZenonT(60), <3>1 DEF ClientRecord
      <3>2. CASE ~b.cached
        BY <3>2 DEF ClientRecord
      <3> QED
        BY <3>1, <3>2
    <2>2. client' = [client EXCEPT ![c] = z]
      BY <1>4
    <2> HIDE DEF z
    <2>3. /\ client' \in [Clients -> ClientRecord] /\ client'[c] = z
          /\ \A d \in Clients : d # c => client'[d] = client[d]
      BY <2>1, <2>2, ClientReplaced
    <2>4. /\ adapterTable' \in [Adapters -> [ref : Endpoints \cup {None}, fresh : BOOLEAN]]
          /\ objectTable' \in [Objects -> [ref : L!Homes, fresh : BOOLEAN]]
          /\ TablesHeal /\ (Target[c] \in Objects => EntryRight(Target[c])')
      BY <1>1, <1>2, <1>4, ClearCacheFacts
    <2>5. KeySound(c, client'[c])
      BY <2>1, <2>3 DEF KeySound
    <2>6. Honest(client'[c]) => Honest(b)
      BY <1>1, <2>1, <2>3 DEF Honest
    <2>7. Honest(b) /\ ~b.cached => Target[c] \in Objects /\ b.tries # 2
      BY <1>1, <1>4, WrongEndpoint
    <2>8. Honest(b) /\ b.tries = 2 => Target[c] \in Objects
      BY DEF HonestSound
    <2>9. ClientSound(c)'
      BY <1>2, <2>1, <2>3, <2>4, <2>5, <2>6, <2>7, <2>8, ClientMoves
    <2> QED
      BY <1>1, <1>2, <2>3, <2>4, <2>9, ClientOnly
  <1> QED
    BY <1>3, <1>4 DEF L!Connect, L!table

\* Another server answers: the cache is cleared for well-known objects.
LEMMA WrongServerKeeps ==
    ASSUME LocatorInv, NEW c \in Clients, L!WrongServer(c)
    PROVE  LocatorInv'
  <1> USE LocatorFacts, HonestFacts
  <1> DEFINE b == client[c]
  <1>1. b.at = "connect" /\ UNCHANGED <<place, home, faults>> /\ UNCHANGED background
        /\ UNCHANGED <<current, reqs>>
        /\ IF Target[c] \in Objects THEN L!ClearCache(Target[c])
           ELSE UNCHANGED <<adapterTable, objectTable>>
    BY DEF L!WrongServer, L!world, L!table
  <1>2. WorldStays
    BY <1>1 DEF WorldStays
  <1>3. PICK x \in BOOLEAN :
            /\ ~x => ~b.excused /\ b.tries # 2 /\ Target[c] \notin Adapters
            /\ client' = [client EXCEPT ![c].at = "retry", ![c].excused = x]
    <2> DEFINE x == b.excused \/ b.tries = 2 \/ Target[c] \in Adapters
    <2>1. b.excused \in BOOLEAN /\ x \in BOOLEAN
      BY DEF ClientRecord
    <2> QED
      BY <2>1 DEF L!WrongServer
  <1> DEFINE z == [b EXCEPT !.at = "retry", !.excused = x]
  <1>4. /\ z \in ClientRecord /\ z.tries = b.tries /\ z.excused = x
        /\ z.at = "retry" /\ z.key = b.key /\ z.wellKnown = b.wellKnown
    BY DEF ClientRecord
  <1>5. client' = [client EXCEPT ![c] = z]
    BY <1>3
  <1> HIDE DEF z
  <1>6. /\ client' \in [Clients -> ClientRecord] /\ client'[c] = z
        /\ \A d \in Clients : d # c => client'[d] = client[d]
    BY <1>4, <1>5, ClientReplaced
  <1>7. /\ adapterTable' \in [Adapters -> [ref : Endpoints \cup {None}, fresh : BOOLEAN]]
        /\ objectTable' \in [Objects -> [ref : L!Homes, fresh : BOOLEAN]]
        /\ TablesHeal /\ (Target[c] \in Objects => EntryRight(Target[c])')
    <2>1. CASE Target[c] \in Objects
      BY <1>1, <1>2, <2>1, ClearCacheFacts
    <2>2. CASE Target[c] \notin Objects
      BY <1>1, <2>2, NothingChanges
    <2> QED
      BY <2>1, <2>2
  <1>8. KeySound(c, client'[c])
    BY <1>4, <1>6 DEF KeySound
  <1>9. Honest(client'[c]) => Honest(b) /\ b.tries # 2 /\ Target[c] \in Objects
    BY <1>1, <1>3, <1>4, <1>6 DEF Honest, L!Keys
  <1>10. ClientSound(c)'
    BY <1>2, <1>4, <1>6, <1>7, <1>8, <1>9, ClientMoves
  <1> QED
    BY <1>1, <1>2, <1>6, <1>7, <1>10, ClientOnly

\* The one retry: a client that is not excused has a try left.
LEMMA RetryKeeps ==
    ASSUME LocatorInv, NEW c \in Clients, L!Retry(c)
    PROVE  LocatorInv'
  <1> USE LocatorFacts, HonestFacts
  <1> DEFINE b == client[c]
  <1>1. b.at = "retry" /\ UNCHANGED <<place, home, faults>> /\ UNCHANGED background
        /\ UNCHANGED <<current, reqs>> /\ UNCHANGED <<adapterTable, objectTable>>
    BY DEF L!Retry, L!world, L!table
  <1>2. WorldStays /\ TablesHeal
    BY <1>1, NothingChanges
  <1>3. b.tries \in 0 .. 2
    BY DEF ClientRecord
  <1>4. Honest(b) => b.tries # 2 /\ Target[c] \in Objects /\ EntryRight(Target[c])'
    BY <1>1 DEF HonestSound, EntryRight
  <1>5. CASE b.tries < 2
    <2> DEFINE z == [b EXCEPT !.at = "lookup", !.key = Target[c], !.wellKnown = None,
                              !.tries = b.tries + 1]
    <2>1. b.tries + 1 \in 0 .. 2
      BY <1>3, <1>5
    <2>2. /\ z \in ClientRecord /\ z.tries = b.tries + 1 /\ z.excused = b.excused
          /\ z.at = "lookup" /\ z.key = Target[c] /\ z.wellKnown = None
      BY <2>1 DEF ClientRecord
    <2>3. client' = [client EXCEPT ![c] = z]
      BY <1>5 DEF L!Retry
    <2> HIDE DEF z
    <2>4. /\ client' \in [Clients -> ClientRecord] /\ client'[c] = z
          /\ \A d \in Clients : d # c => client'[d] = client[d]
      BY <2>2, <2>3, ClientReplaced
    <2>5. KeySound(c, client'[c]) /\ (Honest(client'[c]) => Honest(b))
      BY <1>1, <2>2, <2>4 DEF KeySound, Honest
    <2>6. ClientSound(c)'
      BY <1>2, <1>4, <2>2, <2>4, <2>5, ClientMoves
    <2> QED
      BY <1>1, <1>2, <2>4, <2>6, ClientOnly
  <1>6. CASE ~(b.tries < 2)
    <2> DEFINE z == [b EXCEPT !.at = "failed"]
    <2>1. /\ z \in ClientRecord /\ z.excused = b.excused
          /\ z.at = "failed" /\ z.key = b.key /\ z.wellKnown = b.wellKnown
      BY DEF ClientRecord
    <2>2. client' = [client EXCEPT ![c] = z]
      BY <1>6 DEF L!Retry
    <2> HIDE DEF z
    <2>3. /\ client' \in [Clients -> ClientRecord] /\ client'[c] = z
          /\ \A d \in Clients : d # c => client'[d] = client[d]
      BY <2>1, <2>2, ClientReplaced
    <2>4. b.excused
      <3>1. b.tries = 2
        BY <1>3, <1>6
      <3> QED
        BY <1>1, <1>4, <3>1 DEF Honest
    <2>5. ClientSound(c)'
      BY <2>1, <2>3, <2>4 DEF ClientSound, HolderSound, KeySound, Honest
    <2> QED
      BY <1>1, <1>2, <2>3, <2>5, ClientOnly
  <1> QED
    BY <1>5, <1>6

\* What a client makes of the answer a.
LEMMA AnsweredFields ==
    ASSUME NEW b \in ClientRecord, NEW a \in L!Homes \cup {Null, Failed},
           a \in Adapters => b.key \in Objects
    PROVE  /\ L!Answered(b, a) \in ClientRecord
           /\ L!Answered(b, a).tries = b.tries /\ L!Answered(b, a).excused = b.excused
           /\ a \in {None, Null, Failed} =>
                  /\ L!Answered(b, a).at = "retry" /\ L!Answered(b, a).key = b.key
                  /\ L!Answered(b, a).wellKnown = b.wellKnown
           /\ a \in Adapters =>
                  /\ L!Answered(b, a).at = "lookup" /\ L!Answered(b, a).key = a
                  /\ L!Answered(b, a).wellKnown = b.key
           /\ a \in Endpoints =>
                  /\ L!Answered(b, a).at = "connect" /\ L!Answered(b, a).endpoint = a
                  /\ L!Answered(b, a).cached = FALSE /\ L!Answered(b, a).key = b.key
                  /\ L!Answered(b, a).wellKnown = b.wellKnown
  <1> DEFINE w == L!Answered(b, a)
  <1>1. CASE a \in {None, Null, Failed}
    <2>1. /\ w \in ClientRecord /\ w.tries = b.tries /\ w.excused = b.excused
          /\ w.at = "retry" /\ w.key = b.key /\ w.wellKnown = b.wellKnown
      BY <1>1 DEF L!Answered, ClientRecord
    <2>2. a \notin Adapters /\ a \notin Endpoints
      BY <1>1, LocatorAssumption
    <2> QED
      BY <2>1, <2>2
  <1>2. CASE a \notin {None, Null, Failed}
    <2>1. w = L!Resolved(b, a, FALSE) /\ a \in L!Homes /\ a # None
      BY <1>2 DEF L!Answered
    <2> HIDE DEF w
    <2>2. \A v \in BOOLEAN : LET u == L!Resolved(b, a, v) IN
              /\ u \in ClientRecord /\ u.tries = b.tries /\ u.excused = b.excused
              /\ a \in Adapters => u.at = "lookup" /\ u.key = a /\ u.wellKnown = b.key
              /\ a \notin Adapters => /\ u.at = "connect" /\ u.endpoint = a /\ u.cached = v
                                      /\ u.key = b.key /\ u.wellKnown = b.wellKnown
      BY <2>1, ResolvedFields
    <2>3. /\ w \in ClientRecord /\ w.tries = b.tries /\ w.excused = b.excused
          /\ a \in Adapters => w.at = "lookup" /\ w.key = a /\ w.wellKnown = b.key
          /\ a \notin Adapters => /\ w.at = "connect" /\ w.endpoint = a /\ w.cached = FALSE
                                  /\ w.key = b.key /\ w.wellKnown = b.wellKnown
      BY <2>1, <2>2, Zenon
    <2>4. a \in Endpoints => a \notin Adapters
      BY LocatorAssumption
    <2> QED
      BY <1>2, <2>3, <2>4 DEF w
  <1> QED
    BY <1>1, <1>2

\* Client c is given the answer a, by its request or by itself; x: it is excused.
LEMMA AnswerTaken ==
    ASSUME LocatorInv, NEW c \in Clients, client[c].at \in {"add", "waiting"},
           NEW a \in L!Homes \cup {Null, Failed}, a \in Adapters => client[c].key \in Objects,
           NEW x \in BOOLEAN, client[c].excused => x,
           NEW w, w = L!Answered(client[c], a),
           client'[c] = [w EXCEPT !.req = 0, !.excused = x],
           ~x => a = L!Registered(client[c].key),
           ~x /\ client[c].wellKnown # None /\ a \notin Endpoints => EntryRight(Target[c])',
           WorldStays, TablesHeal, UNCHANGED objectTable
    PROVE  client'[c] \in ClientRecord /\ ClientSound(c)'
  <1> USE LocatorFacts, HonestFacts
  <1> DEFINE b == client[c]
  <1> DEFINE y == [w EXCEPT !.req = 0, !.excused = x]
  <1>0. /\ w \in ClientRecord /\ w.tries = b.tries
        /\ a \in {None, Null, Failed} =>
               w.at = "retry" /\ w.key = b.key /\ w.wellKnown = b.wellKnown
        /\ a \in Adapters => w.at = "lookup" /\ w.key = a /\ w.wellKnown = b.key
        /\ a \in Endpoints => /\ w.at = "connect" /\ w.endpoint = a /\ w.cached = FALSE
                              /\ w.key = b.key /\ w.wellKnown = b.wellKnown
    <2>1. b \in ClientRecord /\ (a \in Adapters => b.key \in Objects) /\ w = L!Answered(b, a)
      OBVIOUS
    <2>a. a \in L!Homes \cup {Null, Failed}
      OBVIOUS
    <2> HIDE DEF b
    <2> QED
      BY ONLY <2>1, <2>a, AnsweredFields
  <1>1. /\ y \in ClientRecord /\ y.tries = b.tries /\ y.excused = x
        /\ a \in {None, Null, Failed} =>
               y.at = "retry" /\ y.key = b.key /\ y.wellKnown = b.wellKnown
        /\ a \in Adapters => y.at = "lookup" /\ y.key = a /\ y.wellKnown = b.key
        /\ a \in Endpoints => /\ y.at = "connect" /\ y.endpoint = a /\ y.cached = FALSE
                              /\ y.key = b.key /\ y.wellKnown = b.wellKnown
    <2>1. /\ y \in ClientRecord /\ y.tries = w.tries /\ y.excused = x /\ y.at = w.at
          /\ y.endpoint = w.endpoint /\ y.cached = w.cached /\ y.key = w.key
          /\ y.wellKnown = w.wellKnown
      BY <1>0 DEF ClientRecord
    <2> HIDE DEF y
    <2> QED
      BY <1>0, <2>1
  <1>2. client'[c] = y
    OBVIOUS
  <1> HIDE DEF y
  <1>3. a \in Adapters \/ a \in Endpoints \/ a \in {None, Null, Failed}
    BY DEF L!Homes
  <1>4. b.key \in Objects => b.wellKnown = None /\ b.key = Target[c] /\ b.key \notin Adapters
    BY LocatorAssumption DEF KeySound
  <1>5. KeySound(c, y)
    BY <1>1, <1>3, <1>4, LocatorAssumption DEF KeySound
  <1>6. y.at \in {"lookup", "connect", "retry"}
    BY <1>1, <1>3
  <1>7. Honest(y) => ~x /\ Honest(b)
    BY <1>1 DEF Honest
  <1>8. ASSUME ~x, Honest(b)
        PROVE  /\ L!Now(Target[c]) # None /\ a = L!Registered(b.key)
               /\ b.tries = 2 => /\ Target[c] \in Objects /\ EntryRight(Target[c])'
                                 /\ b.wellKnown # None => b.key = home[Target[c]]
    BY <1>8 DEF HonestSound, EntryRight, WorldStays
  <1>9. ASSUME ~x, Honest(b), a \in {None, Null, Failed}
        PROVE  b.tries # 2 /\ Target[c] \in Objects /\ EntryRight(Target[c])'
    <2>1. b.key \in Adapters
      <3> SUFFICES ASSUME b.key \in Objects PROVE FALSE
        BY DEF L!Keys
      <3>1. a = home[b.key]
        BY <1>4, <1>8, <1>9 DEF L!Registered
      <3> QED
        BY <1>9, <3>1, LocatorAssumption
    <2>2. a = place[b.key] /\ a = None
      <3>1. a = place[b.key]
        BY <1>8, <1>9, <2>1 DEF L!Registered
      <3> QED
        BY <1>9, <2>1, <3>1, LocatorAssumption
    <2>3. b.wellKnown # None
      BY <1>8, <1>9, <2>1, <2>2 DEF KeySound, L!Now
    <2>4. Target[c] \in Objects /\ Target[c] \notin Adapters
      BY <2>3, LocatorAssumption DEF KeySound
    <2>5. b.tries # 2
      <3> SUFFICES ASSUME b.tries = 2 PROVE FALSE
        OBVIOUS
      <3>1. b.key = home[Target[c]]
        BY <1>8, <1>9, <2>3
      <3> QED
        BY <1>8, <1>9, <2>1, <2>2, <2>4, <3>1 DEF L!Now
    <2>6. a \notin Endpoints
      BY <1>9, LocatorAssumption
    <2> QED
      BY <1>9, <2>3, <2>4, <2>5, <2>6
  <1>10. ASSUME Honest(y)
         PROVE /\ y.tries = 2 =>
                      /\ Target[c] \in Objects /\ EntryRight(Target[c])'
                      /\ y.wellKnown # None => y.key = home[Target[c]]
               /\ y.at = "connect" /\ ~y.cached => y.endpoint = L!Registered(y.key)
               /\ y.at = "retry" =>
                      y.tries # 2 /\ Target[c] \in Objects /\ EntryRight(Target[c])'
    <2>1. CASE a \in {None, Null, Failed}
      BY <1>1, <1>7, <1>8, <1>9, <1>10, <2>1
    <2>2. CASE a \in Adapters
      <3>1. a = home[Target[c]]
        BY <1>4, <1>7, <1>8, <1>10, <2>2 DEF L!Registered
      <3> QED
        BY <1>1, <1>7, <1>8, <1>10, <2>2, <3>1
    <2>3. CASE a \in Endpoints
      BY <1>1, <1>7, <1>8, <1>10, <2>3
    <2> QED
      BY <1>3, <2>1, <2>2, <2>3
  <1>11. ClientSound(c)'
    BY <1>1, <1>2, <1>5, <1>6, <1>7, <1>10, ClientMoves
  <1> QED
    BY <1>1, <1>2, <1>11

\* A request is deleted when its last holder leaves.
LEMMA ReleaseFacts ==
    ASSUME LocatorInv, NEW n \in Slots, NEW W
    PROVE  LET r == L!Release(n, W) IN
           /\ r \in RequestRecord /\ r.callbacks = {}
           /\ r = L!NoRequest \/ (r.key = reqs[n].key /\ r.state = reqs[n].state
                                  /\ r.answer = reqs[n].answer)
           /\ (\E d \in Clients \ W : client[d].req = n /\ client[d].at = "add") =>
                  /\ r.key = reqs[n].key /\ r.state = reqs[n].state /\ r.answer = reqs[n].answer
                  /\ r = [reqs[n] EXCEPT !.callbacks = {}]
  <1> USE LocatorFacts
  <1>1. L!NoRequest \in RequestRecord /\ L!NoRequest.callbacks = {}
    BY DEF L!NoRequest, RequestRecord, L!Homes
  <1>2. reqs[n] \in RequestRecord
    OBVIOUS
  <1> DEFINE r == [reqs[n] EXCEPT !.callbacks = {}]
  <1>3. /\ r \in RequestRecord /\ r.callbacks = {}
        /\ r.key = reqs[n].key /\ r.state = reqs[n].state /\ r.answer = reqs[n].answer
    BY <1>2 DEF RequestRecord
  <1>4. L!Release(n, W) =
            IF \E d \in Clients \ W : client[d].req = n /\ client[d].at = "add"
            THEN r ELSE L!NoRequest
    BY DEF L!Release
  <1> HIDE DEF r
  <1>5. CASE \E d \in Clients \ W : client[d].req = n /\ client[d].at = "add"
    <2>1. L!Release(n, W) = r
      BY <1>4, <1>5
    <2> QED
      BY <1>3, <2>1 DEF r
  <1>6. CASE ~ \E d \in Clients \ W : client[d].req = n /\ client[d].at = "add"
    <2>1. L!Release(n, W) = L!NoRequest
      BY <1>4, <1>6
    <2> QED
      BY <1>1, <1>6, <2>1
  <1> QED
    BY <1>5, <1>6

\* A client that comes to a request with an answer.
LEMMA AnswerFoundKeeps ==
    ASSUME LocatorInv, NEW c \in Clients, L!AddCallback(c),
           reqs[client[c].req].state \in {"response", "exception"}
    PROVE  LocatorInv'
  <1> USE LocatorFacts, HonestFacts
  <1> DEFINE b == client[c]  n == client[c].req  a == reqs[n].answer
  <1>1. /\ b.at = "add" /\ UNCHANGED <<place, home, faults>> /\ UNCHANGED background
        /\ UNCHANGED <<adapterTable, objectTable>> /\ UNCHANGED current
        /\ client' = [client EXCEPT ![c] = [L!Answered(b, a) EXCEPT !.req = 0,
                                                !.excused = @ \/ L!Forgets(b, a)]]
        /\ reqs' = [reqs EXCEPT ![n] = L!Release(n, {c})]
    BY DEF L!AddCallback, L!world, L!table
  <1>2. n \in Slots /\ reqs[n].key = b.key /\ reqs[n] \in RequestRecord /\ ~Active(reqs[n])
    BY <1>1 DEF HolderSound, Active
  <1>3. a \in L!Homes \cup {Null, Failed} /\ (a \in Adapters => b.key \in Objects)
    BY <1>2, LocatorAssumption DEF LocatorInv, RequestsSound, RequestSound, RequestRecord, L!Keys
  <1>4. WorldStays
    BY <1>1 DEF WorldStays
  <1> DEFINE r == L!Release(n, {c})
  <1>5. /\ r \in RequestRecord /\ r.callbacks = {}
        /\ r = L!NoRequest \/ (r.key = reqs[n].key /\ r.state = reqs[n].state
                               /\ r.answer = reqs[n].answer)
        /\ (\E d \in Clients \ {c} : client[d].req = n /\ client[d].at = "add") =>
               r.key = reqs[n].key /\ r.state = reqs[n].state /\ r.answer = reqs[n].answer
    BY <1>2, ReleaseFacts
  <1> HIDE DEF r
  <1>6. /\ reqs' \in [Slots -> RequestRecord] /\ \A i \in Slots : i # n => reqs'[i] = reqs[i]
        /\ reqs'[n] = r
    BY <1>1, <1>2, <1>5 DEF r
  <1>7. ~Active(r) /\ r.state \notin {"served", "cached"}
    BY <1>2, <1>5 DEF Active, L!NoRequest
  <1>8. TablesHeal
    <2>1. AnswersRight => AnswersRight'
      BY <1>6, <1>7, <1>4, WorldStaysGives DEF AnswersRight
    <2> QED
      BY <1>1, <2>1 DEF TablesHeal, EntryRight
  <1>9. RequestSound(n, reqs'[n], current', client')
    <2>1. RequestSound(n, reqs[n], current, client)
      BY <1>2 DEF LocatorInv, RequestsSound
    <2>2. L!NoRequest.key \notin Adapters
      BY LocatorAssumption DEF L!NoRequest
    <2> QED
      BY <1>2, <1>5, <1>6, <1>7, <2>1, <2>2 DEF RequestSound
  <1>10. CurrentsSound'
    BY <1>1, <1>2, <1>6 DEF LocatorInv, CurrentsSound, CurrentSound
  <1>11. ASSUME NEW d \in Clients, d # c, client[d].at \in {"add", "waiting"}, client[d].req = n
         PROVE  HeldStays(n) /\ (client[d].at = "waiting" => WaitedStays(d, n))
    <2>1. client[d].at = "add"
      BY <1>2, <1>11 DEF HolderSound
    <2>2. r.key = reqs[n].key /\ r.answer = reqs[n].answer
      BY <1>5, <1>11, <2>1
    <2> QED
      BY <1>2, <1>6, <2>1, <2>2 DEF HeldStays
  <1>12. PICK x \in BOOLEAN : /\ client' = [client EXCEPT ![c] = [L!Answered(b, a) EXCEPT !.req = 0,
                                                                      !.excused = x]]
                              /\ (b.excused => x) /\ (L!Forgets(b, a) => x)
    <2> DEFINE w == L!Answered(b, a)
    <2>1. w.excused = b.excused
      <3>1. b \in ClientRecord
        OBVIOUS
      <3> HIDE DEF b, a
      <3> QED
        BY <1>3, <3>1, AnsweredFields
    <2> DEFINE x == b.excused \/ L!Forgets(b, a)
    <2>2. x \in BOOLEAN
      OBVIOUS
    <2>3. client' = [client EXCEPT ![c] = [w EXCEPT !.req = 0,
                                              !.excused = w.excused \/ L!Forgets(b, a)]]
      BY <1>1
    <2> HIDE DEF w
    <2> QED
      BY <2>1, <2>2, <2>3 DEF w
  <1>13. ~x => ~b.excused
    BY <1>12
  <1>14. client'[c] = [L!Answered(b, a) EXCEPT !.req = 0, !.excused = x]
    BY <1>12
  <1>15. ~x => a = L!Registered(b.key)
    BY <1>1, <1>2, <1>13 DEF Honest, HonestSound
  <1>16. ~x /\ b.wellKnown # None /\ a \notin Endpoints => EntryRight(Target[c])'
    BY <1>1, <1>12 DEF L!Forgets, L!NoEntry, EntryRight, KeySound
  <1>17. client'[c] \in ClientRecord /\ ClientSound(c)'
    BY <1>1, <1>3, <1>4, <1>8, <1>12, <1>14, <1>15, <1>16, AnswerTaken
  <1>18. /\ client' \in [Clients -> ClientRecord]
         /\ \A d \in Clients : d # c => client'[d] = client[d]
    <2>1. client' = [client EXCEPT ![c] = client'[c]]
      BY <1>12
    <2> QED
      BY <1>17, <2>1, ClientReplaced
  <1> QED
    BY <1>1, <1>2, <1>4, <1>6, <1>8, <1>9, <1>10, <1>11, <1>17, <1>18, OneRequestChanges

\* A client that joins the callers of a request.
LEMMA WaitKeeps ==
    ASSUME LocatorInv, NEW c \in Clients, L!AddCallback(c),
           reqs[client[c].req].state \notin {"response", "exception"}
    PROVE  LocatorInv'
  <1> USE LocatorFacts, HonestFacts
  <1> DEFINE b == client[c]  n == client[c].req
  <1>1. /\ b.at = "add" /\ UNCHANGED <<place, home, faults>> /\ UNCHANGED background
        /\ UNCHANGED <<adapterTable, objectTable>> /\ UNCHANGED current
        /\ reqs[n].state # "cached" /\ client' = [client EXCEPT ![c].at = "waiting"]
        /\ reqs' = [reqs EXCEPT ![n].callbacks = @ \cup ({c} \ Blocking),
                                ![n].wellKnown = @ \cup ({b.wellKnown} \ {None}),
                                ![n].sent = TRUE]
    BY DEF L!AddCallback, L!world, L!table
  <1>2. n \in Slots /\ reqs[n].key = b.key /\ reqs[n] \in RequestRecord
    BY <1>1 DEF HolderSound
  <1>3. Active(reqs[n]) /\ reqs[n].state # "cached"
    BY <1>1, <1>2 DEF Active, RequestRecord
  <1>4. WorldStays
    BY <1>1 DEF WorldStays
  <1> DEFINE z == [b EXCEPT !.at = "waiting"]
  <1>5. /\ z \in ClientRecord /\ z.at = "waiting" /\ z.key = b.key /\ z.wellKnown = b.wellKnown
        /\ z.req = n /\ z.tries = b.tries /\ z.excused = b.excused
    BY DEF ClientRecord
  <1>6. client' = [client EXCEPT ![c] = z]
    BY <1>1
  <1> HIDE DEF z
  <1>7. /\ client' \in [Clients -> ClientRecord] /\ client'[c] = z
        /\ \A d \in Clients : d # c => client'[d] = client[d]
    BY <1>5, <1>6, ClientReplaced
  <1> DEFINE r == [reqs[n] EXCEPT !.callbacks = @ \cup ({c} \ Blocking),
                                  !.wellKnown = @ \cup ({b.wellKnown} \ {None}), !.sent = TRUE]
  <1>8. /\ r \in RequestRecord /\ r.key = reqs[n].key /\ r.state = reqs[n].state
        /\ r.answer = reqs[n].answer /\ r.sent = TRUE
        /\ r.callbacks = reqs[n].callbacks \cup ({c} \ Blocking)
        /\ r.wellKnown = reqs[n].wellKnown \cup ({b.wellKnown} \ {None})
    <2>1. b.wellKnown \in Objects \cup {None}
      BY DEF ClientRecord
    <2> QED
      BY <1>2, <2>1 DEF RequestRecord
  <1>9. reqs' = [reqs EXCEPT ![n] = r]
    BY <1>1, <1>2
  <1> HIDE DEF r
  <1>10. /\ reqs' \in [Slots -> RequestRecord] /\ \A i \in Slots : i # n => reqs'[i] = reqs[i]
         /\ reqs'[n] = r
    BY <1>2, <1>8, <1>9
  <1>11. \A i \in Slots : reqs'[i].key = reqs[i].key /\ reqs'[i].state = reqs[i].state
                          /\ reqs'[i].answer = reqs[i].answer
    BY <1>8, <1>10
  <1>12. TablesHeal
    <2>1. \A k : L!Registered(k)' = L!Registered(k)
      BY <1>4, WorldStaysGives
    <2>2. AnswersRight => AnswersRight'
      BY ONLY <1>11, <2>1 DEF AnswersRight
    <2>3. \A o : EntryRight(o)' <=> EntryRight(o)
      BY ONLY <1>1, <1>4 DEF EntryRight, WorldStays
    <2> QED
      BY ONLY <2>2, <2>3 DEF TablesHeal
  <1>13. RequestSound(n, reqs'[n], current', client')
    <2>1. RequestSound(n, reqs[n], current, client)
      BY <1>2 DEF LocatorInv, RequestsSound
    <2>2. \A d \in r.callbacks : client'[d].at = "waiting" /\ client'[d].req = n
      BY <1>2, <1>5, <1>7, <1>8, <2>1 DEF RequestSound, RequestRecord
    <2>3. reqs'[n].key \in L!Keys
      BY <1>2, <1>11
    <2> QED
      BY <1>1, <1>2, <1>3, <1>8, <1>10, <2>1, <2>2, <2>3 DEF RequestSound, Active
  <1>14. CurrentsSound'
    BY ZenonT(60), <1>1, <1>11 DEF LocatorInv, CurrentsSound, CurrentSound, Active
  <1>15. ASSUME NEW d \in Clients, client[d].at \in {"add", "waiting"}, client[d].req = n
         PROVE  HeldStays(n) /\ (client[d].at = "waiting" => WaitedStays(d, n))
    BY <1>2, <1>3, <1>8, <1>10 DEF HeldStays, WaitedStays, Active
  <1>16. ClientSound(c)'
    <2>1. HolderSound(c, client'[c], reqs')
      BY <1>2, <1>3, <1>5, <1>7, <1>8, <1>10 DEF HolderSound, Active
    <2>2. KeySound(c, client'[c])
      BY <1>5, <1>7 DEF KeySound
    <2>3. ASSUME Honest(client'[c]) PROVE HonestSound(c, client[c])'
      <3>1. HonestSound(c, b)
        BY <1>1, <1>5, <1>7, <2>3 DEF Honest
      <3>2. AnswersRight' /\ L!Now(Target[c])' # None
        BY <1>4, <1>12, <3>1, WorldStaysGives DEF HonestSound, TablesHeal
      <3>3. b.tries = 2 => /\ Target[c] \in Objects /\ EntryRight(Target[c])'
                           /\ b.wellKnown # None => b.key = home'[Target[c]]
        BY <1>1, <3>1 DEF HonestSound, EntryRight
      <3>4. reqs'[client'[c].req].state # "cached"
        BY <1>2, <1>3, <1>5, <1>7, <1>11
      <3> QED
        BY <1>5, <1>7, <3>2, <3>3, <3>4 DEF HonestSound
    <2> QED
      BY <1>5, <1>7, <2>1, <2>2, <2>3 DEF ClientSound
  <1> QED
    BY <1>1, <1>2, <1>4, <1>7, <1>10, <1>12, <1>13, <1>14, <1>15, <1>16, OneRequestChanges

\* addCallback() and getEndpoints() of a request, answered or not.
LEMMA AddCallbackKeeps ==
    ASSUME LocatorInv, NEW c \in Clients, L!AddCallback(c)
    PROVE  LocatorInv'
  BY AnswerFoundKeeps, WaitKeeps

\* A step of a request n, or of none, that leaves the clients as they are.
LEMMA RequestOnly ==
    ASSUME LocatorInv, NEW n, UNCHANGED client, UNCHANGED current, UNCHANGED faults,
           UNCHANGED background, WorldStays, TablesHeal,
           reqs' \in [Slots -> RequestRecord], \A i \in Slots : i # n => reqs'[i] = reqs[i],
           adapterTable' \in [Adapters -> [ref : Endpoints \cup {None}, fresh : BOOLEAN]],
           objectTable' \in [Objects -> [ref : L!Homes, fresh : BOOLEAN]],
           n \in Slots =>
               /\ reqs'[n].key = reqs[n].key /\ reqs'[n].sent = reqs[n].sent
               /\ reqs'[n].callbacks = reqs[n].callbacks
               /\ reqs'[n].wellKnown = reqs[n].wellKnown
               /\ Active(reqs[n]) /\ Active(reqs'[n])
               /\ reqs[n].key \in Adapters => reqs'[n].answer \notin Adapters,
           \A d \in Clients :
               client[d].at = "waiting" /\ client[d].req = n /\ reqs'[n].state = "cached"
               /\ reqs'[n].answer \notin Endpoints /\ client[d].wellKnown # None
                   => EntryRight(Target[d])'
    PROVE  LocatorInv'
  <1> USE LocatorFacts, HonestFacts
  <1>1. LocatorTypes'
    BY LocatorTyped DEF WorldStays
  <1>2. RequestsSound'
    <2> SUFFICES ASSUME NEW i \in Slots PROVE RequestSound(i, reqs'[i], current', client')
      BY DEF RequestsSound
    <2>1. RequestSound(i, reqs[i], current, client)
      BY DEF LocatorInv, RequestsSound
    <2>2. CASE i # n
      BY <2>1, <2>2
    <2>3. CASE i = n
      BY <2>1, <2>3 DEF RequestSound
    <2> QED
      BY <2>2, <2>3
  <1>3. CurrentsSound'
    <2> SUFFICES ASSUME NEW k \in L!Keys PROVE CurrentSound(k, current[k], reqs')
      BY DEF CurrentsSound
    <2>1. CurrentSound(k, current[k], reqs)
      BY DEF LocatorInv, CurrentsSound
    <2> QED
      BY <2>1 DEF CurrentSound
  <1>4. ASSUME NEW d \in Clients PROVE ClientSound(d)'
    <2>1. HolderSound(d, client[d], reqs)
      OBVIOUS
    <2>2. client[d].at \in {"add", "waiting"} => HeldStays(client[d].req)
      BY <2>1 DEF HeldStays, HolderSound
    <2>3. ASSUME client[d].at = "waiting" PROVE WaitedStays(d, client[d].req)
      <3>1. /\ client[d].req \in Slots /\ reqs[client[d].req].sent
            /\ Active(reqs[client[d].req])
        BY <2>1, <2>3 DEF HolderSound
      <3>2. CASE client[d].req # n
        BY <3>1, <3>2 DEF WaitedStays
      <3>3. CASE client[d].req = n
        BY <2>3, <3>1, <3>3 DEF WaitedStays
      <3> QED
        BY <3>2, <3>3
    <2> QED
      BY <2>2, <2>3, BystanderStays
  <1> QED
    BY <1>1, <1>2, <1>3, <1>4 DEF LocatorInv

\* A fault outside: whoever is under way may fail, and nothing is promised to it.
LEMMA FaultKeeps ==
    ASSUME LocatorInv, client' = L!Excused, UNCHANGED current, UNCHANGED background,
           UNCHANGED adapterTable, UNCHANGED objectTable,
           reqs' \in [Slots -> RequestRecord],
           \A i \in Slots :
               /\ reqs'[i].key = reqs[i].key /\ reqs'[i].sent = reqs[i].sent
               /\ reqs'[i].callbacks = reqs[i].callbacks /\ reqs'[i].wellKnown = reqs[i].wellKnown
               /\ Active(reqs'[i]) <=> Active(reqs[i])
               /\ reqs'[i] = reqs[i] \/ (reqs'[i].answer \notin Adapters /\ Active(reqs[i])),
           place' \in [Adapters -> Endpoints \cup {None}],
           home' \in [Objects -> Adapters \cup Endpoints], faults' \in 0 .. MaxFaults
    PROVE  LocatorInv'
  <1> USE LocatorFacts, HonestFacts
  <1>1. ASSUME NEW c \in Clients
        PROVE  /\ client'[c] \in ClientRecord /\ client'[c].at = client[c].at
               /\ client'[c].key = client[c].key /\ client'[c].wellKnown = client[c].wellKnown
               /\ client'[c].req = client[c].req /\ ~Honest(client'[c])
               /\ client[c].excused => client'[c].excused
    <2>1. client[c] \in ClientRecord
      OBVIOUS
    <2>2. CASE client[c].at \in {"idle", "ok", "failed"}
      <3>1. client'[c] = client[c]
        BY <2>2 DEF L!Excused
      <3> QED
        BY <2>1, <2>2, <3>1 DEF Honest
    <2>3. CASE client[c].at \notin {"idle", "ok", "failed"}
      <3>1. client'[c] = [client[c] EXCEPT !.excused = TRUE]
        BY <2>3 DEF L!Excused
      <3> QED
        BY <2>1, <3>1 DEF Honest, ClientRecord
    <2> QED
      BY <2>2, <2>3
  <1>2. client' \in [Clients -> ClientRecord]
    <2>1. client' = [c \in Clients |-> client'[c]]
      BY DEF L!Excused
    <2> QED
      BY <1>1, <2>1
  <1>3. LocatorTypes'
    BY <1>2, LocatorTyped
  <1>4. RequestsSound'
    <2> SUFFICES ASSUME NEW i \in Slots PROVE RequestSound(i, reqs'[i], current', client')
      BY DEF RequestsSound
    <2>1. RequestSound(i, reqs[i], current, client) /\ reqs[i].callbacks \subseteq Clients
      BY DEF LocatorInv, RequestsSound, RequestRecord
    <2>2. \A c \in reqs'[i].callbacks : client'[c].at = "waiting" /\ client'[c].req = i
      BY <1>1, <2>1 DEF RequestSound
    <2>3. CASE reqs'[i] = reqs[i]
      BY <2>1, <2>2, <2>3 DEF RequestSound
    <2>4. CASE reqs'[i].answer \notin Adapters /\ Active(reqs[i])
      BY <2>1, <2>2, <2>4 DEF RequestSound
    <2> QED
      BY <2>3, <2>4
  <1>5. CurrentsSound'
    <2> SUFFICES ASSUME NEW k \in L!Keys PROVE CurrentSound(k, current[k], reqs')
      BY DEF CurrentsSound
    <2>1. CurrentSound(k, current[k], reqs)
      BY DEF LocatorInv, CurrentsSound
    <2> QED
      BY <2>1 DEF CurrentSound
  <1>6. ASSUME NEW c \in Clients PROVE ClientSound(c)'
    <2>1. HolderSound(c, client'[c], reqs')
      BY <1>1 DEF HolderSound
    <2>2. KeySound(c, client'[c])
      BY <1>1 DEF KeySound
    <2>3. client'[c].at = "failed" => client'[c].excused
      BY <1>1 DEF LocatorInv, ClientSound
    <2> QED
      BY <1>1, <2>1, <2>2, <2>3 DEF ClientSound
  <1> QED
    BY <1>3, <1>4, <1>5, <1>6 DEF LocatorInv

\* A server or an object moves.
LEMMA MoveKeeps ==
    ASSUME LocatorInv, L!Move
    PROVE  LocatorInv'
  <1> USE LocatorFacts
  <1>1. /\ client' = L!Excused /\ UNCHANGED <<current, reqs>> /\ UNCHANGED background
        /\ UNCHANGED <<adapterTable, objectTable>>
    BY DEF L!Move, L!table
  <1>2. faults' \in 0 .. MaxFaults
    BY LocatorAssumption DEF L!Move
  <1>3. /\ place' \in [Adapters -> Endpoints \cup {None}]
        /\ home' \in [Objects -> Adapters \cup Endpoints]
    BY DEF L!Move
  <1> QED
    BY <1>1, <1>2, <1>3, FaultKeeps

\* The locator answers what is registered, or fails.
LEMMA LocatorServesKeeps ==
    ASSUME LocatorInv, NEW i \in Slots, L!LocatorServes(i)
    PROVE  LocatorInv'
  <1> USE LocatorFacts
  <1>1. /\ reqs[i].sent /\ reqs[i].state = "pending" /\ UNCHANGED <<place, home>>
        /\ UNCHANGED background /\ UNCHANGED <<adapterTable, objectTable>> /\ UNCHANGED current
    BY DEF L!LocatorServes, L!table
  <1>2. reqs[i] \in RequestRecord /\ RequestSound(i, reqs[i], current, client) /\ Active(reqs[i])
    BY <1>1 DEF LocatorInv, RequestsSound, Active
  <1>3. reqs[i].key \in L!Keys
    BY <1>2 DEF RequestSound
  <1>4. ASSUME NEW a \in L!Homes \cup {Null, Failed},
               reqs' = [reqs EXCEPT ![i].state = "served", ![i].answer = a]
        PROVE  /\ reqs' \in [Slots -> RequestRecord]
               /\ \A j \in Slots : j # i => reqs'[j] = reqs[j]
               /\ reqs'[i].key = reqs[i].key /\ reqs'[i].sent = reqs[i].sent
               /\ reqs'[i].callbacks = reqs[i].callbacks /\ reqs'[i].wellKnown = reqs[i].wellKnown
               /\ reqs'[i].state = "served" /\ reqs'[i].answer = a
    <2> DEFINE r == [reqs[i] EXCEPT !.state = "served", !.answer = a]
    <2>1. /\ r \in RequestRecord /\ r.key = reqs[i].key /\ r.sent = reqs[i].sent
          /\ r.callbacks = reqs[i].callbacks /\ r.wellKnown = reqs[i].wellKnown
          /\ r.state = "served" /\ r.answer = a
      BY <1>2 DEF RequestRecord
    <2>2. reqs' = [reqs EXCEPT ![i] = r]
      BY <1>4
    <2> HIDE DEF r
    <2> QED
      BY <2>1, <2>2
  <1>5. CASE /\ reqs' = [reqs EXCEPT ![i].state = "served",
                                     ![i].answer = L!Registered(reqs[i].key)]
             /\ UNCHANGED <<faults, client>>
    <2> DEFINE a == L!Registered(reqs[i].key)
    <2>1. a \in L!Homes \cup {Null, Failed} /\ (reqs[i].key \in Adapters => a \notin Adapters)
      BY <1>3, LocatorAssumption DEF L!Registered, L!Homes, L!Keys
    <2>2. /\ reqs' \in [Slots -> RequestRecord] /\ \A j \in Slots : j # i => reqs'[j] = reqs[j]
          /\ reqs'[i].key = reqs[i].key /\ reqs'[i].sent = reqs[i].sent
          /\ reqs'[i].callbacks = reqs[i].callbacks /\ reqs'[i].wellKnown = reqs[i].wellKnown
          /\ reqs'[i].state = "served" /\ reqs'[i].answer = a
      BY <1>4, <1>5, <2>1
    <2> HIDE DEF a
    <2>3. WorldStays
      BY <1>1 DEF WorldStays
    <2>4. TablesHeal
      <3>1. AnswersRight => AnswersRight'
        BY <2>2, <2>3, WorldStaysGives DEF AnswersRight, a
      <3> QED
        BY <1>1, <3>1 DEF TablesHeal, EntryRight
    <2> QED
      BY <1>1, <1>2, <1>5, <2>1, <2>2, <2>3, <2>4, RequestOnly DEF Active
  <1>6. CASE /\ faults < MaxFaults /\ faults' = faults + 1 /\ client' = L!Excused
             /\ \E a \in {Null, Failed} :
                    reqs' = [reqs EXCEPT ![i].state = "served", ![i].answer = a]
    <2>1. PICK a \in {Null, Failed} :
                   reqs' = [reqs EXCEPT ![i].state = "served", ![i].answer = a]
      BY <1>6
    <2>2. a \notin Adapters /\ a \in L!Homes \cup {Null, Failed}
      BY LocatorAssumption
    <2>3. /\ reqs' \in [Slots -> RequestRecord] /\ \A j \in Slots : j # i => reqs'[j] = reqs[j]
          /\ reqs'[i].key = reqs[i].key /\ reqs'[i].sent = reqs[i].sent
          /\ reqs'[i].callbacks = reqs[i].callbacks /\ reqs'[i].wellKnown = reqs[i].wellKnown
          /\ reqs'[i].state = "served" /\ reqs'[i].answer = a
      BY <1>4, <2>1, <2>2
    <2>4. faults' \in 0 .. MaxFaults
      BY <1>6, LocatorAssumption
    <2>5. ASSUME NEW j \in Slots
          PROVE  /\ reqs'[j].key = reqs[j].key /\ reqs'[j].sent = reqs[j].sent
                 /\ reqs'[j].callbacks = reqs[j].callbacks
                 /\ reqs'[j].wellKnown = reqs[j].wellKnown
                 /\ Active(reqs'[j]) <=> Active(reqs[j])
                 /\ reqs'[j] = reqs[j] \/ (reqs'[j].answer \notin Adapters /\ Active(reqs[j]))
      BY <1>2, <2>2, <2>3 DEF Active
    <2> QED
      BY <1>1, <1>6, <2>3, <2>4, <2>5, FaultKeeps
  <1> QED
    BY <1>5, <1>6 DEF L!LocatorServes

\* An entry of the cache grows old.
LEMMA ExpireKeeps ==
    ASSUME LocatorInv, L!Expire
    PROVE  LocatorInv'
  <1> USE LocatorFacts
  <1>1. /\ UNCHANGED <<current, reqs, client>> /\ UNCHANGED <<place, home, faults>>
        /\ UNCHANGED background
    BY DEF L!Expire, L!world
  <1>2. /\ adapterTable' \in [Adapters -> [ref : Endpoints \cup {None}, fresh : BOOLEAN]]
        /\ objectTable' \in [Objects -> [ref : L!Homes, fresh : BOOLEAN]]
        /\ \A o \in Objects : objectTable'[o].ref = objectTable[o].ref
    <2>1. CASE \E a \in Adapters : adapterTable' = [adapterTable EXCEPT ![a].fresh = FALSE]
                                   /\ UNCHANGED objectTable
      BY <2>1
    <2>2. CASE \E o \in Objects : objectTable' = [objectTable EXCEPT ![o].fresh = FALSE]
                                  /\ UNCHANGED adapterTable
      BY ZenonT(60), <2>2
    <2> QED
      BY <2>1, <2>2 DEF L!Expire
  <1>3. WorldStays
    BY <1>1 DEF WorldStays
  <1>4. TablesHeal
    BY <1>1, <1>2, <1>3, WorldStaysGives DEF TablesHeal, AnswersRight, EntryRight
  <1>5. 0 \notin Slots /\ \A d \in Clients : client[d].at = "waiting" => client[d].req # 0
    BY HonestFacts, LocatorAssumption DEF HolderSound, Slots
  <1> QED
    BY <1>1, <1>2, <1>3, <1>4, <1>5, RequestOnly

\* finishRequest(): the cache gets the answer, and forgets the well-known objects whose
\* adapter has no endpoints.
LEMMA FinishRequestKeeps ==
    ASSUME LocatorInv, NEW i \in Slots, L!FinishRequest(i)
    PROVE  LocatorInv'
  <1> USE LocatorFacts
  <1> DEFINE k == reqs[i].key  a == reqs[i].answer
  <1>1. /\ reqs[i].state = "served" /\ UNCHANGED <<current, client>>
        /\ UNCHANGED <<place, home, faults>> /\ UNCHANGED background
        /\ reqs' = [reqs EXCEPT ![i].state = "cached"]
    BY DEF L!FinishRequest, L!world
  <1>2. /\ reqs[i] \in RequestRecord /\ RequestSound(i, reqs[i], current, client)
        /\ Active(reqs[i]) /\ k \in L!Keys
    BY <1>1 DEF LocatorInv, RequestsSound, Active, RequestSound
  <1>3. /\ reqs' \in [Slots -> RequestRecord] /\ \A j \in Slots : j # i => reqs'[j] = reqs[j]
        /\ reqs'[i].key = k /\ reqs'[i].sent = reqs[i].sent
        /\ reqs'[i].callbacks = reqs[i].callbacks /\ reqs'[i].wellKnown = reqs[i].wellKnown
        /\ reqs'[i].state = "cached" /\ reqs'[i].answer = a
    <2> DEFINE r == [reqs[i] EXCEPT !.state = "cached"]
    <2>1. /\ r \in RequestRecord /\ r.key = k /\ r.sent = reqs[i].sent
          /\ r.callbacks = reqs[i].callbacks /\ r.wellKnown = reqs[i].wellKnown
          /\ r.state = "cached" /\ r.answer = a
      BY <1>2 DEF RequestRecord
    <2>2. reqs' = [reqs EXCEPT ![i] = r]
      BY <1>1
    <2> HIDE DEF r
    <2> QED
      BY <2>1, <2>2
  <1>4. WorldStays
    BY <1>1 DEF WorldStays
  <1>5. /\ L!NoEntry \in [ref : Endpoints \cup {None}, fresh : BOOLEAN]
        /\ L!NoEntry \in [ref : L!Homes, fresh : BOOLEAN] /\ L!NoEntry.ref = None
        /\ a \in Endpoints => L!Entry(a) \in [ref : Endpoints \cup {None}, fresh : BOOLEAN]
        /\ a \in Endpoints \cup Adapters => L!Entry(a) \in [ref : L!Homes, fresh : BOOLEAN]
        /\ L!Entry(a).ref = a
    BY DEF L!NoEntry, L!Homes, L!Entry
  <1>6. /\ adapterTable' = [x \in Adapters |-> adapterTable'[x]]
        /\ \A x \in Adapters : \/ a \in Endpoints /\ adapterTable'[x] = L!Entry(a)
                               \/ adapterTable'[x] = L!NoEntry
                               \/ adapterTable'[x] = adapterTable[x]
    BY DEF L!FinishRequest
  <1>7. /\ objectTable' = [o \in Objects |-> objectTable'[o]]
        /\ \A o \in Objects :
               /\ \/ o = k /\ a \in Endpoints \cup Adapters /\ objectTable'[o] = L!Entry(a)
                  \/ objectTable'[o] = L!NoEntry
                  \/ objectTable'[o] = objectTable[o]
               /\ o # k /\ a \notin Endpoints /\ o \in reqs[i].wellKnown =>
                      objectTable'[o] = L!NoEntry
    BY DEF L!FinishRequest
  <1> HIDE DEF k, a
  <1>8. adapterTable' \in [Adapters -> [ref : Endpoints \cup {None}, fresh : BOOLEAN]]
    BY <1>5, <1>6
  <1>9. objectTable' \in [Objects -> [ref : L!Homes, fresh : BOOLEAN]]
    BY <1>5, <1>7
  <1>10. TablesHeal
    <2> SUFFICES ASSUME AnswersRight
                 PROVE  AnswersRight' /\ \A o \in Objects : EntryRight(o) => EntryRight(o)'
      BY DEF TablesHeal
    <2>1. AnswersRight'
      BY <1>1, <1>3, <1>4, WorldStaysGives DEF AnswersRight, k, a
    <2>2. a = L!Registered(k)
      BY <1>1 DEF AnswersRight, k, a
    <2>3. ASSUME NEW o \in Objects, EntryRight(o) PROVE EntryRight(o)'
      <3>1. CASE o = k /\ objectTable'[o] = L!Entry(a)
        <4>1. a = home[o]
          BY <2>2, <3>1, LocatorAssumption DEF L!Registered
        <4> QED
          BY <1>1, <1>5, <3>1, <4>1 DEF EntryRight
      <3>2. CASE objectTable'[o] = L!NoEntry
        BY <1>5, <3>2 DEF EntryRight
      <3>3. CASE objectTable'[o] = objectTable[o]
        BY <1>1, <2>3, <3>3 DEF EntryRight
      <3> QED
        BY <1>7, <3>1, <3>2, <3>3
    <2> QED
      BY <2>1, <2>3
  <1>11. ASSUME NEW d \in Clients, client[d].at = "waiting", client[d].req = i,
                reqs'[i].answer \notin Endpoints, client[d].wellKnown # None
         PROVE  EntryRight(Target[d])'
    <2>1. /\ client[d].wellKnown \in reqs[i].wellKnown /\ client[d].key = k
          /\ client[d].wellKnown = Target[d] /\ Target[d] \in Objects /\ client[d].key \in Adapters
      BY <1>11, HonestFacts DEF HolderSound, KeySound, k
    <2>2. objectTable'[Target[d]] = L!NoEntry
      BY <1>3, <1>7, <1>11, <2>1, LocatorAssumption
    <2> QED
      BY <1>5, <2>2 DEF EntryRight
  <1>12. k \in Adapters => reqs'[i].answer \notin Adapters
    BY <1>2, <1>3 DEF RequestSound, k, a
  <1> QED
    BY <1>1, <1>2, <1>3, <1>4, <1>8, <1>9, <1>10, <1>11, <1>12, RequestOnly DEF Active, k

\* The clients that the answer of request i reaches are those that wait for it.
LEMMA WaitersFacts ==
    ASSUME LocatorInv, NEW i \in Slots, NEW c \in Clients
    PROVE  c \in L!Waiters(i) <=> client[c].at = "waiting" /\ client[c].req = i
  <1>1. RequestSound(i, reqs[i], current, client) /\ HolderSound(c, client[c], reqs)
    BY HonestFacts DEF LocatorInv, RequestsSound
  <1> QED
    BY <1>1 DEF L!Waiters, RequestSound, HolderSound

\* response() and exception(): all who wait are given the answer.
LEMMA ResponseKeeps ==
    ASSUME LocatorInv, NEW i \in Slots, L!Response(i)
    PROVE  LocatorInv'
  <1> USE LocatorFacts
  <1> DEFINE k == reqs[i].key  a == reqs[i].answer  W == L!Waiters(i)
             st == IF a \in {None, Failed} THEN "exception" ELSE "response"
             r == IF L!Release(i, W) = L!NoRequest THEN L!NoRequest
                  ELSE [reqs[i] EXCEPT !.state = st, !.callbacks = {}]
  <1>1. /\ reqs[i].state = "cached" /\ UNCHANGED <<place, home, faults>> /\ UNCHANGED background
        /\ UNCHANGED <<adapterTable, objectTable>> /\ current' = [current EXCEPT ![k] = 0]
        /\ reqs' = [reqs EXCEPT ![i] = r]
    BY DEF L!Response, L!world, L!table
  <1>2. client' = [c \in Clients |->
                      IF c \in W THEN [L!Answered(client[c], a) EXCEPT !.req = 0] ELSE client[c]]
    BY DEF L!Response
  <1>3. /\ reqs[i] \in RequestRecord /\ RequestSound(i, reqs[i], current, client)
        /\ Active(reqs[i]) /\ k \in L!Keys /\ current[k] = i
        /\ a \in L!Homes \cup {Null, Failed}
    BY <1>1 DEF LocatorInv, RequestsSound, Active, RequestSound, RequestRecord
  <1>4. /\ r \in RequestRecord /\ r.callbacks = {} /\ ~Active(r)
        /\ r = L!NoRequest \/ (r.key = k /\ r.answer = a)
    <2>1. st \in {"exception", "response"}
      OBVIOUS
    <2> HIDE DEF st
    <2>2. CASE L!Release(i, W) = L!NoRequest
      BY <2>2 DEF L!NoRequest, RequestRecord, L!Homes, Active
    <2>3. CASE L!Release(i, W) # L!NoRequest
      BY <1>3, <2>1, <2>3 DEF RequestRecord, Active
    <2> QED
      BY <2>2, <2>3
  <1>5. ASSUME NEW d \in Clients \ W, client[d].req = i, client[d].at = "add"
        PROVE  r.key = k /\ r.answer = a
    <2>1. L!Release(i, W).key = k
      BY <1>5, ReleaseFacts
    <2>2. L!NoRequest.key # k
      BY <1>3, LocatorAssumption DEF L!NoRequest, L!Keys
    <2>3. L!Release(i, W) # L!NoRequest
      BY <2>1, <2>2
    <2>4. r = [reqs[i] EXCEPT !.state = st, !.callbacks = {}]
      BY <2>3
    <2> HIDE DEF r, st
    <2> QED
      BY <1>3, <2>4 DEF RequestRecord
  <1> HIDE DEF r
  <1>6. /\ reqs' \in [Slots -> RequestRecord] /\ \A j \in Slots : j # i => reqs'[j] = reqs[j]
        /\ reqs'[i] = r
    BY <1>1, <1>4
  <1>7. current' \in [L!Keys -> 0 .. MaxRequests]
    <2>1. 0 \in 0 .. MaxRequests
      BY LocatorAssumption
    <2> QED
      BY <1>1, <2>1
  <1>8. WorldStays
    BY <1>1 DEF WorldStays
  <1>9. TablesHeal
    <2>1. r.state \notin {"served", "cached"}
      BY <1>4 DEF Active
    <2>2. AnswersRight => AnswersRight'
      BY <1>6, <1>8, <2>1, WorldStaysGives DEF AnswersRight
    <2> QED
      BY <1>1, <2>2 DEF TablesHeal, EntryRight
  <1>10. \A c \in Clients : c \in W <=> client[c].at = "waiting" /\ client[c].req = i
    BY WaitersFacts
  <1> HIDE DEF W
  <1>11. ASSUME NEW c \in Clients, c \in W
         PROVE  client'[c] \in ClientRecord /\ ClientSound(c)'
    <2> DEFINE b == client[c]  w == L!Answered(client[c], a)  x == client[c].excused
    <2>1. /\ b \in ClientRecord /\ b.at = "waiting" /\ b.req = i /\ b.key = k
          /\ HolderSound(c, b, reqs) /\ KeySound(c, b) /\ x \in BOOLEAN
          /\ Honest(b) => HonestSound(c, b)
      BY <1>10, <1>11, HonestFacts DEF HolderSound, ClientRecord
    <2>2. a \in Adapters => b.key \in Objects
      BY <1>3, <2>1 DEF RequestSound, L!Keys
    <2>3. w \in ClientRecord /\ w.excused = x
      <3> HIDE DEF b, a
      <3>1. L!Answered(b, a) \in ClientRecord /\ L!Answered(b, a).excused = b.excused
        BY ONLY <1>3, <2>1, <2>2, AnsweredFields
      <3> QED
        BY <3>1 DEF b
    <2>4. client'[c] = [w EXCEPT !.req = 0]
      BY <1>2, <1>11
    <2> HIDE DEF w
    <2>5. client'[c] = [w EXCEPT !.req = 0, !.excused = x]
      BY <2>3, <2>4 DEF ClientRecord
    <2>6. ASSUME ~x
          PROVE  /\ a = L!Registered(b.key)
                 /\ b.wellKnown # None /\ a \notin Endpoints => EntryRight(Target[c])'
      <3>1. HonestSound(c, b)
        BY <2>1, <2>6 DEF Honest
      <3> QED
        BY <1>1, <2>1, <3>1 DEF HonestSound, AnswersRight, EntryRight
    <2>7. w = L!Answered(client[c], a)
      BY DEF w
    <2>8. b.at \in {"add", "waiting"} /\ UNCHANGED objectTable
      BY <1>1, <2>1
    <2> QED
      BY <1>3, <1>8, <1>9, <2>1, <2>2, <2>5, <2>6, <2>7, <2>8, AnswerTaken
  <1>12. \A c \in Clients : c \notin W => client'[c] = client[c]
    BY <1>2
  <1>13. client' \in [Clients -> ClientRecord]
    <2>1. client' = [c \in Clients |-> client'[c]]
      BY <1>2
    <2> QED
      BY <1>11, <1>12, <2>1
  <1>14. LocatorTypes'
    BY <1>1, <1>6, <1>7, <1>13, LocatorTyped
  <1>15. RequestsSound'
    <2> SUFFICES ASSUME NEW j \in Slots PROVE RequestSound(j, reqs'[j], current', client')
      BY DEF RequestsSound
    <2>1. CASE j = i
      <3>1. L!NoRequest.key \notin Adapters
        BY LocatorAssumption DEF L!NoRequest
      <3> QED
        BY <1>3, <1>4, <1>6, <2>1, <3>1 DEF RequestSound
    <2>2. CASE j # i
      <3>1. RequestSound(j, reqs[j], current, client)
        BY DEF LocatorInv, RequestsSound
      <3>2. Active(reqs[j]) => current'[reqs[j].key] = current[reqs[j].key]
        BY <1>1, <1>3, <2>2, <3>1 DEF RequestSound
      <3>3. \A c \in Clients : client[c].at = "waiting" /\ client[c].req = j =>
                                   client'[c].at = "waiting" /\ client'[c].req = j
        BY <1>10, <1>12, <2>2
      <3> QED
        BY <1>6, <2>2, <3>2, <3>3, RequestStays
    <2> QED
      BY <2>1, <2>2
  <1>16. CurrentsSound'
    <2> SUFFICES ASSUME NEW h \in L!Keys PROVE CurrentSound(h, current'[h], reqs')
      BY DEF CurrentsSound
    <2>1. CASE h = k
      BY <1>1, <2>1 DEF CurrentSound
    <2>2. CASE h # k
      <3>1. CurrentSound(h, current[h], reqs) /\ current'[h] = current[h]
        BY <1>1, <2>2 DEF LocatorInv, CurrentsSound
      <3> QED
        BY <1>6, <2>2, <3>1 DEF CurrentSound
    <2> QED
      BY <2>1, <2>2
  <1>17. ASSUME NEW d \in Clients, d \notin W PROVE ClientSound(d)'
    <2>1. HolderSound(d, client[d], reqs)
      BY HonestFacts
    <2>2. ASSUME client[d].at \in {"add", "waiting"} PROVE HeldStays(client[d].req)
      <3>1. CASE client[d].req = i
        <4>1. client[d].at = "add"
          BY <1>10, <1>17, <2>2, <3>1
        <4>2. r.key = k /\ r.answer = a
          BY <1>5, <1>17, <3>1, <4>1
        <4> QED
          BY <1>1, <1>6, <3>1, <4>2 DEF HeldStays
      <3>2. CASE client[d].req # i
        BY <1>6, <2>1, <2>2, <3>2 DEF HeldStays, HolderSound
      <3> QED
        BY <3>1, <3>2
    <2>3. ASSUME client[d].at = "waiting" PROVE WaitedStays(d, client[d].req)
      <3>1. client[d].req # i
        BY <1>10, <1>17, <2>3
      <3> QED
        BY <1>6, <2>1, <2>3, <3>1 DEF WaitedStays, HolderSound
    <2> QED
      BY <1>8, <1>9, <1>12, <1>17, <2>2, <2>3, BystanderStays
  <1> QED
    BY <1>11, <1>14, <1>15, <1>16, <1>17 DEF LocatorInv

\* Every step of the locator and its clients keeps the invariant.
LEMMA LocatorStep ==
    ASSUME LocatorInv, L!Next
    PROVE  LocatorInv'
  <1>1. DOMAIN reqs = Slots
    BY LocatorFacts
  <1>2. ASSUME NEW c \in Clients, L!Begin(c) \/ L!ClientStep(c) PROVE LocatorInv'
    BY <1>2, BeginKeeps, LookupKeeps, GetRequestKeeps, AddCallbackKeeps, ConnectKeeps,
        WrongServerKeeps, RetryKeeps DEF L!ClientStep
  <1>3. ASSUME NEW i \in Slots, L!RequestStep(i) PROVE LocatorInv'
    BY <1>3, LocatorServesKeeps, FinishRequestKeeps, ResponseKeeps DEF L!RequestStep
  <1> QED
    BY <1>1, <1>2, <1>3, MoveKeeps, ExpireKeeps DEF L!Next

\* Steps of the other components do not touch the locator.
LEMMA LocatorRest ==
    ASSUME LocatorInv, UNCHANGED locatorVars
    PROVE  LocatorInv'
  <1>1. /\ UNCHANGED <<background, place, home, faults>> /\ UNCHANGED <<adapterTable, objectTable>>
        /\ UNCHANGED <<current, reqs, client>>
    BY DEF locatorVars
  <1>2. LocatorTypes'
    BY <1>1 DEF LocatorInv, LocatorTypes, L!TypeOK
  <1>3. RequestsSound' /\ CurrentsSound'
    BY <1>1 DEF LocatorInv, RequestsSound, CurrentsSound
  <1>4. \A c \in Clients : ClientSound(c)'
    BY <1>1 DEF LocatorInv, ClientSound, HonestSound, AnswersRight, EntryRight, L!Now,
       L!Registered
  <1> QED
    BY <1>2, <1>3, <1>4 DEF LocatorInv

\* LocatorInv is an inductive invariant of the locator's cache and its requests.
THEOREM LocatorInductive == RuntimeSpec => []LocatorInv
  <1>1. RuntimeInit => LocatorInv
    BY LocatorBegins DEF RuntimeInit
  <1>2. LocatorInv /\ [RuntimeNext]_allVars => LocatorInv'
    <2> SUFFICES ASSUME LocatorInv, [RuntimeNext]_allVars PROVE LocatorInv'
      OBVIOUS
    <2>1. CASE RuntimeNext
      BY <2>1, LocatorStep, LocatorRest DEF RuntimeNext
    <2>2. CASE UNCHANGED allVars
      BY <2>2, LocatorRest DEF allVars
    <2> QED
      BY <2>1, <2>2
  <1> QED
    BY <1>1, <1>2, PTL DEF RuntimeSpec

\* LocatorInfo: callers share one request for a key, its answer finds every caller that
\* waits, and a wrong cache never makes an invocation fail; for every set of adapters,
\* objects, endpoints and clients.
THEOREM LocatorIsExact == RuntimeSpec => []LocatorExact
  BY LocatorInductive, LocatorInvGives, PTL

-----------------------------------------------------------------------------
(* Dispatch *)

Bit(b) == IF b THEN 1 ELSE 0

\* Holders of the connection of a request: the Incoming or an IncomingAsync.
Owns(r, h) ==
    IF h = D!Incoming THEN r = D!r0 /\ inc.conn ELSE amd[h].req = r /\ amd[h].conn
Holders == {D!Incoming} \cup Callbacks
LocatorOf(h) == IF h = D!Incoming THEN inc.loc ELSE amd[h].loc

OneHolder ==
    \A r \in D!Positions :
        /\ log[r].answers \in {0, 1}
        /\ \A g, h \in Holders : Owns(r, g) /\ Owns(r, h) => g = h
        /\ \A h \in Holders : Owns(r, h) => log[r].answers = 0
        /\ log[r].answers = 0 /\ r <= D!r0 => \E h \in Holders : Owns(r, h)

LocatorsPaired ==
    \A r \in D!Positions :
        /\ log[r].finished <= log[r].located \/ log[r].refinished
        /\ ~log[r].early
        /\ \A h \in Holders : Owns(r, h) =>
               \/ log[r].located = log[r].finished + Bit(LocatorOf(h))
               \/ h = D!Incoming /\ D!At("again") /\ log[r].located = log[r].finished

LaterUntouched ==
    \A r \in D!Positions : r > D!r0 =>
        /\ log[r].answers = 0 /\ log[r].located = 0 /\ log[r].finished = 0
        /\ \A c \in Callbacks : amd[c].req # r

CallbackSound(c) ==
    /\ amd[c].user = "unused" <=> amd[c].req = 0
    /\ amd[c].user = "unused" => ~amd[c].conn /\ ~amd[c].active /\ ~amd[c].retriable
    /\ amd[c].user # "unused" => \A d \in Callbacks : d < c => amd[d].user # "unused"
    /\ amd[c].retriable /\ amd[c].active => amd[c].conn /\ amd[c].user # "sending"
    /\ amd[c].user \in {"asking", "vetoed"} => amd[c].retriable
    /\ amd[c].retriable /\ ~amd[c].active =>
           (amd[c].conn <=> amd[c].user = "sending" \/ (D!At("sending") /\ c = inc.cb))
    /\ ~amd[c].retriable /\ amd[c].user # "unused" =>
           (amd[c].conn <=> amd[c].user \in {"open", "sending"} \/ (D!At("sending") /\ c = D!Latest))
CallbacksSound == \A c \in Callbacks : CallbackSound(c)

Fetched == {"read", "find", "locate", "none"}
IncomingSound ==
    /\ D!At("done") \/ D!r0 <= Count
    /\ D!At("done") => D!r0 = Count + 1 \/ crashed
    /\ thread.at \in Fetched =>
           /\ inc.conn /\ ~inc.loc /\ inc.cb = D!NoCallback /\ ~inc.retriable
           /\ log[D!r0].located = 0
    /\ inc.cb # D!NoCallback =>
           ~inc.conn /\ amd[inc.cb].req = D!r0 /\ amd[inc.cb].retriable /\ inc.retriable
    /\ D!At("interceptor") =>
           /\ thread.level \in 1 .. Depth /\ thread.depth = Depth
           /\ thread.level > 1 => inc.retriable
           /\ inc.conn \/ inc.cb # D!NoCallback
           /\ thread.status \in {"async", "sent"} => ~inc.conn
    /\ thread.at \in {"servant", "amd", "asking", "sending"} =>
           /\ thread.level = thread.depth + 1 /\ (thread.depth > 0 => inc.retriable)
    /\ D!At("servant") => inc.conn /\ inc.cb = D!NoCallback
    /\ thread.at \in {"amd", "asking", "sending"} =>
           /\ ~inc.conn /\ D!Latest \in Callbacks /\ amd[D!Latest].req = D!r0
           /\ inc.cb = IF inc.retriable THEN D!Latest ELSE D!NoCallback
           /\ amd[D!Latest].retriable = inc.retriable
    /\ D!At("asking") => inc.retriable
    /\ D!At("sending") => amd[D!Latest].conn /\ (inc.retriable => ~amd[D!Latest].active /\ amd[D!Latest].user # "sending")
                        /\ (~inc.retriable => amd[D!Latest].user = "done")
    /\ D!At("invoked") => thread.status \in {"ok", "throw", "async"} /\ (inc.conn <=> thread.status # "async")
    /\ D!At("again") => inc.conn /\ inc.loc /\ log[D!r0].refinished

CountsOpen == dispatchCount = Cardinality({r \in D!Positions : log[r].answers = 0})
CrashesLate == crashed => \E r \in D!Positions : log[r].late

DispatchInv ==
    D!TypeOK /\ OneHolder /\ LocatorsPaired /\ LaterUntouched /\ CallbacksSound /\ IncomingSound /\ CountsOpen /\ CrashesLate

\* The first callback that is not used.
LEMMA FirstUnused ==
    ASSUME D!Unused # {}
    PROVE  D!Min(D!Unused) \in D!Unused /\ \A c \in D!Unused : D!Min(D!Unused) <= c
  <1>1. D!Unused \subseteq Nat
    BY DispatchAssumption, FS_CardinalityType DEF D!Unused
  <1>2. \E x \in D!Unused : \A y \in D!Unused : x <= y
    BY <1>1, LeastExists
  <1> QED
    BY <1>2 DEF D!Min

\* The latest callback of a request: the one that no other of it follows.
LEMMA LatestIs ==
    ASSUME NEW T, T \subseteq Nat, NEW c \in T, \A d \in T : d <= c
    PROVE  D!Max(T) = c
  <1>1. \A y \in T : c >= y
    OBVIOUS
  <1>2. D!Max(T) \in T /\ \A y \in T : D!Max(T) >= y
    BY <1>1 DEF D!Max
  <1>3. c >= D!Max(T) /\ D!Max(T) >= c /\ D!Max(T) \in Nat /\ c \in Nat
    BY <1>1, <1>2
  <1> QED
    BY ONLY <1>3

\* A message arrives: its first request is the thread's.
LEMMA DispatchBegins == D!Init => DispatchInv
  <1> SUFFICES ASSUME D!Init PROVE DispatchInv
    OBVIOUS
  <1> USE DispatchAssumption DEF D!Init
  <1>1. D!TypeOK
    <2>1. thread \in D!ThreadRecord
      BY DEF D!ThreadRecord
    <2>2. inc \in D!IncomingRecord
      BY DEF D!NewIncoming, D!IncomingRecord
    <2>3. attempts \in [D!Levels -> 0 .. MaxAttempts] /\ dispatchCount \in 0 .. Count
      OBVIOUS
    <2>4. amd \in [Callbacks -> D!AsyncRecord]
      BY DEF D!AsyncRecord
    <2>5. log \in [D!Positions -> D!LogRecord]
      BY DEF D!LogRecord
    <2> QED
      BY <2>1, <2>2, <2>3, <2>4, <2>5 DEF D!TypeOK
  <1>2. 0 \notin Callbacks
    BY FS_CardinalityType
  <1>3. OneHolder
    BY <1>2 DEF OneHolder, Owns, Holders, D!Positions, D!NewIncoming, D!Incoming, D!r0
  <1>4. LocatorsPaired
    BY <1>2 DEF LocatorsPaired, Owns, Holders, D!Positions, D!NewIncoming, D!Incoming, D!r0,
       LocatorOf, Bit
  <1>5. LaterUntouched
    BY DEF LaterUntouched, D!Positions, D!r0
  <1>6. CallbacksSound
    BY DEF CallbacksSound, CallbackSound, D!At
  <1>7. IncomingSound
    BY DEF IncomingSound, D!NewIncoming, D!At, Fetched, D!Positions, D!r0
  <1>8. CountsOpen /\ CrashesLate
    <2>1. {r \in D!Positions : log[r].answers = 0} = 1 .. Count
      BY DEF D!Positions
    <2>2. Cardinality(1 .. Count) = Count
      BY FS_Interval
    <2> QED
      BY <2>1, <2>2 DEF CountsOpen, CrashesLate
  <1> QED
    BY <1>1, <1>3, <1>4, <1>5, <1>6, <1>7, <1>8 DEF DispatchInv

\* What the invariant is made of, for a step that leaves callbacks and log alone.
LEMMA DispatchAside ==
    ASSUME DispatchInv, amd' = amd, log' = log, dispatchCount' = dispatchCount, crashed' = crashed,
           thread'.req = thread.req, inc'.conn = inc.conn, inc'.loc = inc.loc,
           thread.at \notin {"sending", "again"}, thread'.at # "sending"
    PROVE  OneHolder' /\ LocatorsPaired' /\ LaterUntouched' /\ CallbacksSound' /\ CountsOpen' /\ CrashesLate'
  <1>1. \A r, h : Owns(r, h)' = Owns(r, h)
    BY DEF Owns, D!r0
  <1>2. OneHolder'
    BY <1>1 DEF DispatchInv, OneHolder, D!r0
  <1>3. LocatorsPaired'
    BY <1>1 DEF DispatchInv, LocatorsPaired, D!At, LocatorOf
  <1>4. LaterUntouched' /\ CountsOpen' /\ CrashesLate'
    BY DEF DispatchInv, LaterUntouched, CountsOpen, CrashesLate, D!r0
  <1>5. CallbacksSound'
    BY DEF DispatchInv, CallbacksSound, CallbackSound, D!At
  <1> QED
    BY <1>2, <1>3, <1>4, <1>5

\* The request is read.
LEMMA ReadKeeps ==
    ASSUME DispatchInv, D!ReadRequest
    PROVE  DispatchInv'
  <1> USE DEF D!ReadRequest, D!Goes, D!At
  <1>1. D!TypeOK'
    BY DEF DispatchInv, D!TypeOK, D!ThreadRecord
  <1>2. IncomingSound'
    BY DEF DispatchInv, IncomingSound, D!TypeOK, D!ThreadRecord, Fetched, D!r0
  <1>3. /\ thread'.req = thread.req /\ thread.at \notin {"sending", "again"}
        /\ thread'.at # "sending"
    BY DEF DispatchInv, D!TypeOK, D!ThreadRecord
  <1> QED
    BY <1>1, <1>2, <1>3, DispatchAside DEF DispatchInv

\* What Enter() does.
LEMMA EnterIs ==
    ASSUME D!TypeOK, NEW l \in 1 .. Depth + 1, NEW depth \in {0, Depth}, D!Enter(l, depth)
    PROVE  /\ thread' \in D!ThreadRecord /\ thread'.req = thread.req
           /\ thread'.at = (IF l <= depth THEN "interceptor" ELSE "servant")
           /\ thread'.depth = depth /\ thread'.level = l /\ thread'.status = "none"
  <1>1. PICK spot \in {"interceptor", "servant"} : spot = IF l <= depth THEN "interceptor" ELSE "servant"
    OBVIOUS
  <1>2. thread' = [thread EXCEPT !.at = spot, !.depth = depth, !.level = l, !.status = "none"]
    BY <1>1 DEF D!Enter
  <1>3. l \in 0 .. Depth + 1
    BY DispatchAssumption
  <1> QED
    BY <1>1, <1>2, <1>3 DEF D!TypeOK, D!ThreadRecord

\* What Goes() does.
LEMMA GoesIs ==
    ASSUME D!TypeOK, NEW spot, D!Goes(spot),
           spot \in {"read", "find", "locate", "none", "interceptor", "servant", "amd", "asking",
                     "sending", "invoked", "again", "done"}
    PROVE  /\ thread' \in D!ThreadRecord /\ thread'.req = thread.req /\ thread'.at = spot
           /\ thread'.depth = thread.depth /\ thread'.level = thread.level
           /\ thread'.status = thread.status
  BY DEF D!TypeOK, D!ThreadRecord, D!Goes

\* What Returns() does.
LEMMA ReturnsIs ==
    ASSUME D!TypeOK, NEW l \in 1 .. Depth + 1, NEW i \in D!IncomingRecord,
           NEW status \in {"ok", "async", "throw"}, D!Returns(l, i, status)
    PROVE  /\ thread' \in D!ThreadRecord /\ thread'.req = thread.req
           /\ thread'.at = (IF l = 1 THEN "invoked" ELSE "interceptor")
           /\ thread'.depth = thread.depth /\ thread'.level = l - 1 /\ thread'.status = status
           /\ inc' \in D!IncomingRecord /\ inc'.conn = i.conn /\ inc'.loc = i.loc
           /\ inc'.cb = i.cb /\ inc'.retriable = i.retriable
  <1>1. PICK spot \in {"interceptor", "invoked"} : spot = IF l = 1 THEN "invoked" ELSE "interceptor"
    OBVIOUS
  <1>2. thread' = [thread EXCEPT !.at = spot, !.level = l - 1, !.status = status]
    BY <1>1 DEF D!Returns
  <1>3. l - 1 \in 0 .. Depth + 1
    BY DispatchAssumption
  <1>4. /\ thread' \in D!ThreadRecord /\ thread'.req = thread.req /\ thread'.at = spot
        /\ thread'.depth = thread.depth /\ thread'.level = l - 1 /\ thread'.status = status
    BY <1>2, <1>3 DEF D!TypeOK, D!ThreadRecord
  <1>5. /\ inc' \in D!IncomingRecord /\ inc'.conn = i.conn /\ inc'.loc = i.loc
        /\ inc'.cb = i.cb /\ inc'.retriable = i.retriable
    BY DEF D!Returns, D!IncomingRecord
  <1> QED
    BY <1>1, <1>4, <1>5

\* A servant is looked for.
LEMMA FindKeeps ==
    ASSUME DispatchInv, D!FindServant
    PROVE  DispatchInv'
  <1> USE DispatchAssumption DEF D!FindServant, D!At
  <1>0. D!TypeOK
    BY DEF DispatchInv
  <1>1. /\ thread' \in D!ThreadRecord /\ thread'.req = thread.req
        /\ \/ thread'.at \in {"locate", "none"}
           \/ \E depth \in {0, Depth} :
                 /\ thread'.at = IF 1 <= depth THEN "interceptor" ELSE "servant"
                 /\ thread'.depth = depth /\ thread'.level = 1 /\ thread'.status = "none"
    BY <1>0, EnterIs, GoesIs
  <1>2. D!TypeOK'
    BY <1>0, <1>1 DEF D!TypeOK
  <1>3. IncomingSound'
    BY <1>1 DEF DispatchInv, IncomingSound, Fetched, D!r0
  <1>4. thread.at \notin {"sending", "again"} /\ thread'.at # "sending"
    BY <1>1
  <1> QED
    BY <1>1, <1>2, <1>3, <1>4, DispatchAside DEF DispatchInv

\* The servant answers or throws.
LEMMA ServantSyncKeeps ==
    ASSUME DispatchInv, D!ServantSync
    PROVE  DispatchInv'
  <1> USE DEF D!At
  <1>0. D!TypeOK /\ thread.at = "servant" /\ inc \in D!IncomingRecord
    BY DEF DispatchInv, D!TypeOK, D!ServantSync
  <1>1. thread.level \in 1 .. Depth + 1 /\ thread.level = thread.depth + 1 /\ thread.depth \in {0, Depth}
    BY <1>0, DispatchAssumption DEF DispatchInv, IncomingSound, D!TypeOK, D!ThreadRecord
  <1>2. PICK read \in BOOLEAN, status \in {"ok", "throw"} :
            D!Returns(thread.level, [inc EXCEPT !.consumed = read], status)
    BY DEF D!ServantSync
  <1>3. PICK i \in D!IncomingRecord :
           /\ i = [inc EXCEPT !.consumed = read] /\ i.conn = inc.conn /\ i.loc = inc.loc
           /\ i.cb = inc.cb /\ i.retriable = inc.retriable
    <2>1. /\ [inc EXCEPT !.consumed = read] \in D!IncomingRecord
          /\ [inc EXCEPT !.consumed = read].conn = inc.conn
          /\ [inc EXCEPT !.consumed = read].loc = inc.loc
          /\ [inc EXCEPT !.consumed = read].cb = inc.cb
          /\ [inc EXCEPT !.consumed = read].retriable = inc.retriable
      BY <1>0 DEF D!IncomingRecord
    <2> QED
      BY <2>1
  <1>4. /\ thread' \in D!ThreadRecord /\ thread'.req = thread.req
        /\ thread'.at = (IF thread.level = 1 THEN "invoked" ELSE "interceptor")
        /\ thread'.depth = thread.depth /\ thread'.level = thread.level - 1 /\ thread'.status = status
        /\ inc' \in D!IncomingRecord /\ inc'.conn = inc.conn /\ inc'.loc = inc.loc
        /\ inc'.cb = inc.cb /\ inc'.retriable = inc.retriable
    <2>1. D!Returns(thread.level, i, status) /\ status \in {"ok", "async", "throw"}
      BY <1>2, <1>3
    <2>2. /\ thread' \in D!ThreadRecord /\ thread'.req = thread.req
          /\ thread'.at = (IF thread.level = 1 THEN "invoked" ELSE "interceptor")
          /\ thread'.depth = thread.depth /\ thread'.level = thread.level - 1
          /\ thread'.status = status
          /\ inc' \in D!IncomingRecord /\ inc'.conn = i.conn /\ inc'.loc = i.loc
          /\ inc'.cb = i.cb /\ inc'.retriable = i.retriable
      BY <1>0, <1>1, <2>1, ReturnsIs
    <2> QED
      BY ONLY <1>3, <2>2
  <1>5. UNCHANGED <<amd, attempts, dispatchCount, log, crashed>>
    BY DEF D!ServantSync
  <1>6. D!TypeOK'
    BY <1>0, <1>4, <1>5 DEF D!TypeOK
  <1>7. IncomingSound'
    BY <1>0, <1>1, <1>4, <1>5, DispatchAssumption DEF DispatchInv, IncomingSound, Fetched,
       D!r0, D!NoCallback
  <1> QED
    BY <1>0, <1>4, <1>5, <1>6, <1>7, DispatchAside DEF DispatchInv

\* The servant has handed its callback on.
LEMMA AsyncReturnsKeeps ==
    ASSUME DispatchInv, D!AsyncReturns
    PROVE  DispatchInv'
  <1> USE DEF D!At
  <1>0. D!TypeOK /\ thread.at = "amd" /\ inc \in D!IncomingRecord
    BY DEF DispatchInv, D!TypeOK, D!AsyncReturns
  <1>1. thread.level \in 1 .. Depth + 1 /\ thread.level = thread.depth + 1 /\ thread.depth \in {0, Depth}
    BY <1>0, DispatchAssumption DEF DispatchInv, IncomingSound, D!TypeOK, D!ThreadRecord
  <1>4. /\ thread' \in D!ThreadRecord /\ thread'.req = thread.req
        /\ thread'.at = (IF thread.level = 1 THEN "invoked" ELSE "interceptor")
        /\ thread'.depth = thread.depth /\ thread'.level = thread.level - 1 /\ thread'.status = "async"
        /\ inc' \in D!IncomingRecord /\ inc'.conn = inc.conn /\ inc'.loc = inc.loc
        /\ inc'.cb = inc.cb /\ inc'.retriable = inc.retriable
    BY <1>0, <1>1, ReturnsIs DEF D!AsyncReturns
  <1>5. UNCHANGED <<amd, attempts, dispatchCount, log, crashed>>
    BY DEF D!AsyncReturns
  <1>6. D!TypeOK'
    BY <1>0, <1>4, <1>5 DEF D!TypeOK
  <1>7. IncomingSound'
    <2>1. D!Latest \in Callbacks /\ D!Latest # D!NoCallback
      BY <1>0, DispatchAssumption, FS_CardinalityType DEF DispatchInv, IncomingSound, D!NoCallback
    <2> QED
      BY <1>0, <1>1, <1>4, <1>5, <2>1, DispatchAssumption DEF DispatchInv, IncomingSound,
         Fetched, D!r0
  <1> QED
    BY <1>0, <1>4, <1>5, <1>6, <1>7, DispatchAside DEF DispatchInv

\* ice_response() or ice_exception() begins.
LEMMA UserCompletesKeeps ==
    ASSUME DispatchInv, NEW c \in Callbacks, D!UserCompletes(c)
    PROVE  DispatchInv'
  <1> USE DispatchAssumption DEF D!UserCompletes, D!At
  <1>1. D!TypeOK'
    <2>1. PICK spot \in {"asking", "sending"} : amd' = [amd EXCEPT ![c].user = spot]
      OBVIOUS
    <2>2. amd \in [Callbacks -> D!AsyncRecord]
      BY DEF DispatchInv, D!TypeOK
    <2>3. amd' \in [Callbacks -> D!AsyncRecord]
      BY ONLY <2>1, <2>2, c \in Callbacks DEF D!AsyncRecord
    <2> QED
      BY <2>3 DEF DispatchInv, D!TypeOK
  <1>2. \A d \in Callbacks :
            /\ amd'[d] = [amd[d] EXCEPT !.user = amd'[d].user] /\ amd[d] \in D!AsyncRecord
            /\ d # c => amd'[d] = amd[d]
    BY DEF DispatchInv, D!TypeOK, D!AsyncRecord
  <1>3. \A d \in Callbacks :
            /\ amd'[d].req = amd[d].req /\ amd'[d].conn = amd[d].conn /\ amd'[d].loc = amd[d].loc
            /\ amd'[d].active = amd[d].active /\ amd'[d].retriable = amd[d].retriable
    BY <1>2 DEF D!AsyncRecord
  <1>4. amd[c].user = "open" /\ amd'[c].user = IF amd[c].retriable THEN "asking" ELSE "sending"
    BY DEF DispatchInv, D!TypeOK, D!AsyncRecord
  <1>5. D!Latest' = D!Latest
    BY <1>3 DEF D!Latest, D!r0
  <1>6. IncomingSound'
    BY <1>2, <1>3, <1>4, <1>5 DEF DispatchInv, IncomingSound, D!TypeOK, D!r0, D!IncomingRecord,
       D!NoCallback
  <1>7. CallbacksSound'
    BY <1>2, <1>3, <1>4, <1>5 DEF DispatchInv, CallbacksSound, CallbackSound, IncomingSound
  <1>8. \A r \in D!Positions, h \in Holders : Owns(r, h)' = Owns(r, h) /\ LocatorOf(h)' = LocatorOf(h)
    BY <1>3 DEF Owns, Holders, LocatorOf, D!r0
  <1>9. OneHolder' /\ LocatorsPaired' /\ LaterUntouched' /\ CountsOpen' /\ CrashesLate'
    BY <1>3, <1>8 DEF DispatchInv, OneHolder, LocatorsPaired, LaterUntouched, CountsOpen,
       CrashesLate, D!r0
  <1> QED
    BY <1>1, <1>6, <1>7, <1>9 DEF DispatchInv

\* A callback that begins to answer, or does not.
LEMMA UserAsksKeeps ==
    ASSUME DispatchInv, NEW c \in Callbacks, D!UserAsks(c)
    PROVE  DispatchInv'
  <1> USE DispatchAssumption DEF D!UserAsks, D!At, D!Validated
  <1>0. amd \in [Callbacks -> D!AsyncRecord]
    BY DEF DispatchInv, D!TypeOK
  <1>1. PICK spot \in {"vetoed", "sending", "done"}, act \in BOOLEAN :
           /\ amd' = [amd EXCEPT ![c].user = spot, ![c].active = act]
           /\ spot = "sending" => amd[c].active /\ ~act
           /\ spot # "sending" => act = amd[c].active
           /\ spot = "done" => ~amd[c].active
    BY <1>0 DEF D!AsyncRecord
  <1>2. amd' \in [Callbacks -> D!AsyncRecord]
    <2>1. amd' = [amd EXCEPT ![c] = [amd[c] EXCEPT !.user = spot, !.active = act]]
      BY ONLY <1>0, <1>1, c \in Callbacks
    <2>2. [amd[c] EXCEPT !.user = spot, !.active = act] \in D!AsyncRecord
      BY ONLY <1>0, <1>1, c \in Callbacks DEF D!AsyncRecord
    <2> QED
      BY ONLY <1>0, <2>1, <2>2, c \in Callbacks
  <1>3. /\ \A d \in Callbacks :
            /\ amd'[d].req = amd[d].req /\ amd'[d].conn = amd[d].conn /\ amd'[d].loc = amd[d].loc
            /\ amd'[d].retriable = amd[d].retriable /\ (d # c => amd'[d] = amd[d])
        /\ amd'[c].user = spot /\ amd'[c].active = act
    <2>1. amd'[c] = [amd[c] EXCEPT !.user = spot, !.active = act] /\ amd[c] \in D!AsyncRecord
      BY ONLY <1>0, <1>1, c \in Callbacks
    <2>2. /\ amd'[c].req = amd[c].req /\ amd'[c].conn = amd[c].conn /\ amd'[c].loc = amd[c].loc
          /\ amd'[c].retriable = amd[c].retriable /\ amd'[c].user = spot /\ amd'[c].active = act
      BY ONLY <2>1 DEF D!AsyncRecord
    <2>3. \A d \in Callbacks : d # c => amd'[d] = amd[d]
      BY ONLY <1>0, <1>1
    <2> QED
      BY ONLY <2>2, <2>3
  <1>4. amd[c].user = "asking" /\ amd[c].retriable
    BY DEF DispatchInv, CallbacksSound, CallbackSound
  <1>5. D!Latest' = D!Latest
    BY <1>3 DEF D!Latest, D!r0
  <1>6. IncomingSound'
    BY <1>1, <1>3, <1>4, <1>5 DEF DispatchInv, IncomingSound, D!TypeOK, D!r0, D!IncomingRecord,
       D!NoCallback
  <1>7. CallbacksSound'
    <2>1. D!At("sending") /\ c = inc.cb => ~amd[c].active
      BY DispatchAssumption, FS_CardinalityType DEF DispatchInv, IncomingSound, D!NoCallback
    <2>2. CallbacksSound
      BY DEF DispatchInv
    <2> SUFFICES ASSUME NEW d \in Callbacks PROVE CallbackSound(d)'
      BY DEF CallbacksSound, CallbackSound
    <2>5. thread' = thread /\ inc' = inc /\ CallbackSound(d) /\ c \in Callbacks
      BY <2>2 DEF CallbacksSound
    <2>6. \A e \in Callbacks : amd'[e].user # "unused" <=> amd[e].user # "unused"
      BY <1>1, <1>3, <1>4
    <2>3. CASE d # c
      <3>1. amd'[d] = amd[d]
        BY <1>3, <2>3
      <3> QED
        BY ONLY <1>5, <2>3, <2>5, <2>6, <3>1 DEF CallbackSound, D!At
    <2>4. CASE d = c
      <3>1. /\ amd[c].conn \in BOOLEAN /\ amd[c].active \in BOOLEAN /\ amd[c].retriable \in BOOLEAN
            /\ amd[c].req # 0 /\ amd'[c].req = amd[c].req /\ amd'[c].conn = amd[c].conn
            /\ amd'[c].retriable = amd[c].retriable /\ amd'[c].user = spot /\ amd'[c].active = act
        BY <1>0, <1>3, <1>4, <2>5, <2>4 DEF D!AsyncRecord, CallbackSound
      <3> QED
        BY ONLY <1>1, <1>4, <2>1, <2>4, <2>5, <2>6, <3>1 DEF CallbackSound, D!At
    <2> QED
      BY <2>3, <2>4
  <1>8. \A r \in D!Positions, h \in Holders : Owns(r, h)' = Owns(r, h) /\ LocatorOf(h)' = LocatorOf(h)
    BY <1>3 DEF Owns, Holders, LocatorOf, D!r0
  <1>9. OneHolder' /\ LocatorsPaired' /\ LaterUntouched' /\ CountsOpen' /\ CrashesLate'
    BY <1>3, <1>8 DEF DispatchInv, OneHolder, LocatorsPaired, LaterUntouched, CountsOpen,
       CrashesLate, D!r0
  <1>10. D!TypeOK'
    BY <1>2 DEF DispatchInv, D!TypeOK
  <1> QED
    BY <1>10, <1>6, <1>7, <1>9 DEF DispatchInv

\* A message has Count requests.
LEMMA AllPositions == IsFiniteSet(D!Positions) /\ Cardinality(D!Positions) = Count
  <1>1. Count \in Int /\ 1 \in Int /\ ~(1 > Count) /\ Count - 1 + 1 = Count
    BY DispatchAssumption
  <1>2. IsFiniteSet(1 .. Count) /\ Cardinality(1 .. Count) = IF 1 > Count THEN 0 ELSE Count - 1 + 1
    BY ONLY <1>1, FS_Interval
  <1> QED
    BY <1>1, <1>2 DEF D!Positions

\* One request less is unanswered.
LEMMA OneLess ==
    ASSUME DispatchInv, NEW r \in D!Positions, log[r].answers = 0,
           \A s \in D!Positions : log'[s].answers = IF s = r THEN 1 ELSE log[s].answers,
           dispatchCount' = dispatchCount - 1
    PROVE  CountsOpen' /\ dispatchCount' \in 0 .. Count
  <1> DEFINE OpenRequests == {s \in D!Positions : log[s].answers = 0}
  <1>1. IsFiniteSet(OpenRequests) /\ Cardinality(OpenRequests) <= Count
    <2>1. OpenRequests \in SUBSET (1 .. Count)
      BY DEF D!Positions
    <2>2. IsFiniteSet(1 .. Count) /\ Cardinality(1 .. Count) = Count
      BY AllPositions DEF D!Positions
    <2> HIDE DEF OpenRequests
    <2> QED
      BY <2>1, <2>2, FS_Subset
  <1>2. {s \in D!Positions : log'[s].answers = 0} = OpenRequests \ {r} /\ r \in OpenRequests
    OBVIOUS
  <1>3. Cardinality(OpenRequests \ {r}) = Cardinality(OpenRequests) - 1 /\ Cardinality(OpenRequests) \in Nat
        /\ Cardinality(OpenRequests \ {r}) \in Nat
    BY <1>1, <1>2, FS_RemoveElement, FS_CardinalityType
  <1>4. dispatchCount = Cardinality(OpenRequests)
    BY DEF DispatchInv, CountsOpen
  <1>5. CountsOpen'
    BY <1>2, <1>3, <1>4 DEF CountsOpen
  <1> HIDE DEF OpenRequests
  <1> QED
    BY <1>1, <1>3, <1>4, <1>5, DispatchAssumption

\* What Counted() and Finished() do to the log.
LEMMA LogIs ==
    ASSUME NEW l \in [D!Positions -> D!LogRecord], NEW r \in D!Positions, NEW fin \in BOOLEAN,
           NEW m, m = D!Counted(IF fin THEN D!Finished(l, r) ELSE l, r, 1)
    PROVE  /\ m \in [D!Positions -> D!LogRecord]
           /\ \A s \in D!Positions : s # r => m[s] = l[s]
           /\ m[r].answers = l[r].answers + 1 /\ m[r].located = l[r].located
           /\ m[r].finished = l[r].finished + Bit(fin)
           /\ m[r].early = (l[r].early \/ l[r].finished + Bit(fin) < l[r].located)
           /\ m[r].refinished = l[r].refinished /\ m[r].late = l[r].late
           /\ m[r].inStep = l[r].inStep
  <1>1. PICK k : k = IF fin THEN D!Finished(l, r) ELSE l
    OBVIOUS
  <1>2. /\ k \in [D!Positions -> D!LogRecord] /\ \A s \in D!Positions : s # r => k[s] = l[s]
        /\ k[r].answers = l[r].answers /\ k[r].located = l[r].located
        /\ k[r].finished = l[r].finished + Bit(fin)
        /\ k[r].early = l[r].early /\ k[r].refinished = l[r].refinished
        /\ k[r].late = l[r].late /\ k[r].inStep = l[r].inStep
    BY <1>1 DEF D!Finished, D!LogRecord, Bit
  <1>3. m = D!Counted(k, r, 1)
    BY <1>1
  <1>4. PICK e \in BOOLEAN : e = (k[r].early \/ k[r].finished < k[r].located)
    BY <1>2
  <1>5. m = [k EXCEPT ![r].answers = @ + 1, ![r].early = e]
    BY <1>2, <1>3, <1>4 DEF D!Counted, D!LogRecord
  <1>6. /\ m \in [D!Positions -> D!LogRecord] /\ \A s \in D!Positions : s # r => m[s] = k[s]
        /\ m[r].answers = k[r].answers + 1 /\ m[r].located = k[r].located
        /\ m[r].finished = k[r].finished /\ m[r].early = e
        /\ m[r].refinished = k[r].refinished /\ m[r].late = k[r].late
        /\ m[r].inStep = k[r].inStep
    BY <1>2, <1>5 DEF D!LogRecord
  <1> QED
    BY <1>2, <1>4, <1>6

\* The number of no callback.
LEMMA ZeroIsNone == 0 \notin Callbacks /\ Callbacks \subseteq Nat
  BY DispatchAssumption, FS_CardinalityType

\* An IncomingAsync that owns the connection of its request answers it.
LEMMA SendAsyncKeeps ==
    ASSUME DispatchInv, NEW c \in Callbacks, amd[c].conn, D!Send(c),
           \A d \in Callbacks : /\ amd'[d].req = amd[d].req /\ amd'[d].loc = amd[d].loc
                                /\ (amd'[d].conn <=> amd[d].conn /\ d # c),
           thread'.req = thread.req, inc'.conn = inc.conn, inc'.loc = inc.loc,
           thread.at = "again" => thread'.at = "again"
    PROVE  /\ OneHolder' /\ LocatorsPaired' /\ LaterUntouched' /\ CountsOpen' /\ CrashesLate'
           /\ log' \in [D!Positions -> D!LogRecord] /\ dispatchCount' \in 0 .. Count
           /\ crashed' = crashed
           /\ \A s \in D!Positions : log'[s].located = log[s].located /\ log'[s].refinished = log[s].refinished
  <1> DEFINE r == amd[c].req
  <1>0. /\ D!TypeOK /\ amd[c] \in D!AsyncRecord /\ log \in [D!Positions -> D!LogRecord] /\ c # 0
        /\ OneHolder /\ LocatorsPaired /\ CallbackSound(c)
    BY ZeroIsNone DEF DispatchInv, D!TypeOK, CallbacksSound
  <1>1. r \in D!Positions /\ amd[c].loc \in BOOLEAN
    BY <1>0 DEF CallbackSound, D!AsyncRecord, D!Positions
  <1>2. Owns(r, c) /\ c \in Holders /\ LocatorOf(c) = amd[c].loc
    BY <1>0 DEF Owns, Holders, LocatorOf, D!Incoming
  <1>3. log[r].answers = 0 /\ log[r].located = log[r].finished + Bit(amd[c].loc) /\ ~log[r].early
    BY <1>0, <1>1, <1>2 DEF OneHolder, LocatorsPaired, D!Incoming
  <1>4. /\ log' \in [D!Positions -> D!LogRecord]
        /\ \A s \in D!Positions : s # r => log'[s] = log[s]
        /\ log'[r].answers = log[r].answers + 1 /\ log'[r].located = log[r].located
        /\ log'[r].finished = log[r].finished + Bit(amd[c].loc)
        /\ log'[r].early = (log[r].early \/ log[r].finished + Bit(amd[c].loc) < log[r].located)
        /\ log'[r].refinished = log[r].refinished /\ log'[r].late = log[r].late
    <2>1. log' = D!Counted(IF amd[c].loc THEN D!Finished(log, r) ELSE log, r, 1)
      BY DEF D!Send
    <2> QED
      BY <1>0, <1>1, <2>1, LogIs
  <1>5. /\ log'[r].answers = 1 /\ ~log'[r].early /\ log'[r].finished = log'[r].located
    <2>1. log[r].finished + Bit(amd[c].loc) \in Nat /\ log[r].located \in Nat
      BY <1>0, <1>1 DEF D!LogRecord, Bit
    <2>2. ~(log[r].finished + Bit(amd[c].loc) < log[r].located)
      BY <1>3, <2>1
    <2>3. ~log'[r].early
      BY <1>3, <1>4, <2>2
    <2> QED
      BY <1>3, <1>4, <2>3
  <1>6. \A s \in D!Positions, h \in Holders :
            /\ Owns(s, h)' <=> Owns(s, h) /\ h # c
            /\ LocatorOf(h)' = LocatorOf(h)
    <2> SUFFICES ASSUME NEW s \in D!Positions, NEW h \in Holders
                 PROVE  (Owns(s, h)' <=> Owns(s, h) /\ h # c) /\ LocatorOf(h)' = LocatorOf(h)
      OBVIOUS
    <2>1. CASE h = D!Incoming
      BY <1>0, <2>1 DEF Owns, LocatorOf, D!r0, D!Incoming
    <2>2. CASE h # D!Incoming /\ h \in Callbacks
      BY <2>2 DEF Owns, LocatorOf
    <2> QED
      BY <2>1, <2>2 DEF Holders
  <1>7. \A h \in Holders : ~Owns(r, h)'
    BY <1>0, <1>1, <1>2, <1>6 DEF OneHolder
  <1>8. \A s \in D!Positions, h \in Holders : s # r => (Owns(s, h)' <=> Owns(s, h))
    <2>1. \A s \in D!Positions : Owns(s, c) => s = r
      BY <1>0 DEF Owns, D!Incoming
    <2> QED
      BY <1>6, <2>1
  <1>9. OneHolder'
    <2>1. D!r0' = D!r0
      BY DEF D!r0
    <2> SUFFICES ASSUME NEW s \in D!Positions
                 PROVE  /\ log'[s].answers \in {0, 1}
                        /\ \A g, h \in Holders : Owns(s, g)' /\ Owns(s, h)' => g = h
                        /\ \A h \in Holders : Owns(s, h)' => log'[s].answers = 0
                        /\ log'[s].answers = 0 /\ s <= D!r0 => \E h \in Holders : Owns(s, h)'
      BY <2>1 DEF OneHolder
    <2>2. CASE s = r
      BY <1>5, <1>7, <2>2
    <2>3. CASE s # r
      BY <1>0, <1>4, <1>8, <2>3 DEF OneHolder
    <2> QED
      BY <2>2, <2>3
  <1>10. LocatorsPaired'
    <2> SUFFICES ASSUME NEW s \in D!Positions
                 PROVE  /\ log'[s].finished <= log'[s].located \/ log'[s].refinished
                        /\ ~log'[s].early
                        /\ \A h \in Holders : Owns(s, h)' =>
                             \/ log'[s].located = log'[s].finished + Bit(LocatorOf(h)')
                             \/ h = D!Incoming /\ D!At("again")' /\ log'[s].located = log'[s].finished
      BY DEF LocatorsPaired
    <2>2. CASE s = r
      <3>1. log'[r].located \in Nat
        BY <1>1, <1>4 DEF D!LogRecord
      <3> QED
        BY <1>5, <1>7, <2>2, <3>1
    <2>3. CASE s # r
      BY <1>0, <1>4, <1>6, <1>8, <2>3 DEF LocatorsPaired, D!At
    <2> QED
      BY <2>2, <2>3
  <1>11. LaterUntouched'
    <2>1. ~(r > D!r0)
      BY <1>1 DEF DispatchInv, LaterUntouched
    <2> QED
      BY <1>4, <2>1 DEF DispatchInv, LaterUntouched, D!r0
  <1>12. CountsOpen' /\ dispatchCount' \in 0 .. Count
    <2>1. \A s \in D!Positions : log'[s].answers = IF s = r THEN 1 ELSE log[s].answers
      BY <1>4, <1>5
    <2>2. dispatchCount' = dispatchCount - 1
      BY DEF D!Send
    <2> QED
      BY <1>1, <1>3, <2>1, <2>2, OneLess
  <1>13. crashed' = crashed
    BY <1>0 DEF D!Send, D!TypeOK
  <1>14. CrashesLate'
    BY <1>4, <1>13 DEF DispatchInv, CrashesLate
  <1> QED
    BY <1>4, <1>9, <1>10, <1>11, <1>12, <1>13, <1>14

\* ice_response() or ice_exception() ends.
LEMMA UserSendsKeeps ==
    ASSUME DispatchInv, NEW c \in Callbacks, D!UserSends(c)
    PROVE  DispatchInv'
  <1>0. /\ D!TypeOK /\ amd \in [Callbacks -> D!AsyncRecord] /\ CallbackSound(c) /\ amd[c].user = "sending"
        /\ amd' = [amd EXCEPT ![c] = [amd[c] EXCEPT !.user = "done", !.conn = FALSE]]
        /\ UNCHANGED <<thread, inc, attempts>> /\ D!Send(c) /\ IncomingSound /\ CallbacksSound
    BY DEF DispatchInv, D!TypeOK, CallbacksSound, D!UserSends
  <1>1. [amd[c] EXCEPT !.user = "done", !.conn = FALSE] \in D!AsyncRecord
    BY <1>0 DEF D!AsyncRecord
  <1>2. amd' \in [Callbacks -> D!AsyncRecord]
    BY ONLY <1>0, <1>1, c \in Callbacks
  <1>3. /\ \A d \in Callbacks : d # c => amd'[d] = amd[d]
        /\ amd'[c].user = "done" /\ ~amd'[c].conn
        /\ amd'[c].req = amd[c].req /\ amd'[c].loc = amd[c].loc /\ amd'[c].active = amd[c].active
        /\ amd'[c].retriable = amd[c].retriable
    BY ONLY <1>0, c \in Callbacks DEF D!AsyncRecord
  <1>4. amd[c].conn
    BY <1>0 DEF CallbackSound, D!AsyncRecord
  <1>5. \A d \in Callbacks : /\ amd'[d].req = amd[d].req /\ amd'[d].loc = amd[d].loc
                             /\ (amd'[d].conn <=> amd[d].conn /\ d # c)
    BY <1>0, <1>3 DEF D!AsyncRecord
  <1>6. /\ OneHolder' /\ LocatorsPaired' /\ LaterUntouched' /\ CountsOpen' /\ CrashesLate'
        /\ log' \in [D!Positions -> D!LogRecord] /\ dispatchCount' \in 0 .. Count
        /\ crashed' = crashed
        /\ \A s \in D!Positions : log'[s].located = log[s].located /\ log'[s].refinished = log[s].refinished
    BY <1>0, <1>4, <1>5, SendAsyncKeeps
  <1>7. D!TypeOK'
    BY <1>0, <1>2, <1>6 DEF D!TypeOK
  <1>8. D!Latest' = D!Latest
    BY <1>0, <1>5 DEF D!Latest, D!r0
  <1>9. D!At("sending") => c # D!Latest
    BY <1>0 DEF IncomingSound, D!At
  <1>10. IncomingSound'
    <2>1. D!At("done") \/ D!r0 \in D!Positions
      BY <1>0 DEF IncomingSound, D!TypeOK, D!ThreadRecord, D!Positions, D!r0
    <2>2. thread' = thread /\ inc' = inc /\ D!r0' = D!r0
      BY <1>0 DEF D!r0
    <2>3. \A spot : D!At(spot)' <=> D!At(spot)
      BY <2>2 DEF D!At
    <2>4. inc.cb # D!NoCallback => inc.cb \in Callbacks
      BY <1>0 DEF D!TypeOK, D!IncomingRecord
    <2>5. /\ inc.cb # D!NoCallback => amd'[inc.cb].req = amd[inc.cb].req /\ amd'[inc.cb].retriable = amd[inc.cb].retriable
          /\ D!Latest \in Callbacks => amd'[D!Latest].req = amd[D!Latest].req /\ amd'[D!Latest].retriable = amd[D!Latest].retriable
          /\ D!At("sending") => amd'[D!Latest] = amd[D!Latest]
      BY <1>0, <1>3, <1>5, <1>9, <2>4 DEF IncomingSound, D!At
    <2>6. thread.at \in Fetched \/ D!At("again") =>
             log'[D!r0].located = log[D!r0].located /\ log'[D!r0].refinished = log[D!r0].refinished
      BY <1>6, <2>1 DEF Fetched, D!At
    <2>7. IncomingSound
      BY <1>0
    <2> QED
      BY ONLY <1>6, <1>8, <2>2, <2>3, <2>5, <2>6, <2>7 DEF IncomingSound
  <1>11. CallbacksSound'
    <2> SUFFICES ASSUME NEW d \in Callbacks PROVE CallbackSound(d)'
      BY DEF CallbacksSound
    <2>5. thread' = thread /\ inc' = inc /\ CallbackSound(d) /\ c \in Callbacks
      BY <1>0 DEF CallbacksSound
    <2>6. \A e \in Callbacks : amd'[e].user # "unused" <=> amd[e].user # "unused"
      BY <1>0, <1>3
    <2>3. CASE d # c
      <3>1. amd'[d] = amd[d]
        BY <1>3, <2>3
      <3> QED
        BY ONLY <1>8, <2>3, <2>5, <2>6, <3>1 DEF CallbackSound, D!At
    <2>4. CASE d = c
      <3>1. /\ amd[c].conn \in BOOLEAN /\ amd[c].active \in BOOLEAN /\ amd[c].retriable \in BOOLEAN
            /\ amd[c].req # 0 /\ amd'[c].user = "done" /\ ~amd'[c].conn /\ amd[c].user = "sending"
            /\ amd'[c].req = amd[c].req /\ amd'[c].loc = amd[c].loc /\ amd'[c].active = amd[c].active
            /\ amd'[c].retriable = amd[c].retriable
        BY <1>0, <1>3, <2>5, <2>4 DEF D!AsyncRecord, CallbackSound
      <3>2. D!At("sending") => c # inc.cb \/ ~amd[c].retriable
        BY <1>0, <1>9, ZeroIsNone DEF IncomingSound, D!At, D!NoCallback
      <3> QED
        BY ONLY <1>8, <1>9, <2>4, <2>5, <2>6, <3>1, <3>2 DEF CallbackSound, D!At
    <2> QED
      BY <2>3, <2>4
  <1> QED
    BY <1>6, <1>7, <1>10, <1>11 DEF DispatchInv

\* The servant's __dispatch() ends and somebody else has the connection.
LEMMA AsyncReturned ==
    ASSUME DispatchInv, thread.at \in {"amd", "asking", "sending"},
           D!Returns(thread.level, inc, "async"),
           \A d \in Callbacks : amd'[d].req = amd[d].req /\ amd'[d].retriable = amd[d].retriable
    PROVE  /\ IncomingSound' /\ thread' \in D!ThreadRecord /\ inc' \in D!IncomingRecord
           /\ thread'.req = thread.req /\ thread'.at \in {"invoked", "interceptor"}
           /\ inc'.conn = inc.conn /\ inc'.loc = inc.loc /\ inc'.cb = inc.cb
           /\ inc'.retriable = inc.retriable
  <1> USE DEF D!At
  <1>0. D!TypeOK /\ inc \in D!IncomingRecord /\ IncomingSound
    BY DEF DispatchInv, D!TypeOK
  <1>1. thread.level \in 1 .. Depth + 1 /\ thread.level = thread.depth + 1 /\ thread.depth \in {0, Depth}
    BY <1>0, DispatchAssumption DEF IncomingSound, D!TypeOK, D!ThreadRecord
  <1>2. /\ thread' \in D!ThreadRecord /\ thread'.req = thread.req
        /\ thread'.at = (IF thread.level = 1 THEN "invoked" ELSE "interceptor")
        /\ thread'.depth = thread.depth /\ thread'.level = thread.level - 1 /\ thread'.status = "async"
        /\ inc' \in D!IncomingRecord /\ inc'.conn = inc.conn /\ inc'.loc = inc.loc
        /\ inc'.cb = inc.cb /\ inc'.retriable = inc.retriable
    BY <1>0, <1>1, ReturnsIs
  <1>3. IncomingSound'
    <2>1. D!Latest \in Callbacks /\ D!Latest # D!NoCallback /\ ~inc.conn /\ D!r0 <= Count
          /\ (inc.cb = IF inc.retriable THEN D!Latest ELSE D!NoCallback)
          /\ (thread.depth > 0 => inc.retriable)
      BY <1>0, ZeroIsNone DEF IncomingSound, D!NoCallback
    <2>2. inc.cb # D!NoCallback => inc.cb \in Callbacks /\ amd[inc.cb].req = D!r0 /\ amd[inc.cb].retriable /\ inc.retriable
      BY <1>0 DEF IncomingSound, D!IncomingRecord
    <2>3. D!r0' = D!r0
      BY <1>2 DEF D!r0
    <2>4. thread.level # 1 => /\ thread'.level \in 1 .. Depth /\ thread'.depth = Depth /\ inc.retriable
                              /\ thread'.at = "interceptor"
      BY <1>1, <1>2, <2>1, DispatchAssumption
    <2>5. thread.level = 1 => thread'.at = "invoked"
      BY <1>2
    <2>6. inc.cb # D!NoCallback => amd'[inc.cb].req = D!r0 /\ amd'[inc.cb].retriable
      BY <2>2
    <2> QED
      BY ONLY <1>2, <2>1, <2>2, <2>3, <2>4, <2>5, <2>6 DEF IncomingSound, Fetched, D!At
  <1> QED
    BY <1>2, <1>3

\* The generated code completes the callback of a servant that threw.
LEMMA ThreadSendsKeeps ==
    ASSUME DispatchInv, D!ThreadSends
    PROVE  DispatchInv'
  <1> DEFINE c == D!Latest
  <1>0. /\ D!TypeOK /\ amd \in [Callbacks -> D!AsyncRecord] /\ thread.at = "sending"
        /\ amd' = [amd EXCEPT ![c].conn = FALSE] /\ D!Returns(thread.level, inc, "async")
        /\ D!Send(c) /\ UNCHANGED attempts /\ IncomingSound /\ CallbacksSound
    BY DEF DispatchInv, D!TypeOK, D!ThreadSends, D!At
  <1>1. /\ c \in Callbacks /\ amd[c].conn /\ ~inc.conn /\ amd[c].req = D!r0
        /\ amd[c].user # "sending" /\ (~amd[c].retriable => amd[c].user = "done")
        /\ (amd[c].retriable => ~amd[c].active /\ c = inc.cb)
    BY <1>0 DEF IncomingSound, D!At, CallbacksSound, CallbackSound
  <1> HIDE DEF c
  <1>2. amd' \in [Callbacks -> D!AsyncRecord]
    <2>1. [amd[c] EXCEPT !.conn = FALSE] \in D!AsyncRecord
      BY ONLY <1>0, <1>1 DEF D!AsyncRecord
    <2> QED
      BY ONLY <1>0, <1>1, <2>1
  <1>3. /\ \A d \in Callbacks : d # c => amd'[d] = amd[d]
        /\ ~amd'[c].conn /\ amd'[c].user = amd[c].user
        /\ amd'[c].req = amd[c].req /\ amd'[c].loc = amd[c].loc /\ amd'[c].active = amd[c].active
        /\ amd'[c].retriable = amd[c].retriable
    BY ONLY <1>0, <1>1 DEF D!AsyncRecord
  <1>4. \A d \in Callbacks : /\ amd'[d].req = amd[d].req /\ amd'[d].loc = amd[d].loc
                             /\ (amd'[d].conn <=> amd[d].conn /\ d # c)
                             /\ amd'[d].retriable = amd[d].retriable
    BY <1>3
  <1>5. /\ IncomingSound' /\ thread' \in D!ThreadRecord /\ inc' \in D!IncomingRecord
        /\ thread'.req = thread.req /\ thread'.at \in {"invoked", "interceptor"}
        /\ inc'.conn = inc.conn /\ inc'.loc = inc.loc /\ inc'.cb = inc.cb
        /\ inc'.retriable = inc.retriable
    BY <1>0, <1>4, AsyncReturned
  <1>6. /\ OneHolder' /\ LocatorsPaired' /\ LaterUntouched' /\ CountsOpen' /\ CrashesLate'
        /\ log' \in [D!Positions -> D!LogRecord] /\ dispatchCount' \in 0 .. Count
        /\ crashed' = crashed
    BY <1>0, <1>1, <1>4, <1>5, SendAsyncKeeps
  <1>7. D!TypeOK'
    BY <1>0, <1>2, <1>5, <1>6 DEF D!TypeOK
  <1>11. CallbacksSound'
    <2> SUFFICES ASSUME NEW d \in Callbacks PROVE CallbackSound(d)'
      BY DEF CallbacksSound
    <2>5. CallbackSound(d) /\ thread'.at # "sending" /\ thread.at = "sending"
      BY <1>0, <1>5 DEF CallbacksSound
    <2>6. \A e \in Callbacks : amd'[e].user = amd[e].user
      BY <1>3
    <2>3. CASE d # c
      <3>1. amd'[d] = amd[d] /\ d # D!Latest /\ (d = inc.cb => ~amd[d].retriable)
        <4>1. inc.cb = c \/ inc.cb = D!NoCallback
          BY <1>0 DEF IncomingSound, D!At, c
        <4> QED
          BY <1>3, <2>3, <4>1, ZeroIsNone DEF c, D!NoCallback
      <3> QED
        BY ONLY <2>3, <2>5, <2>6, <3>1 DEF CallbackSound, D!At
    <2>4. CASE d = c
      <3>1. /\ amd[c].conn \in BOOLEAN /\ amd[c].active \in BOOLEAN /\ amd[c].retriable \in BOOLEAN
        BY <1>0, <1>1 DEF D!AsyncRecord
      <3>2. amd[c].user # "unused"
        BY <1>1, <2>4, <2>5 DEF CallbackSound
      <3> QED
        BY ONLY <1>1, <1>3, <2>4, <2>5, <2>6, <3>1, <3>2 DEF CallbackSound, D!At
    <2> QED
      BY <2>3, <2>4
  <1> QED
    BY <1>5, <1>6, <1>7, <1>11 DEF DispatchInv

\* Before that the callbacks of interceptors are asked.
LEMMA ThreadAsksKeeps ==
    ASSUME DispatchInv, D!ThreadAsks
    PROVE  DispatchInv'
  <1>0. /\ D!TypeOK /\ amd \in [Callbacks -> D!AsyncRecord] /\ thread.at = "asking"
        /\ UNCHANGED <<attempts, dispatchCount, log, crashed>> /\ IncomingSound /\ CallbacksSound
    BY DEF DispatchInv, D!TypeOK, D!ThreadAsks, D!At
  <1>1. CASE D!Returns(thread.level, inc, "async") /\ UNCHANGED amd
    <2>1. /\ IncomingSound' /\ thread' \in D!ThreadRecord /\ inc' \in D!IncomingRecord
        /\ thread'.req = thread.req /\ thread'.at \in {"invoked", "interceptor"}
        /\ inc'.conn = inc.conn /\ inc'.loc = inc.loc /\ inc'.cb = inc.cb
        /\ inc'.retriable = inc.retriable
      BY <1>0, <1>1, AsyncReturned
    <2>2. D!TypeOK'
      BY <1>0, <1>1, <2>1 DEF D!TypeOK
    <2> QED
      BY <1>0, <1>1, <2>1, <2>2, DispatchAside DEF DispatchInv
  <1>2. CASE D!Validated(D!Latest) /\ amd' = [amd EXCEPT ![D!Latest].active = FALSE] /\ D!Goes("sending")
             /\ UNCHANGED inc
    <2> DEFINE c == D!Latest
    <2>1. /\ c \in Callbacks /\ amd[c].req = D!r0 /\ amd[c].retriable /\ amd[c].active
          /\ c = inc.cb /\ ~inc.conn /\ inc.retriable
      BY <1>0, <1>2 DEF IncomingSound, D!At, D!Validated
    <2>2. /\ CallbackSound(c) /\ amd[c].conn /\ amd[c].user # "sending" /\ amd[c].user # "unused"
      BY <1>0, <2>1 DEF CallbacksSound, CallbackSound
    <2>3. amd' = [amd EXCEPT ![c].active = FALSE]
      BY <1>2
    <2>8. /\ thread' \in D!ThreadRecord /\ thread'.req = thread.req /\ thread'.at = "sending"
          /\ thread'.depth = thread.depth /\ thread'.level = thread.level
          /\ thread'.status = thread.status
      BY <1>0, <1>2, GoesIs
    <2> HIDE DEF c
    <2>4. amd' \in [Callbacks -> D!AsyncRecord]
      <3>0. amd[c] \in D!AsyncRecord
        BY ONLY <1>0, <2>1
      <3>1. [amd[c] EXCEPT !.active = FALSE] \in D!AsyncRecord
        BY ONLY <3>0 DEF D!AsyncRecord
      <3> QED
        BY ONLY <1>0, <2>1, <2>3, <3>1
    <2>5. /\ \A d \in Callbacks : d # c => amd'[d] = amd[d]
          /\ ~amd'[c].active /\ amd'[c].user = amd[c].user /\ amd'[c].conn = amd[c].conn
          /\ amd'[c].req = amd[c].req /\ amd'[c].loc = amd[c].loc
          /\ amd'[c].retriable = amd[c].retriable
      BY ONLY <1>0, <2>1, <2>3 DEF D!AsyncRecord
    <2>6. \A d \in Callbacks : /\ amd'[d].req = amd[d].req /\ amd'[d].loc = amd[d].loc
                               /\ amd'[d].conn = amd[d].conn
                               /\ amd'[d].retriable = amd[d].retriable /\ amd'[d].user = amd[d].user
      BY <2>5
    <2>7. D!r0' = D!r0 /\ D!Latest' = D!Latest
      BY <2>6, <2>8 DEF D!Latest, D!r0
    <2>9. D!TypeOK'
      BY <1>0, <1>2, <2>4, <2>8 DEF D!TypeOK
    <2>10. IncomingSound'
      <3>1. /\ thread.level = thread.depth + 1 /\ (thread.depth > 0 => inc.retriable) /\ D!r0 <= Count
            /\ inc.cb = D!Latest
        BY <1>0, <2>1 DEF IncomingSound, D!At, c
      <3>2. inc' = inc /\ amd'[D!Latest] = amd'[c]
        BY <1>2 DEF c
      <3> QED
        BY ONLY <2>1, <2>2, <2>5, <2>7, <2>8, <3>1, <3>2 DEF IncomingSound, D!At, Fetched, c
    <2>11. CallbacksSound'
      <3> SUFFICES ASSUME NEW d \in Callbacks PROVE CallbackSound(d)'
        BY DEF CallbacksSound
      <3>1. CallbackSound(d) /\ inc' = inc
        BY <1>0, <1>2 DEF CallbacksSound
      <3>2. CASE d # c
        <4>1. amd'[d] = amd[d] /\ d # D!Latest' /\ d # inc.cb
          BY <2>1, <2>5, <2>7, <3>2 DEF c
        <4> QED
          BY ONLY <1>0, <2>6, <2>8, <3>1, <4>1 DEF CallbackSound, D!At
      <3>3. CASE d = c
        BY ONLY <2>1, <2>2, <2>5, <2>6, <2>8, <3>1, <3>3 DEF CallbackSound, D!At
      <3> QED
        BY <3>2, <3>3
    <2>12. \A r \in D!Positions, h \in Holders : Owns(r, h)' = Owns(r, h) /\ LocatorOf(h)' = LocatorOf(h)
      BY <1>2, <2>6, <2>7 DEF Owns, Holders, LocatorOf
    <2>13. OneHolder' /\ LocatorsPaired' /\ LaterUntouched' /\ CountsOpen' /\ CrashesLate'
      BY <1>0, <2>6, <2>7, <2>12 DEF DispatchInv, OneHolder, LocatorsPaired, LaterUntouched,
         CountsOpen, CrashesLate, D!At
    <2> QED
      BY <2>9, <2>10, <2>11, <2>13 DEF DispatchInv
  <1> QED
    BY <1>1, <1>2 DEF D!ThreadAsks

\* op_async() throws after it handed the callback on.
LEMMA AsyncThrowsKeeps ==
    ASSUME DispatchInv, D!AsyncThrows
    PROVE  DispatchInv'
  <1> DEFINE c == D!Latest
  <1>0. /\ D!TypeOK /\ amd \in [Callbacks -> D!AsyncRecord] /\ thread.at = "amd"
        /\ UNCHANGED <<attempts, dispatchCount>> /\ IncomingSound /\ CallbacksSound
    BY DEF DispatchInv, D!TypeOK, D!AsyncThrows, D!At
  <1>1. /\ c \in Callbacks /\ amd[c].req = D!r0 /\ amd[c].retriable = inc.retriable
        /\ (inc.cb = IF inc.retriable THEN c ELSE D!NoCallback) /\ ~inc.conn
        /\ CallbackSound(c) /\ D!r0 <= Count /\ thread.level = thread.depth + 1
        /\ (thread.depth > 0 => inc.retriable)
    BY <1>0 DEF IncomingSound, D!At, CallbacksSound
  <1>2. CASE amd[c].retriable /\ D!Goes("asking") /\ UNCHANGED <<inc, amd, log, crashed>>
    <2>1. /\ thread' \in D!ThreadRecord /\ thread'.req = thread.req /\ thread'.at = "asking"
          /\ thread'.depth = thread.depth /\ thread'.level = thread.level
          /\ thread'.status = thread.status
      BY <1>0, <1>2, GoesIs
    <2>2. D!TypeOK'
      BY <1>0, <1>2, <2>1 DEF D!TypeOK
    <2>3. D!r0' = D!r0 /\ D!Latest' = D!Latest /\ inc' = inc /\ amd' = amd
      BY <1>2, <2>1 DEF D!r0, D!Latest
    <2>4. IncomingSound'
      BY ONLY <1>1, <1>2, <2>1, <2>3 DEF IncomingSound, D!At, Fetched
    <2> QED
      BY <1>0, <1>2, <2>1, <2>2, <2>4, DispatchAside DEF DispatchInv
  <1>3. CASE /\ ~amd[c].retriable /\ amd[c].user = "open" /\ amd' = [amd EXCEPT ![c].user = "done"]
             /\ D!Goes("sending") /\ UNCHANGED <<inc, log, crashed>>
    <2>1. /\ thread' \in D!ThreadRecord /\ thread'.req = thread.req /\ thread'.at = "sending"
          /\ thread'.depth = thread.depth /\ thread'.level = thread.level
          /\ thread'.status = thread.status
      BY <1>0, <1>3, GoesIs
    <2>2. amd[c].conn
      BY <1>1, <1>3 DEF CallbackSound
    <2> HIDE DEF c
    <2>4. amd' \in [Callbacks -> D!AsyncRecord]
      <3>1. [amd[c] EXCEPT !.user = "done"] \in D!AsyncRecord
        BY ONLY <1>0, <1>1 DEF D!AsyncRecord
      <3> QED
        BY ONLY <1>0, <1>1, <1>3, <3>1
    <2>5. /\ \A d \in Callbacks : d # c => amd'[d] = amd[d]
          /\ amd'[c].active = amd[c].active /\ amd'[c].user = "done" /\ amd'[c].conn = amd[c].conn
          /\ amd'[c].req = amd[c].req /\ amd'[c].loc = amd[c].loc
          /\ amd'[c].retriable = amd[c].retriable
      BY ONLY <1>0, <1>1, <1>3 DEF D!AsyncRecord
    <2>6. \A d \in Callbacks : /\ amd'[d].req = amd[d].req /\ amd'[d].loc = amd[d].loc
                               /\ amd'[d].conn = amd[d].conn
                               /\ amd'[d].retriable = amd[d].retriable
                               /\ (amd'[d].user # "unused" <=> amd[d].user # "unused")
      BY <1>3, <2>5
    <2>7. D!r0' = D!r0 /\ D!Latest' = D!Latest /\ inc' = inc
      BY <1>3, <2>6, <2>1 DEF D!Latest, D!r0
    <2>9. D!TypeOK'
      BY <1>0, <1>3, <2>4, <2>1 DEF D!TypeOK
    <2>10. IncomingSound'
      <3>1. amd'[D!Latest] = amd'[c] /\ D!Latest = c /\ inc.retriable \in BOOLEAN
        BY <1>0 DEF c, D!TypeOK, D!IncomingRecord
      <3> QED
        BY ONLY <1>1, <1>3, <2>2, <2>5, <2>7, <2>1, <3>1 DEF IncomingSound, D!At, Fetched
    <2>11. CallbacksSound'
      <3> SUFFICES ASSUME NEW d \in Callbacks PROVE CallbackSound(d)'
        BY DEF CallbacksSound
      <3>1. CallbackSound(d) /\ inc' = inc /\ inc.cb = D!NoCallback
        BY <1>0, <1>1, <1>3 DEF CallbacksSound
      <3>2. CASE d # c
        <4>1. amd'[d] = amd[d] /\ d # D!Latest' /\ d # inc.cb
          BY <1>1, <2>5, <2>7, <3>1, <3>2, ZeroIsNone DEF c, D!NoCallback
        <4> QED
          BY ONLY <1>0, <2>6, <2>1, <3>1, <4>1 DEF CallbackSound, D!At
      <3>3. CASE d = c
        <4>1. c = D!Latest'
          BY <2>7 DEF c
        <4> QED
          BY ONLY <1>1, <1>3, <2>1, <2>2, <2>5, <2>6, <2>1, <3>1, <3>3, <4>1 DEF CallbackSound,
             D!At
      <3> QED
        BY <3>2, <3>3
    <2>12. \A r \in D!Positions, h \in Holders : Owns(r, h)' = Owns(r, h) /\ LocatorOf(h)' = LocatorOf(h)
      BY <2>6, <2>7 DEF Owns, Holders, LocatorOf
    <2>13. OneHolder' /\ LocatorsPaired' /\ LaterUntouched' /\ CountsOpen' /\ CrashesLate'
      BY <1>0, <1>3, <2>6, <2>7, <2>12 DEF DispatchInv, OneHolder, LocatorsPaired,
         LaterUntouched, CountsOpen, CrashesLate, D!At
    <2> QED
      BY <2>9, <2>10, <2>11, <2>13 DEF DispatchInv
  <1>4. CASE D!Returns(thread.level, inc, "async") /\ UNCHANGED <<amd, log, crashed>>
    <2>1. /\ IncomingSound' /\ thread' \in D!ThreadRecord /\ inc' \in D!IncomingRecord
        /\ thread'.req = thread.req /\ thread'.at \in {"invoked", "interceptor"}
        /\ inc'.conn = inc.conn /\ inc'.loc = inc.loc /\ inc'.cb = inc.cb
        /\ inc'.retriable = inc.retriable
      BY <1>0, <1>4, AsyncReturned
    <2>2. D!TypeOK'
      BY <1>0, <1>4, <2>1 DEF D!TypeOK
    <2> QED
      BY <1>0, <1>4, <2>1, <2>2, DispatchAside DEF DispatchInv
  <1>5. CASE /\ log' = [log EXCEPT ![D!r0].late = TRUE] /\ crashed' = TRUE /\ D!Goes("done")
             /\ UNCHANGED <<inc, amd>>
    <2>1. /\ thread' \in D!ThreadRecord /\ thread'.req = thread.req /\ thread'.at = "done"
      BY <1>0, <1>5, GoesIs
    <2>2. D!r0 \in D!Positions /\ log \in [D!Positions -> D!LogRecord]
      BY <1>0, <1>1 DEF D!TypeOK, D!ThreadRecord, D!r0, D!Positions
    <2>3. /\ log' \in [D!Positions -> D!LogRecord] /\ log'[D!r0].late
          /\ \A s \in D!Positions :
                 /\ log'[s].answers = log[s].answers /\ log'[s].located = log[s].located
                 /\ log'[s].finished = log[s].finished /\ log'[s].early = log[s].early
                 /\ log'[s].refinished = log[s].refinished
      BY ONLY <1>5, <2>2 DEF D!LogRecord
    <2>4. D!TypeOK'
      BY <1>0, <1>5, <2>1, <2>3 DEF D!TypeOK
    <2>5. D!r0' = D!r0 /\ D!Latest' = D!Latest /\ inc' = inc /\ amd' = amd
      BY <1>5, <2>1 DEF D!r0, D!Latest
    <2>6. \A r \in D!Positions, h \in Holders : Owns(r, h)' = Owns(r, h) /\ LocatorOf(h)' = LocatorOf(h)
      BY <2>5 DEF Owns, Holders, LocatorOf
    <2>7. IncomingSound'
      BY <1>0, <1>1, <1>5, <2>1, <2>5 DEF IncomingSound, D!At, Fetched
    <2>8. CallbacksSound'
      BY <1>0, <2>1, <2>5 DEF CallbacksSound, CallbackSound, D!At
    <2>9. OneHolder' /\ LocatorsPaired' /\ LaterUntouched'
      BY <1>0, <2>3, <2>5, <2>6 DEF DispatchInv, OneHolder, LocatorsPaired, LaterUntouched, D!At
    <2>10. CountsOpen' /\ CrashesLate'
      BY <1>0, <2>2, <2>3 DEF DispatchInv, CountsOpen, CrashesLate
    <2> QED
      BY <2>4, <2>7, <2>8, <2>9, <2>10 DEF DispatchInv
  <1> QED
    BY <1>2, <1>3, <1>4, <1>5 DEF D!AsyncThrows

\* __adopt(): the new callback owns the request.
LEMMA ServantAsyncKeeps ==
    ASSUME DispatchInv, D!ServantAsync
    PROVE  DispatchInv'
  <1>1. PICK c : c = D!Min(D!Unused)
    OBVIOUS
  <1>0. /\ D!TypeOK /\ amd \in [Callbacks -> D!AsyncRecord] /\ thread.at = "servant" /\ D!Goes("amd")
        /\ amd' = [amd EXCEPT ![c] = [req |-> D!r0, conn |-> inc.conn, loc |-> inc.loc,
                                         active |-> TRUE, retriable |-> inc.retriable,
                                         queue |-> inc.queue, user |-> "open"]]
        /\ inc' = [inc EXCEPT !.conn = FALSE, !.loc = FALSE, !.consumed = TRUE,
                                 !.cb = IF inc.retriable THEN c ELSE D!NoCallback]
        /\ UNCHANGED <<attempts, dispatchCount, log, crashed>> /\ D!Unused # {}
        /\ IncomingSound /\ CallbacksSound /\ OneHolder /\ LocatorsPaired /\ inc \in D!IncomingRecord
        /\ thread \in D!ThreadRecord
    BY <1>1 DEF DispatchInv, D!TypeOK, D!ServantAsync, D!At
  <1>2. /\ c \in Callbacks /\ amd[c].user = "unused" /\ c # 0
        /\ \A d \in Callbacks : amd[d].user = "unused" => c <= d
    BY <1>0, <1>1, FirstUnused, ZeroIsNone DEF D!Unused
  <1>3. /\ inc.conn /\ inc.cb = D!NoCallback /\ D!r0 <= Count /\ D!r0 \in 1 .. Count
        /\ thread.level = thread.depth + 1 /\ (thread.depth > 0 => inc.retriable)
        /\ inc.retriable \in BOOLEAN /\ inc.loc \in BOOLEAN /\ inc.conn \in BOOLEAN /\ inc.queue \in SUBSET D!Levels
    BY <1>0 DEF IncomingSound, D!At, D!ThreadRecord, D!r0, D!IncomingRecord
  <1>4. /\ thread' \in D!ThreadRecord /\ thread'.req = thread.req /\ thread'.at = "amd"
        /\ thread'.depth = thread.depth /\ thread'.level = thread.level
    BY <1>0, GoesIs
  <1>5. /\ amd' \in [Callbacks -> D!AsyncRecord]
        /\ \A d \in Callbacks : d # c => amd'[d] = amd[d]
        /\ amd'[c].req = D!r0 /\ amd'[c].conn /\ amd'[c].loc = inc.loc /\ amd'[c].active
        /\ amd'[c].retriable = inc.retriable /\ amd'[c].user = "open"
    <2> DEFINE v == [req |-> D!r0, conn |-> inc.conn, loc |-> inc.loc, active |-> TRUE,
                     retriable |-> inc.retriable, queue |-> inc.queue, user |-> "open"]
    <2>1. v \in D!AsyncRecord
      BY <1>3 DEF D!AsyncRecord
    <2>2. amd' = [amd EXCEPT ![c] = v]
      BY <1>0
    <2>3. v.req = D!r0 /\ v.conn /\ v.loc = inc.loc /\ v.active /\ v.retriable = inc.retriable /\ v.user = "open"
      BY <1>3
    <2> HIDE DEF v
    <2>4. amd' \in [Callbacks -> D!AsyncRecord] /\ amd'[c] = v /\ \A d \in Callbacks : d # c => amd'[d] = amd[d]
      BY ONLY <1>0, <1>2, <2>1, <2>2
    <2> QED
      BY <2>3, <2>4
  <1>6. /\ inc' \in D!IncomingRecord /\ ~inc'.conn /\ ~inc'.loc /\ inc'.retriable = inc.retriable
        /\ inc'.cb = IF inc.retriable THEN c ELSE D!NoCallback
    <2>1. PICK b \in Callbacks \cup {D!NoCallback} : b = IF inc.retriable THEN c ELSE D!NoCallback
      BY <1>2
    <2>2. inc' = [inc EXCEPT !.conn = FALSE, !.loc = FALSE, !.consumed = TRUE, !.cb = b]
      BY <1>0, <2>1
    <2>3. inc' \in D!IncomingRecord /\ ~inc'.conn /\ ~inc'.loc /\ inc'.retriable = inc.retriable /\ inc'.cb = b
      BY ONLY <1>0, <2>1, <2>2 DEF D!IncomingRecord
    <2> QED
      BY <2>1, <2>3
  <1>7. D!r0' = D!r0
    BY <1>4 DEF D!r0
  <1>8. D!Latest' = c
    <2> DEFINE T == {d \in Callbacks : amd'[d].req = D!r0}
    <2>1. T \subseteq Nat /\ c \in T
      BY <1>2, <1>5, ZeroIsNone
    <2>2. \A d \in T : d <= c
      <3> SUFFICES ASSUME NEW d \in T, d # c PROVE d <= c
        BY <2>1
      <3>1. amd[d].req # 0 /\ d \in Callbacks
        BY <1>3, <1>5
      <3>2. amd[d].user # "unused"
        BY <1>0, <3>1 DEF CallbacksSound, CallbackSound
      <3>3. ~(c < d)
        BY <1>0, <1>2, <3>1, <3>2 DEF CallbacksSound, CallbackSound
      <3> QED
        BY <2>1, <3>3
    <2>3. D!Max(T) = c
      BY <2>1, <2>2, LatestIs
    <2>4. D!Latest' = D!Max(T)
      BY <1>7 DEF D!Latest
    <2> QED
      BY <2>3, <2>4
  <1>9. D!TypeOK'
    BY <1>0, <1>4, <1>5, <1>6 DEF D!TypeOK
  <1>10. IncomingSound'
    <2>1. c # D!NoCallback
      BY <1>2 DEF D!NoCallback
    <2> QED
      BY ONLY <1>2, <1>3, <1>4, <1>5, <1>6, <1>7, <1>8, <2>1 DEF IncomingSound, D!At, Fetched
  <1>11. CallbacksSound'
    <2> SUFFICES ASSUME NEW d \in Callbacks PROVE CallbackSound(d)'
      BY DEF CallbacksSound
    <2>1. CallbackSound(d) /\ thread'.at # "sending" /\ thread.at # "sending"
      BY <1>0, <1>4 DEF CallbacksSound
    <2>2. \A e \in Callbacks : amd[e].user # "unused" => amd'[e].user # "unused"
      BY <1>5
    <2>3. CASE d # c
      <3>1. amd'[d] = amd[d]
        BY <1>5, <2>3
      <3> QED
        BY ONLY <2>1, <2>2, <3>1 DEF CallbackSound, D!At
    <2>4. CASE d = c
      <3>1. \A e \in Callbacks : e < c => amd'[e].user # "unused"
        BY <1>2, <2>2, ZeroIsNone
      <3> QED
        BY ONLY <1>3, <1>5, <2>1, <2>4, <3>1 DEF CallbackSound, D!At
    <2> QED
      BY <2>3, <2>4
  <1>12. D!r0 \in D!Positions /\ Owns(D!r0, D!Incoming) /\ D!Incoming \in Holders /\ c \in Holders /\ c # D!Incoming
    BY <1>2, <1>3 DEF D!Positions, Owns, D!Incoming, Holders
  <1>13. \A h \in Holders : Owns(D!r0, h)' <=> h = c
    <2>1. \A d \in Callbacks : amd[d].req = D!r0 => ~amd[d].conn
      BY <1>0, <1>12, ZeroIsNone DEF OneHolder, Owns, D!Incoming, Holders
    <2> SUFFICES ASSUME NEW h \in Holders PROVE Owns(D!r0, h)' <=> h = c
      OBVIOUS
    <2>2. CASE h = D!Incoming
      BY <1>6, <1>12, <2>2 DEF Owns
    <2>3. CASE h # D!Incoming /\ h \in Callbacks
      BY <1>5, <1>7, <2>1, <2>3 DEF Owns
    <2> QED
      BY <2>2, <2>3 DEF Holders
  <1>14. \A r \in D!Positions, h \in Holders : r # D!r0 =>
            /\ Owns(r, h)' <=> Owns(r, h)
            /\ Owns(r, h) => LocatorOf(h)' = LocatorOf(h) /\ h # D!Incoming
    <2> SUFFICES ASSUME NEW r \in D!Positions, NEW h \in Holders, r # D!r0
                 PROVE  /\ Owns(r, h)' <=> Owns(r, h)
                        /\ Owns(r, h) => LocatorOf(h)' = LocatorOf(h) /\ h # D!Incoming
      OBVIOUS
    <2>1. CASE h = D!Incoming
      BY <1>7, <2>1 DEF Owns
    <2>2. CASE h = c
      <3>1. amd[c].req # r /\ amd'[c].req # r
        BY <1>0, <1>2, <1>5 DEF CallbacksSound, CallbackSound, D!Positions
      <3> QED
        BY <1>12, <2>2, <3>1 DEF Owns
    <2>3. CASE h # c /\ h \in Callbacks /\ h # D!Incoming
      BY <1>5, <2>3 DEF Owns, LocatorOf
    <2> QED
      BY <2>1, <2>2, <2>3 DEF Holders
  <1>15. OneHolder'
    <2>1. log' = log /\ \A h \in Holders : Owns(D!r0, h) => log[D!r0].answers = 0
      BY <1>0, <1>12 DEF OneHolder
    <2>2. log[D!r0].answers = 0
      BY <1>12, <2>1
    <2> SUFFICES ASSUME NEW r \in D!Positions
                 PROVE  /\ log[r].answers \in {0, 1}
                        /\ \A g, h \in Holders : Owns(r, g)' /\ Owns(r, h)' => g = h
                        /\ \A h \in Holders : Owns(r, h)' => log[r].answers = 0
                        /\ log[r].answers = 0 /\ r <= D!r0 => \E h \in Holders : Owns(r, h)'
      BY <1>7, <2>1 DEF OneHolder
    <2>3. CASE r = D!r0
      BY <1>7, <1>12, <1>13, <2>2, <2>3
    <2>4. CASE r # D!r0
      BY <1>0, <1>14, <2>4 DEF OneHolder
    <2> QED
      BY <2>3, <2>4
  <1>16. LocatorsPaired'
    <2>1. log' = log
      BY <1>0
    <2> SUFFICES ASSUME NEW r \in D!Positions
                 PROVE  /\ log[r].finished <= log[r].located \/ log[r].refinished
                        /\ ~log[r].early
                        /\ \A h \in Holders : Owns(r, h)' =>
                             log[r].located = log[r].finished + Bit(LocatorOf(h)')
      BY <2>1 DEF LocatorsPaired
    <2>2. CASE r = D!r0
      <3>1. LocatorOf(c)' = inc.loc /\ LocatorOf(D!Incoming) = inc.loc
        BY <1>5, <1>12 DEF LocatorOf
      <3> QED
        BY <1>0, <1>7, <1>12, <1>13, <2>2, <3>1 DEF LocatorsPaired, D!At
    <2>3. CASE r # D!r0
      BY <1>0, <1>14, <2>3 DEF LocatorsPaired
    <2> QED
      BY <2>2, <2>3
  <1>17. LaterUntouched' /\ CountsOpen' /\ CrashesLate'
    <2>1. LaterUntouched'
      BY <1>0, <1>3, <1>5, <1>7 DEF DispatchInv, LaterUntouched
    <2> QED
      BY <1>0, <2>1 DEF DispatchInv, CountsOpen, CrashesLate
  <1> QED
    BY <1>9, <1>10, <1>11, <1>15, <1>16, <1>17 DEF DispatchInv

\* What killAsync() does.
LEMMA KilledIs ==
    ASSUME DispatchInv, thread.at = "interceptor", ~D!Sent
    PROVE  /\ D!KilledIncoming \in D!IncomingRecord /\ D!KilledIncoming.conn
           /\ D!KilledIncoming.cb = D!NoCallback /\ D!KilledIncoming.retriable = inc.retriable
           /\ D!KilledCallbacks \in [Callbacks -> D!AsyncRecord]
           /\ \A d \in Callbacks :
                 /\ D!KilledCallbacks[d].req = amd[d].req /\ D!KilledCallbacks[d].user = amd[d].user
                 /\ D!KilledCallbacks[d].retriable = amd[d].retriable
                 /\ d # inc.cb => D!KilledCallbacks[d] = amd[d]
                 /\ d = inc.cb => /\ ~D!KilledCallbacks[d].conn /\ ~D!KilledCallbacks[d].active
                                  /\ ~D!KilledCallbacks[d].loc
           /\ inc.cb = D!NoCallback => D!KilledIncoming = inc /\ D!KilledCallbacks = amd /\ inc.conn
           /\ inc.cb # D!NoCallback => /\ inc.cb \in Callbacks /\ amd[inc.cb].active /\ amd[inc.cb].conn
                                     /\ D!KilledIncoming.loc = amd[inc.cb].loc
  <1>0. /\ D!TypeOK /\ inc \in D!IncomingRecord /\ amd \in [Callbacks -> D!AsyncRecord] /\ IncomingSound
        /\ CallbacksSound
    BY DEF DispatchInv, D!TypeOK
  <1>1. CASE inc.cb = D!NoCallback
    <2>1. D!KilledIncoming = inc /\ D!KilledCallbacks = amd
      BY <1>1 DEF D!KilledIncoming, D!KilledCallbacks
    <2>2. inc.conn
      BY <1>0, <1>1 DEF IncomingSound, D!At
    <2>3. inc.cb \notin Callbacks
      BY <1>1, ZeroIsNone DEF D!NoCallback
    <2> QED
      BY <1>0, <1>1, <2>1, <2>2, <2>3
  <1>2. CASE inc.cb # D!NoCallback
    <2>1. PICK c \in Callbacks : c = inc.cb
      BY <1>0, <1>2 DEF D!IncomingRecord
    <2>2. amd[c].active /\ amd[c] \in D!AsyncRecord /\ amd[c].retriable /\ CallbackSound(c)
      BY <1>0, <1>2, <2>1 DEF D!Sent, IncomingSound, CallbacksSound
    <2>3. amd[c].conn
      BY <2>2 DEF CallbackSound
    <2>4. D!KilledIncoming = [inc EXCEPT !.conn = amd[c].conn, !.loc = amd[c].loc, !.cb = D!NoCallback]
      BY <1>2, <2>1 DEF D!KilledIncoming
    <2>5. /\ D!KilledIncoming \in D!IncomingRecord /\ D!KilledIncoming.conn = amd[c].conn
          /\ D!KilledIncoming.loc = amd[c].loc
          /\ D!KilledIncoming.cb = D!NoCallback /\ D!KilledIncoming.retriable = inc.retriable
      BY ONLY <1>0, <2>2, <2>4 DEF D!IncomingRecord, D!AsyncRecord
    <2> DEFINE v == [amd[c] EXCEPT !.active = FALSE, !.conn = FALSE, !.loc = FALSE]
    <2>6. D!KilledCallbacks = [amd EXCEPT ![c] = v]
      BY <1>0, <1>2, <2>1 DEF D!KilledCallbacks
    <2>7. /\ v \in D!AsyncRecord /\ v.req = amd[c].req /\ v.user = amd[c].user
          /\ v.retriable = amd[c].retriable /\ ~v.conn /\ ~v.active /\ ~v.loc
      <3>1. amd[c] \in D!AsyncRecord
        BY <2>2
      <3> QED
        BY ONLY <3>1 DEF D!AsyncRecord
    <2> HIDE DEF v
    <2>8. /\ D!KilledCallbacks \in [Callbacks -> D!AsyncRecord] /\ D!KilledCallbacks[c] = v
          /\ \A d \in Callbacks : d # c => D!KilledCallbacks[d] = amd[d]
      BY <1>0, <2>6, <2>7
    <2> QED
      BY <1>2, <2>1, <2>2, <2>3, <2>5, <2>7, <2>8
  <1> QED
    BY <1>1, <1>2

\* killAsync(): the Incoming owns the request again.
LEMMA KillKeeps ==
    ASSUME DispatchInv, thread.at = "interceptor", ~D!Sent, amd' = D!KilledCallbacks,
           inc'.conn, inc'.loc = D!KilledIncoming.loc, thread'.req = thread.req,
           thread'.at \in {"interceptor", "servant", "invoked"},
           UNCHANGED <<dispatchCount, log, crashed>>
    PROVE  OneHolder' /\ LocatorsPaired' /\ LaterUntouched' /\ CallbacksSound' /\ CountsOpen' /\ CrashesLate'
  <1>1. CASE inc.cb = D!NoCallback
    <2>1. amd' = amd /\ inc'.loc = inc.loc /\ inc.conn
      BY <1>1, KilledIs
    <2>2. inc \in D!IncomingRecord
      BY DEF DispatchInv, D!TypeOK
    <2>3. \A r, h : Owns(r, h)' <=> Owns(r, h)
      BY <2>1 DEF Owns, D!r0
    <2>4. D!r0' = D!r0 /\ thread.at # "sending" /\ thread'.at # "sending"
      BY DEF D!r0
    <2>5. OneHolder'
      BY <2>3, <2>4 DEF DispatchInv, OneHolder
    <2>6. LocatorsPaired'
      BY <2>1, <2>3 DEF DispatchInv, LocatorsPaired, D!At, LocatorOf
    <2>7. CallbacksSound'
      BY <2>1, <2>4 DEF DispatchInv, CallbacksSound, CallbackSound, D!At
    <2> QED
      BY <2>1, <2>4, <2>5, <2>6, <2>7 DEF DispatchInv, LaterUntouched, CountsOpen, CrashesLate
  <1>2. CASE inc.cb # D!NoCallback
    <2>1. PICK c \in Callbacks : c = inc.cb
      BY <1>2, KilledIs
    <2>2. /\ amd[c].active /\ amd[c].conn /\ inc'.loc = amd[c].loc /\ ~inc.conn /\ amd[c].req = D!r0
          /\ amd[c].retriable /\ D!r0 <= Count /\ c # 0
      BY <1>2, <2>1, KilledIs, ZeroIsNone DEF DispatchInv, IncomingSound, D!At
    <2>3. /\ \A d \in Callbacks :
                 /\ amd'[d].req = amd[d].req /\ amd'[d].user = amd[d].user
                 /\ amd'[d].retriable = amd[d].retriable
                 /\ d # c => amd'[d] = amd[d]
          /\ ~amd'[c].conn /\ ~amd'[c].active
      BY <2>1, KilledIs
    <2>4. D!r0' = D!r0 /\ D!r0 \in D!Positions
      BY <2>2 DEF D!r0, DispatchInv, D!TypeOK, D!ThreadRecord, D!Positions
    <2>5. Owns(D!r0, c) /\ c \in Holders /\ D!Incoming \in Holders /\ c # D!Incoming
      BY <2>2 DEF Owns, Holders, D!Incoming
    <2>6. \A h \in Holders : Owns(D!r0, h) => h = c
      BY <2>4, <2>5 DEF DispatchInv, OneHolder
    <2>7. \A h \in Holders : Owns(D!r0, h)' <=> h = D!Incoming
      <3> SUFFICES ASSUME NEW h \in Holders PROVE Owns(D!r0, h)' <=> h = D!Incoming
        OBVIOUS
      <3>1. CASE h = D!Incoming
        BY <3>1 DEF Owns
      <3>2. CASE h # D!Incoming /\ h \in Callbacks
        BY <2>3, <2>4, <2>6, <3>2 DEF Owns
      <3> QED
        BY <3>1, <3>2 DEF Holders
    <2>8. \A r \in D!Positions, h \in Holders : r # D!r0 =>
             /\ Owns(r, h)' <=> Owns(r, h)
             /\ Owns(r, h) => LocatorOf(h)' = LocatorOf(h) /\ h # D!Incoming
      <3> SUFFICES ASSUME NEW r \in D!Positions, NEW h \in Holders, r # D!r0
                   PROVE  /\ Owns(r, h)' <=> Owns(r, h)
                          /\ Owns(r, h) => LocatorOf(h)' = LocatorOf(h) /\ h # D!Incoming
        OBVIOUS
      <3>1. CASE h = D!Incoming
        BY <2>4, <3>1 DEF Owns
      <3>2. CASE h = c
        BY <2>2, <2>3, <2>5, <3>2 DEF Owns
      <3>3. CASE h # c /\ h \in Callbacks /\ h # D!Incoming
        BY <2>3, <3>3 DEF Owns, LocatorOf
      <3> QED
        BY <3>1, <3>2, <3>3 DEF Holders
    <2>9. OneHolder'
      <3>1. log' = log /\ log[D!r0].answers = 0
        BY <2>4, <2>5 DEF DispatchInv, OneHolder
      <3> SUFFICES ASSUME NEW r \in D!Positions
                   PROVE  /\ log[r].answers \in {0, 1}
                          /\ \A g, h \in Holders : Owns(r, g)' /\ Owns(r, h)' => g = h
                          /\ \A h \in Holders : Owns(r, h)' => log[r].answers = 0
                          /\ log[r].answers = 0 /\ r <= D!r0 => \E h \in Holders : Owns(r, h)'
        BY <2>4, <3>1 DEF OneHolder
      <3>2. CASE r = D!r0
        BY <2>4, <2>5, <2>7, <3>1, <3>2
      <3>3. CASE r # D!r0
        BY <2>8, <3>3 DEF DispatchInv, OneHolder
      <3> QED
        BY <3>2, <3>3
    <2>10. LocatorsPaired'
      <3> SUFFICES ASSUME NEW r \in D!Positions
                   PROVE  /\ log[r].finished <= log[r].located \/ log[r].refinished
                          /\ ~log[r].early
                          /\ \A h \in Holders : Owns(r, h)' =>
                               log[r].located = log[r].finished + Bit(LocatorOf(h)')
        BY DEF LocatorsPaired
      <3>2. CASE r = D!r0
        <4>1. LocatorOf(D!Incoming)' = amd[c].loc /\ LocatorOf(c) = amd[c].loc
          BY <2>2, <2>5 DEF LocatorOf
        <4> QED
          BY <2>4, <2>5, <2>7, <3>2, <4>1 DEF DispatchInv, LocatorsPaired, D!At
      <3>3. CASE r # D!r0
        BY <2>8, <3>3 DEF DispatchInv, LocatorsPaired
      <3> QED
        BY <3>2, <3>3
    <2>11. CallbacksSound'
      <3> SUFFICES ASSUME NEW d \in Callbacks PROVE CallbackSound(d)'
        BY DEF CallbacksSound
      <3>1. CallbackSound(d) /\ thread'.at # "sending" /\ thread.at # "sending"
        BY DEF DispatchInv, CallbacksSound
      <3>2. CASE d # c
        <4>1. amd'[d] = amd[d]
          BY <2>3, <3>2
        <4> QED
          BY ONLY <2>3, <3>1, <4>1 DEF CallbackSound, D!At
      <3>3. CASE d = c
        BY ONLY <2>2, <2>3, <3>1, <3>3 DEF CallbackSound, D!At
      <3> QED
        BY <3>2, <3>3
    <2>12. LaterUntouched' /\ CountsOpen' /\ CrashesLate'
      BY <2>3, <2>4 DEF DispatchInv, LaterUntouched, CountsOpen, CrashesLate
    <2> QED
      BY <2>9, <2>10, <2>11, <2>12
  <1> QED
    BY <1>1, <1>2

\* An interceptor's dispatch() ends.
LEMMA InterceptorReturnsKeeps ==
    ASSUME DispatchInv, D!InterceptorReturns
    PROVE  DispatchInv'
  <1>0. /\ D!TypeOK /\ thread.at = "interceptor" /\ inc \in D!IncomingRecord /\ IncomingSound
        /\ UNCHANGED <<attempts, dispatchCount, log, crashed>>
    BY DEF DispatchInv, D!TypeOK, D!InterceptorReturns, D!At
  <1>1. /\ thread.level \in 1 .. Depth /\ thread.depth = Depth /\ D!r0 <= Count
        /\ (thread.level > 1 => inc.retriable) /\ (inc.conn \/ inc.cb # D!NoCallback)
        /\ (thread.status \in {"async", "sent"} => ~inc.conn)
        /\ (inc.cb # D!NoCallback => ~inc.conn) /\ thread.level \in 1 .. Depth + 1
    BY <1>0, DispatchAssumption DEF IncomingSound, D!At
  <1>2. PICK e \in {"ok", "async", "throw", "sent"} :
           /\ e \in {"async", "sent"} => thread.status = e
           /\ IF e = "async" \/ e = "sent" \/ D!Sent
              THEN D!Returns(thread.level, inc, "async") /\ UNCHANGED amd
              ELSE D!Returns(thread.level, D!KilledIncoming, e) /\ amd' = D!KilledCallbacks
    BY <1>0 DEF D!InterceptorReturns, D!TypeOK, D!ThreadRecord
  <1>3. CASE e = "async" \/ e = "sent" \/ D!Sent
    <2>0. ~inc.conn
      BY <1>1, <1>2, <1>3 DEF D!Sent
    <2>1. /\ thread' \in D!ThreadRecord /\ thread'.req = thread.req
          /\ thread'.at = (IF thread.level = 1 THEN "invoked" ELSE "interceptor")
          /\ thread'.depth = thread.depth /\ thread'.level = thread.level - 1 /\ thread'.status = "async"
          /\ inc' \in D!IncomingRecord /\ inc'.conn = inc.conn /\ inc'.loc = inc.loc
          /\ inc'.cb = inc.cb /\ inc'.retriable = inc.retriable
      BY <1>0, <1>1, <1>2, <1>3, ReturnsIs
    <2>2. D!TypeOK'
      BY <1>0, <1>2, <1>3, <2>1 DEF D!TypeOK
    <2>3. IncomingSound'
      <3>1. D!r0' = D!r0 /\ amd' = amd
        BY <1>2, <1>3, <2>1 DEF D!r0
      <3>2. inc.cb # D!NoCallback => amd[inc.cb].req = D!r0 /\ amd[inc.cb].retriable /\ inc.retriable
        BY <1>0 DEF IncomingSound
      <3>3. thread.level # 1 => thread.level - 1 \in 1 .. Depth /\ thread.level > 1
        BY <1>1, DispatchAssumption
      <3> QED
        BY ONLY <1>1, <2>0, <2>1, <3>1, <3>2, <3>3 DEF IncomingSound, D!At, Fetched
    <2> QED
      BY <1>0, <1>2, <1>3, <2>1, <2>2, <2>3, DispatchAside DEF DispatchInv
  <1>4. CASE ~(e = "async" \/ e = "sent" \/ D!Sent)
    <2>1. /\ thread' \in D!ThreadRecord /\ thread'.req = thread.req
          /\ thread'.at = (IF thread.level = 1 THEN "invoked" ELSE "interceptor")
          /\ thread'.depth = thread.depth /\ thread'.level = thread.level - 1 /\ thread'.status = e
          /\ inc' \in D!IncomingRecord /\ inc'.conn = D!KilledIncoming.conn /\ inc'.loc = D!KilledIncoming.loc
          /\ inc'.cb = D!NoCallback /\ inc'.retriable = inc.retriable /\ inc'.conn
      BY <1>0, <1>1, <1>2, <1>4, ReturnsIs, KilledIs
    <2>2. D!TypeOK'
      BY <1>0, <1>2, <1>4, <2>1, KilledIs DEF D!TypeOK
    <2>3. IncomingSound'
      <3>1. D!r0' = D!r0
        BY <2>1 DEF D!r0
      <3>3. thread.level # 1 => thread.level - 1 \in 1 .. Depth /\ thread.level > 1
        BY <1>1, DispatchAssumption
      <3>4. e \in {"ok", "throw"}
        BY <1>4
      <3> QED
        BY ONLY <1>1, <2>1, <3>1, <3>3, <3>4 DEF IncomingSound, D!At, Fetched
    <2>4. OneHolder' /\ LocatorsPaired' /\ LaterUntouched' /\ CallbacksSound' /\ CountsOpen' /\ CrashesLate'
      BY <1>0, <1>2, <1>4, <2>1, KillKeeps
    <2> QED
      BY <2>2, <2>3, <2>4 DEF DispatchInv
  <1> QED
    BY <1>3, <1>4

\* ice_dispatch(): the first call, the call after the answer has begun, and the call that
\* takes the request back.
LEMMA IceDispatchKeeps ==
    ASSUME DispatchInv, D!IceDispatch
    PROVE  DispatchInv'
  <1>0. /\ D!TypeOK /\ thread.at = "interceptor" /\ inc \in D!IncomingRecord /\ IncomingSound
        /\ UNCHANGED <<dispatchCount, log, crashed>> /\ attempts[thread.level] < MaxAttempts
        /\ attempts' = [k \in D!Levels |-> IF k = thread.level THEN attempts[thread.level] + 1
                                         ELSE IF k > thread.level THEN 0 ELSE attempts[k]]
    BY DEF DispatchInv, D!TypeOK, D!IceDispatch, D!At
  <1>1. /\ thread.level \in 1 .. Depth /\ thread.depth = Depth /\ D!r0 <= Count
        /\ (inc.conn \/ inc.cb # D!NoCallback)
        /\ (inc.cb # D!NoCallback => ~inc.conn /\ inc.retriable /\ amd[inc.cb].req = D!r0
                                   /\ amd[inc.cb].retriable)
    BY <1>0, DispatchAssumption DEF IncomingSound, D!At
  <1>2. attempts' \in [D!Levels -> 0 .. MaxAttempts]
    <2>1. attempts \in [D!Levels -> 0 .. MaxAttempts]
      BY <1>0 DEF D!TypeOK
    <2>2. attempts[thread.level] + 1 \in 0 .. MaxAttempts
      BY <1>0, <1>1, <2>1, DispatchAssumption DEF D!Levels
    <2> QED
      BY ONLY <1>0, <2>1, <2>2, DispatchAssumption
  <1>3. /\ thread.level + 1 \in 1 .. Depth + 1 /\ Depth \in {0, Depth}
        /\ (thread.level + 1 <= Depth => thread.level + 1 \in 1 .. Depth)
        /\ (~(thread.level + 1 <= Depth) => thread.level + 1 = Depth + 1)
    BY <1>1, DispatchAssumption
  <1>4. CASE ~inc.retriable
    <2>1. PICK cb \in BOOLEAN :
             /\ inc' = [inc EXCEPT !.retriable = TRUE,
                                   !.queue = IF cb THEN @ \cup {thread.level} ELSE @]
             /\ D!Enter(thread.level + 1, thread.depth) /\ UNCHANGED amd
      BY <1>4 DEF D!IceDispatch
    <2>2. PICK q \in SUBSET D!Levels : q = IF cb THEN inc.queue \cup {thread.level} ELSE inc.queue
      BY <1>0, <1>1 DEF D!IncomingRecord, D!Levels
    <2>3. inc' = [inc EXCEPT !.retriable = TRUE, !.queue = q]
      BY <1>0, <2>1, <2>2 DEF D!IncomingRecord
    <2>4. /\ inc' \in D!IncomingRecord /\ inc'.conn = inc.conn /\ inc'.loc = inc.loc /\ inc'.cb = inc.cb
          /\ inc'.retriable
      BY ONLY <1>0, <2>2, <2>3 DEF D!IncomingRecord
    <2>5. /\ thread' \in D!ThreadRecord /\ thread'.req = thread.req
          /\ thread'.at = (IF thread.level + 1 <= Depth THEN "interceptor" ELSE "servant")
          /\ thread'.depth = Depth /\ thread'.level = thread.level + 1 /\ thread'.status = "none"
      BY <1>0, <1>1, <1>3, <2>1, EnterIs
    <2>6. D!TypeOK'
      BY <1>0, <1>2, <2>1, <2>4, <2>5 DEF D!TypeOK
    <2>7. IncomingSound'
      <3>1. D!r0' = D!r0 /\ inc.cb = D!NoCallback /\ inc.conn
        BY <1>1, <1>4, <2>5 DEF D!r0
      <3> QED
        BY ONLY <1>1, <1>3, <2>4, <2>5, <3>1 DEF IncomingSound, D!At, Fetched
    <2>8. thread.at \notin {"sending", "again"} /\ thread'.at # "sending"
      BY <1>0, <2>5
    <2> QED
      BY <1>0, <2>1, <2>4, <2>5, <2>6, <2>7, <2>8, DispatchAside DEF DispatchInv
  <1>5. CASE inc.retriable /\ D!Sent
    <2>1. thread' = [thread EXCEPT !.status = "sent"] /\ UNCHANGED <<inc, amd>>
      BY <1>5 DEF D!IceDispatch
    <2>2. /\ thread' \in D!ThreadRecord /\ thread'.req = thread.req /\ thread'.at = thread.at
          /\ thread'.depth = thread.depth /\ thread'.level = thread.level
      BY <1>0, <2>1 DEF D!TypeOK, D!ThreadRecord
    <2>3. D!TypeOK'
      BY <1>0, <1>2, <2>1, <2>2 DEF D!TypeOK
    <2>4. IncomingSound'
      <3>1. D!r0' = D!r0 /\ inc.cb # D!NoCallback /\ inc' = inc /\ amd' = amd
        BY <1>5, <2>1, <2>2 DEF D!r0, D!Sent
      <3>2. thread.at = "interceptor" /\ inc.retriable
        BY <1>0, <1>5
      <3> QED
        BY ONLY <1>1, <2>2, <3>1, <3>2 DEF IncomingSound, D!At, Fetched
    <2>5. thread.at \notin {"sending", "again"} /\ thread'.at # "sending"
      BY <1>0, <2>2
    <2> QED
      BY <1>0, <2>1, <2>2, <2>3, <2>4, <2>5, DispatchAside DEF DispatchInv
  <1>6. CASE inc.retriable /\ ~D!Sent
    <2>1. PICK cb \in BOOLEAN :
             /\ inc' = [D!KilledIncoming EXCEPT !.consumed = FALSE,
                                   !.queue = IF cb THEN @ \cup {thread.level} ELSE @]
             /\ amd' = D!KilledCallbacks
             /\ D!Enter(thread.level + 1, thread.depth)
      BY <1>6 DEF D!IceDispatch
    <2>2. PICK k \in D!IncomingRecord :
             /\ k = D!KilledIncoming /\ k.conn /\ k.cb = D!NoCallback /\ k.retriable = inc.retriable
      BY <1>0, <1>6, KilledIs
    <2>3. PICK q \in SUBSET D!Levels : q = IF cb THEN k.queue \cup {thread.level} ELSE k.queue
      BY <1>1, <2>2 DEF D!IncomingRecord, D!Levels
    <2>4. inc' = [k EXCEPT !.consumed = FALSE, !.queue = q]
      BY <2>1, <2>2, <2>3 DEF D!IncomingRecord
    <2>5. /\ inc' \in D!IncomingRecord /\ inc'.conn = k.conn /\ inc'.loc = k.loc /\ inc'.cb = k.cb
          /\ inc'.retriable = k.retriable
      BY ONLY <2>2, <2>3, <2>4 DEF D!IncomingRecord
    <2>6. /\ thread' \in D!ThreadRecord /\ thread'.req = thread.req
          /\ thread'.at = (IF thread.level + 1 <= Depth THEN "interceptor" ELSE "servant")
          /\ thread'.depth = Depth /\ thread'.level = thread.level + 1 /\ thread'.status = "none"
      BY <1>0, <1>1, <1>3, <2>1, EnterIs
    <2>7. D!TypeOK'
      BY <1>0, <1>2, <1>6, <2>1, <2>5, <2>6, KilledIs DEF D!TypeOK
    <2>8. IncomingSound'
      <3>1. D!r0' = D!r0 /\ inc'.cb = D!NoCallback /\ inc'.conn /\ inc'.retriable
        BY <1>6, <2>2, <2>5, <2>6 DEF D!r0
      <3> QED
        BY ONLY <1>1, <1>3, <2>6, <3>1 DEF IncomingSound, D!At, Fetched
    <2>9. OneHolder' /\ LocatorsPaired' /\ LaterUntouched' /\ CallbacksSound' /\ CountsOpen' /\ CrashesLate'
      BY <1>0, <1>6, <2>1, <2>2, <2>5, <2>6, KillKeeps
    <2> QED
      BY <2>7, <2>8, <2>9 DEF DispatchInv
  <1> QED
    BY <1>4, <1>5, <1>6

\* What Stepped() does to the log.
LEMMA SteppedIs ==
    ASSUME NEW l \in [D!Positions -> D!LogRecord], NEW b \in BOOLEAN, NEW m, m = D!Stepped(l, b),
           D!r0 \in D!Positions
    PROVE  /\ m \in [D!Positions -> D!LogRecord]
           /\ \A s \in D!Positions :
                 /\ m[s].answers = l[s].answers /\ m[s].located = l[s].located
                 /\ m[s].finished = l[s].finished /\ m[s].refinished = l[s].refinished
                 /\ m[s].early = l[s].early /\ m[s].late = l[s].late
  <1>1. CASE D!r0 < Count
    <2>1. D!r0 + 1 \in D!Positions
      BY <1>1, DispatchAssumption DEF D!Positions
    <2> DEFINE v == [l[D!r0 + 1] EXCEPT !.inStep = b]
    <2>2. m = [l EXCEPT ![D!r0 + 1] = v]
      BY <1>1, <2>1 DEF D!Stepped
    <2>3. l[D!r0 + 1] \in D!LogRecord
      BY <2>1
    <2>4. /\ v \in D!LogRecord /\ v.answers = l[D!r0 + 1].answers /\ v.located = l[D!r0 + 1].located
          /\ v.finished = l[D!r0 + 1].finished /\ v.refinished = l[D!r0 + 1].refinished
          /\ v.early = l[D!r0 + 1].early /\ v.late = l[D!r0 + 1].late
      BY ONLY <2>3, b \in BOOLEAN DEF D!LogRecord
    <2> HIDE DEF v
    <2>5. m \in [D!Positions -> D!LogRecord] /\ m[D!r0 + 1] = v /\ \A s \in D!Positions : s # D!r0 + 1 => m[s] = l[s]
      BY <2>1, <2>2, <2>4
    <2> QED
      BY <2>4, <2>5
  <1>2. CASE ~(D!r0 < Count)
    BY <1>2 DEF D!Stepped
  <1> QED
    BY <1>1, <1>2

\* The thread takes the next request: its own was answered if it owned it.
LEMMA NextKeeps ==
    ASSUME DispatchInv, D!NextRequest, amd' = amd, D!r0 <= Count, thread.at # "sending",
           log' \in [D!Positions -> D!LogRecord],
           \A s \in D!Positions : s # D!r0 =>
               /\ log'[s].answers = log[s].answers /\ log'[s].located = log[s].located
               /\ log'[s].finished = log[s].finished /\ log'[s].refinished = log[s].refinished
               /\ log'[s].early = log[s].early,
           log'[D!r0].answers = IF inc.conn THEN 1 ELSE log[D!r0].answers,
           ~inc.conn => log'[D!r0].located = log[D!r0].located /\ log'[D!r0].finished = log[D!r0].finished,
           log'[D!r0].finished <= log'[D!r0].located \/ log'[D!r0].refinished, ~log'[D!r0].early
    PROVE  /\ OneHolder' /\ LocatorsPaired' /\ LaterUntouched' /\ CallbacksSound' /\ IncomingSound'
           /\ thread' \in D!ThreadRecord /\ inc' \in D!IncomingRecord
           /\ attempts' \in [D!Levels -> 0 .. MaxAttempts]
  <1>0. /\ D!TypeOK /\ OneHolder /\ LocatorsPaired /\ LaterUntouched /\ CallbacksSound
        /\ D!r0 \in Nat /\ D!r0 \in D!Positions /\ Count \in Nat
    BY DispatchAssumption DEF DispatchInv, D!TypeOK, D!ThreadRecord, D!r0, D!Positions
  <1>1. PICK spot \in {"done", "read"} : spot = IF D!r0 = Count THEN "done" ELSE "read"
    OBVIOUS
  <1>2. /\ thread' = [req |-> D!r0 + 1, at |-> spot, depth |-> 0, level |-> 0, status |-> "none"]
        /\ attempts' = [l \in D!Levels |-> 0] /\ inc' = D!NewIncoming
    BY <1>1 DEF D!NextRequest
  <1>3. thread' \in D!ThreadRecord /\ thread'.at = spot
    <2>1. D!r0 + 1 \in 1 .. Count + 1 /\ 0 \in 0 .. Depth + 1
      BY <1>0, DispatchAssumption
    <2> QED
      BY <1>1, <1>2, <2>1 DEF D!ThreadRecord
  <1>4. /\ inc' \in D!IncomingRecord /\ inc'.conn = TRUE /\ inc'.loc = FALSE /\ inc'.cb = D!NoCallback
        /\ inc'.retriable = FALSE
    BY <1>2 DEF D!NewIncoming, D!IncomingRecord
  <1>5. attempts' \in [D!Levels -> 0 .. MaxAttempts]
    BY <1>2, DispatchAssumption
  <1>6. D!r0' = D!r0 + 1
    BY <1>2 DEF D!r0
  <1>7. \A s \in D!Positions, h \in Holders :
            /\ h = D!Incoming => (Owns(s, h)' <=> s = D!r0 + 1) /\ (Owns(s, h) <=> s = D!r0 /\ inc.conn)
                               /\ LocatorOf(h)' = FALSE
            /\ h # D!Incoming => (Owns(s, h)' <=> Owns(s, h)) /\ LocatorOf(h)' = LocatorOf(h)
                               /\ (Owns(s, h) => s # D!r0 + 1 /\ (s = D!r0 => ~inc.conn))
    <2> SUFFICES ASSUME NEW s \in D!Positions, NEW h \in Holders
                 PROVE  /\ h = D!Incoming => (Owns(s, h)' <=> s = D!r0 + 1) /\ (Owns(s, h) <=> s = D!r0 /\ inc.conn)
                               /\ LocatorOf(h)' = FALSE
                        /\ h # D!Incoming => (Owns(s, h)' <=> Owns(s, h)) /\ LocatorOf(h)' = LocatorOf(h)
                               /\ (Owns(s, h) => s # D!r0 + 1 /\ (s = D!r0 => ~inc.conn))
      OBVIOUS
    <2>1. CASE h = D!Incoming
      BY <1>4, <1>6, <2>1 DEF Owns, LocatorOf
    <2>2. CASE h # D!Incoming /\ h \in Callbacks
      <3>1. Owns(s, h) => s # D!r0 + 1
        BY <1>0, <2>2 DEF LaterUntouched, Owns
      <3>2. D!Incoming \in Holders /\ (inc.conn => Owns(D!r0, D!Incoming))
        BY DEF Holders, Owns
      <3>3. Owns(s, h) => (s = D!r0 => ~inc.conn)
        BY <1>0, <2>2, <3>2 DEF OneHolder
      <3>4. (Owns(s, h)' <=> Owns(s, h)) /\ LocatorOf(h)' = LocatorOf(h)
        BY <2>2 DEF Owns, LocatorOf
      <3> QED
        BY <2>2, <3>1, <3>3, <3>4
    <2> QED
      BY <2>1, <2>2 DEF Holders
  <1>8. D!Incoming \in Holders
    BY DEF Holders
  <1>9. D!r0 + 1 \in D!Positions => /\ log'[D!r0 + 1].answers = 0 /\ log'[D!r0 + 1].located = 0
                                /\ log'[D!r0 + 1].finished = 0
    BY <1>0 DEF LaterUntouched
  <1>10. OneHolder'
    <2> SUFFICES ASSUME NEW s \in D!Positions
                 PROVE  /\ log'[s].answers \in {0, 1}
                        /\ \A g, h \in Holders : Owns(s, g)' /\ Owns(s, h)' => g = h
                        /\ \A h \in Holders : Owns(s, h)' => log'[s].answers = 0
                        /\ log'[s].answers = 0 /\ s <= D!r0 + 1 => \E h \in Holders : Owns(s, h)'
      BY <1>6 DEF OneHolder
    <2>1. CASE s = D!r0
      <3>1. \A h \in Holders : Owns(s, h)' => Owns(s, h) /\ ~inc.conn /\ h # D!Incoming
        BY <1>0, <1>7, <2>1
      <3>2. ~inc.conn => \A h \in Holders : Owns(s, h) => Owns(s, h)'
        BY <1>7, <2>1
      <3>3. /\ log[s].answers \in {0, 1}
            /\ \A g, h \in Holders : Owns(s, g) /\ Owns(s, h) => g = h
            /\ \A h \in Holders : Owns(s, h) => log[s].answers = 0
            /\ log[s].answers = 0 /\ s <= D!r0 => \E h \in Holders : Owns(s, h)
        BY <1>0 DEF OneHolder
      <3>4. s <= D!r0 /\ log'[s].answers = IF inc.conn THEN 1 ELSE log[s].answers
        BY <1>0, <2>1
      <3> QED
        BY ONLY <3>1, <3>2, <3>3, <3>4
    <2>2. CASE s = D!r0 + 1
      BY <1>7, <1>8, <1>9, <2>2
    <2>3. CASE s # D!r0 /\ s # D!r0 + 1
      <3>1. \A h \in Holders : Owns(s, h)' <=> Owns(s, h)
        BY <1>7, <2>3
      <3>2. s <= D!r0 + 1 => s <= D!r0
        BY <1>0, <2>3 DEF D!Positions
      <3> QED
        BY <1>0, <2>3, <3>1, <3>2 DEF OneHolder
    <2> QED
      BY <2>1, <2>2, <2>3
  <1>11. LocatorsPaired'
    <2> SUFFICES ASSUME NEW s \in D!Positions
                 PROVE  /\ log'[s].finished <= log'[s].located \/ log'[s].refinished
                        /\ ~log'[s].early
                        /\ \A h \in Holders : Owns(s, h)' =>
                             log'[s].located = log'[s].finished + Bit(LocatorOf(h)')
      BY DEF LocatorsPaired
    <2>1. CASE s = D!r0
      <3>1. \A h \in Holders : Owns(s, h)' => Owns(s, h) /\ ~inc.conn /\ h # D!Incoming
                                             /\ LocatorOf(h)' = LocatorOf(h)
        BY <1>0, <1>7, <2>1
      <3>2. \A h \in Holders : Owns(s, h) /\ h # D!Incoming => log[s].located = log[s].finished + Bit(LocatorOf(h))
        BY <1>0 DEF LocatorsPaired
      <3> QED
        BY <2>1, <3>1, <3>2
    <2>2. CASE s = D!r0 + 1
      <3>1. \A h \in Holders : Owns(s, h)' => LocatorOf(h)' = FALSE
        BY <1>7, <2>2
      <3>2. ~log'[s].early
        BY <1>0, <2>2 DEF LocatorsPaired
      <3> QED
        BY <1>9, <2>2, <3>1, <3>2 DEF Bit
    <2>3. CASE s # D!r0 /\ s # D!r0 + 1
      <3>1. \A h \in Holders : Owns(s, h)' => Owns(s, h) /\ h # D!Incoming /\ LocatorOf(h)' = LocatorOf(h)
        BY <1>7, <2>3
      <3> QED
        BY <1>0, <2>3, <3>1 DEF LocatorsPaired
    <2> QED
      BY <2>1, <2>2, <2>3
  <1>12. LaterUntouched'
    <2>1. \A s \in D!Positions : s > D!r0 + 1 => s > D!r0 /\ s # D!r0
      BY <1>0 DEF D!Positions
    <2> QED
      BY <1>0, <1>6, <2>1 DEF LaterUntouched
  <1>13. CallbacksSound'
    <2>1. thread'.at # "sending"
      BY <1>3
    <2> QED
      BY <1>0, <2>1 DEF CallbacksSound, CallbackSound, D!At
  <1>14. IncomingSound'
    <2>1. /\ spot = "done" => D!r0 + 1 = Count + 1
          /\ spot = "read" => D!r0 + 1 <= Count /\ D!r0 + 1 \in D!Positions
      BY <1>0, <1>1 DEF D!Positions
    <2> QED
      BY <1>3, <1>4, <1>6, <1>9, <2>1 DEF IncomingSound, D!At, Fetched
  <1> QED
    BY <1>3, <1>4, <1>5, <1>10, <1>11, <1>12, <1>13, <1>14

\* The Incoming answers: the locator was told before if it was used.
LEMMA AnswerKeeps ==
    ASSUME DispatchInv, NEW b \in BOOLEAN, D!Answer(IF inc.loc THEN D!Finished(log, D!r0) ELSE log, b),
           amd' = amd, inc.conn, D!r0 <= Count, thread.at # "sending"
    PROVE  DispatchInv'
  <1>0. /\ D!TypeOK /\ OneHolder /\ LocatorsPaired /\ IncomingSound /\ CrashesLate /\ inc.loc \in BOOLEAN /\ D!r0 \in D!Positions
        /\ log \in [D!Positions -> D!LogRecord] /\ crashed \in BOOLEAN
    BY DispatchAssumption DEF DispatchInv, D!TypeOK, D!ThreadRecord, D!r0, D!Positions,
       D!IncomingRecord
  <1>1. PICK m : m = D!Counted(IF inc.loc THEN D!Finished(log, D!r0) ELSE log, D!r0, 1)
    OBVIOUS
  <1>2. /\ m \in [D!Positions -> D!LogRecord]
        /\ \A s \in D!Positions : s # D!r0 => m[s] = log[s]
        /\ m[D!r0].answers = log[D!r0].answers + 1 /\ m[D!r0].located = log[D!r0].located
        /\ m[D!r0].finished = log[D!r0].finished + Bit(inc.loc)
        /\ m[D!r0].early = (log[D!r0].early \/ log[D!r0].finished + Bit(inc.loc) < log[D!r0].located)
        /\ m[D!r0].refinished = log[D!r0].refinished /\ m[D!r0].late = log[D!r0].late
    BY <1>0, <1>1, LogIs
  <1>3. /\ log' = D!Stepped(m, b) /\ D!NextRequest /\ dispatchCount' = dispatchCount - 1
        /\ crashed' = (crashed \/ ~inc.conn)
    BY <1>1 DEF D!Answer
  <1>4. /\ log' \in [D!Positions -> D!LogRecord]
        /\ \A s \in D!Positions :
              /\ log'[s].answers = m[s].answers /\ log'[s].located = m[s].located
              /\ log'[s].finished = m[s].finished /\ log'[s].refinished = m[s].refinished
              /\ log'[s].early = m[s].early /\ log'[s].late = m[s].late
    BY <1>0, <1>2, <1>3, SteppedIs
  <1>5. Owns(D!r0, D!Incoming) /\ D!Incoming \in Holders /\ LocatorOf(D!Incoming) = inc.loc
    BY DEF Owns, Holders, LocatorOf
  <1>6. /\ log[D!r0].answers = 0 /\ ~log[D!r0].early
        /\ \/ log[D!r0].located = log[D!r0].finished + Bit(inc.loc)
           \/ D!At("again") /\ log[D!r0].located = log[D!r0].finished
    BY <1>0, <1>5 DEF OneHolder, LocatorsPaired
  <1>7. log[D!r0].finished \in Nat /\ log[D!r0].located \in Nat /\ Bit(inc.loc) \in {0, 1}
    BY <1>0 DEF D!LogRecord, Bit
  <1>8. m[D!r0].answers = 1 /\ ~m[D!r0].early
    <2>1. ~(log[D!r0].finished + Bit(inc.loc) < log[D!r0].located)
      BY ONLY <1>6, <1>7
    <2>2. ~m[D!r0].early
      BY <1>2, <1>6, <2>1
    <2> QED
      BY <1>2, <1>6, <2>2
  <1>9. m[D!r0].finished <= m[D!r0].located \/ m[D!r0].refinished
    BY <1>0, <1>2, <1>6, <1>7 DEF IncomingSound
  <1>10. crashed' = crashed
    BY <1>0, <1>3
  <1>11. /\ OneHolder' /\ LocatorsPaired' /\ LaterUntouched' /\ CallbacksSound' /\ IncomingSound'
         /\ thread' \in D!ThreadRecord /\ inc' \in D!IncomingRecord
         /\ attempts' \in [D!Levels -> 0 .. MaxAttempts]
    BY <1>0, <1>2, <1>3, <1>4, <1>8, <1>9, NextKeeps
  <1>12. CountsOpen' /\ dispatchCount' \in 0 .. Count
    <2>1. \A s \in D!Positions : log'[s].answers = IF s = D!r0 THEN 1 ELSE log[s].answers
      BY <1>0, <1>2, <1>4, <1>8
    <2> QED
      BY <1>0, <1>3, <1>6, <2>1, OneLess
  <1>13. CrashesLate'
    <2>1. \A s \in D!Positions : log'[s].late = log[s].late
      BY <1>2, <1>4
    <2> QED
      BY <1>0, <1>10, <2>1 DEF CrashesLate
  <1>14. D!TypeOK'
    BY <1>0, <1>4, <1>10, <1>11, <1>12 DEF D!TypeOK
  <1> QED
    BY <1>11, <1>12, <1>13, <1>14 DEF DispatchInv

\* The thread leaves the request to its callback.
LEMMA InvokedAsyncKeeps ==
    ASSUME DispatchInv, D!InvokedAsync
    PROVE  DispatchInv'
  <1>0. /\ D!TypeOK /\ OneHolder /\ LocatorsPaired /\ IncomingSound /\ CrashesLate /\ CountsOpen
        /\ log \in [D!Positions -> D!LogRecord] /\ inc.consumed \in BOOLEAN
        /\ thread.at = "invoked" /\ thread.status = "async" /\ D!NextRequest
        /\ log' = D!Stepped(log, inc.consumed) /\ UNCHANGED <<amd, dispatchCount, crashed>>
    BY DEF DispatchInv, D!TypeOK, D!IncomingRecord, D!InvokedAsync, D!At
  <1>1. ~inc.conn /\ D!r0 <= Count /\ thread.at # "sending"
    BY <1>0 DEF IncomingSound, D!At
  <1>2. D!r0 \in D!Positions
    BY <1>0, <1>1 DEF D!TypeOK, D!ThreadRecord, D!r0, D!Positions
  <1>3. /\ log' \in [D!Positions -> D!LogRecord]
        /\ \A s \in D!Positions :
              /\ log'[s].answers = log[s].answers /\ log'[s].located = log[s].located
              /\ log'[s].finished = log[s].finished /\ log'[s].refinished = log[s].refinished
              /\ log'[s].early = log[s].early /\ log'[s].late = log[s].late
    BY <1>0, <1>2, SteppedIs
  <1>4. ~log'[D!r0].early /\ (log'[D!r0].finished <= log'[D!r0].located \/ log'[D!r0].refinished)
    BY <1>0, <1>2, <1>3 DEF LocatorsPaired
  <1>5. /\ OneHolder' /\ LocatorsPaired' /\ LaterUntouched' /\ CallbacksSound' /\ IncomingSound'
        /\ thread' \in D!ThreadRecord /\ inc' \in D!IncomingRecord
        /\ attempts' \in [D!Levels -> 0 .. MaxAttempts]
    BY <1>0, <1>1, <1>2, <1>3, <1>4, NextKeeps
  <1>6. CountsOpen' /\ CrashesLate'
    BY <1>0, <1>3 DEF CountsOpen, CrashesLate
  <1>7. D!TypeOK'
    BY <1>0, <1>3, <1>5 DEF D!TypeOK
  <1> QED
    BY <1>5, <1>6, <1>7 DEF DispatchInv

\* ObjectNotExistException or FacetNotExistException
LEMMA NoServantKeeps ==
    ASSUME DispatchInv, D!NoServant
    PROVE  DispatchInv'
  <1>1. inc.conn /\ ~inc.loc /\ D!r0 <= Count /\ thread.at # "sending" /\ amd' = amd
    BY DEF DispatchInv, IncomingSound, D!NoServant, D!At, Fetched
  <1>2. D!Answer(IF inc.loc THEN D!Finished(log, D!r0) ELSE log, TRUE)
    BY <1>1 DEF D!NoServant
  <1> QED
    BY <1>1, <1>2, AnswerKeeps

\* Invoked and Locate change the record of the current request only.
LEMMA OwnerKept ==
    ASSUME DispatchInv, amd' = amd, D!r0' = D!r0, inc'.conn = inc.conn, inc.conn, D!r0 \in D!Positions,
           dispatchCount' = dispatchCount, crashed' = crashed,
           thread.at # "sending", thread'.at # "sending",
           \A s \in D!Positions : s # D!r0 => log'[s] = log[s],
           log'[D!r0].answers = log[D!r0].answers, log'[D!r0].late = log[D!r0].late, ~log'[D!r0].early,
           log'[D!r0].finished <= log'[D!r0].located \/ log'[D!r0].refinished,
           \/ log'[D!r0].located = log'[D!r0].finished + Bit(inc'.loc)
           \/ thread'.at = "again" /\ log'[D!r0].located = log'[D!r0].finished
    PROVE  OneHolder' /\ LocatorsPaired' /\ LaterUntouched' /\ CallbacksSound' /\ CountsOpen' /\ CrashesLate'
  <1>0. OneHolder /\ LocatorsPaired /\ LaterUntouched /\ CallbacksSound /\ CountsOpen /\ CrashesLate /\ D!r0 \in Nat
    BY DEF DispatchInv, D!Positions
  <1>1. \A s, h : Owns(s, h)' <=> Owns(s, h)
    BY DEF Owns
  <1>2. OneHolder'
    BY <1>0, <1>1 DEF OneHolder
  <1>3. D!Incoming \in Holders /\ Owns(D!r0, D!Incoming)
    BY DEF Holders, Owns
  <1>4. \A h \in Holders : Owns(D!r0, h) => h = D!Incoming
    BY <1>0, <1>3 DEF OneHolder
  <1>5. \A s \in D!Positions, h \in Holders : s # D!r0 /\ Owns(s, h) => h # D!Incoming /\ LocatorOf(h)' = LocatorOf(h)
    BY DEF Owns, LocatorOf
  <1>6. LocatorOf(D!Incoming)' = inc'.loc
    BY DEF LocatorOf
  <1>7. LocatorsPaired'
    <2> SUFFICES ASSUME NEW s \in D!Positions
                 PROVE  /\ log'[s].finished <= log'[s].located \/ log'[s].refinished
                        /\ ~log'[s].early
                        /\ \A h \in Holders : Owns(s, h)' =>
                             \/ log'[s].located = log'[s].finished + Bit(LocatorOf(h)')
                             \/ h = D!Incoming /\ D!At("again")' /\ log'[s].located = log'[s].finished
      BY DEF LocatorsPaired
    <2>1. CASE s = D!r0
      BY <1>1, <1>4, <1>6, <2>1 DEF D!At
    <2>2. CASE s # D!r0
      BY <1>0, <1>1, <1>5, <2>2 DEF LocatorsPaired
    <2> QED
      BY <2>1, <2>2
  <1>8. LaterUntouched'
    <2>1. \A s \in D!Positions : s > D!r0 => log'[s] = log[s]
      BY <1>0
    <2> QED
      BY <1>0, <2>1 DEF LaterUntouched
  <1>9. CallbacksSound'
    BY <1>0 DEF CallbacksSound, CallbackSound, D!At
  <1>10. CountsOpen'
    <2>1. {s \in D!Positions : log'[s].answers = 0} = {s \in D!Positions : log[s].answers = 0}
      OBVIOUS
    <2> QED
      BY <1>0, <2>1 DEF CountsOpen
  <1>11. CrashesLate'
    BY <1>0 DEF CrashesLate
  <1> QED
    BY <1>2, <1>7, <1>8, <1>9, <1>10, <1>11

\* ServantLocator::locate()
LEMMA LocateServantKeeps ==
    ASSUME DispatchInv, D!Locate
    PROVE  DispatchInv'
  <1>0. /\ D!TypeOK /\ IncomingSound /\ thread.at = "locate" /\ inc \in D!IncomingRecord
        /\ log \in [D!Positions -> D!LogRecord] /\ amd' = amd /\ OneHolder /\ LocatorsPaired
    BY DEF DispatchInv, D!TypeOK, D!Locate, D!At
  <1>1. /\ inc.conn /\ ~inc.loc /\ inc.cb = D!NoCallback /\ ~inc.retriable /\ D!r0 <= Count
        /\ log[D!r0].located = 0
    BY <1>0 DEF IncomingSound, D!At, Fetched
  <1>2. D!r0 \in D!Positions
    BY <1>0, <1>1 DEF D!TypeOK, D!ThreadRecord, D!r0, D!Positions
  <1>3. CASE D!Answer(log, TRUE)
    <2>1. D!Answer(IF inc.loc THEN D!Finished(log, D!r0) ELSE log, TRUE)
      BY <1>1, <1>3
    <2> QED
      BY <1>0, <1>1, <2>1, AnswerKeeps
  <1>4. CASE D!Goes("none") /\ UNCHANGED <<inc, attempts, dispatchCount, log, crashed>>
    <2>1. thread' \in D!ThreadRecord /\ thread'.req = thread.req /\ thread'.at = "none"
      BY <1>0, <1>4, GoesIs
    <2>2. D!TypeOK'
      BY <1>0, <1>4, <2>1 DEF D!TypeOK
    <2>3. IncomingSound'
      BY <1>0, <1>1, <1>4, <2>1 DEF IncomingSound, D!At, Fetched, D!r0
    <2>4. thread.at \notin {"sending", "again"} /\ thread'.at # "sending"
      BY <1>0, <2>1
    <2> QED
      BY <1>0, <1>4, <2>1, <2>2, <2>3, <2>4, DispatchAside DEF DispatchInv
  <1>5. CASE /\ inc' = [inc EXCEPT !.loc = TRUE]
             /\ log' = [log EXCEPT ![D!r0].located = @ + 1]
             /\ \E depth \in {0, Depth} : D!Enter(1, depth)
             /\ UNCHANGED <<attempts, dispatchCount, crashed>>
    <2>1. PICK depth \in {0, Depth} : D!Enter(1, depth)
      BY <1>5
    <2>2. /\ thread' \in D!ThreadRecord /\ thread'.req = thread.req
          /\ thread'.at = (IF 1 <= depth THEN "interceptor" ELSE "servant")
          /\ thread'.depth = depth /\ thread'.level = 1 /\ thread'.status = "none"
      BY <1>0, <2>1, EnterIs, DispatchAssumption
    <2>3. /\ inc' \in D!IncomingRecord /\ inc'.conn = inc.conn /\ inc'.loc = TRUE /\ inc'.cb = inc.cb
          /\ inc'.retriable = inc.retriable
      BY <1>0, <1>5 DEF D!IncomingRecord
    <2> DEFINE v == [log[D!r0] EXCEPT !.located = @ + 1]
    <2>4. log' = [log EXCEPT ![D!r0] = v] /\ log[D!r0] \in D!LogRecord
      BY <1>0, <1>2, <1>5
    <2>5. /\ v \in D!LogRecord /\ v.answers = log[D!r0].answers /\ v.located = log[D!r0].located + 1
          /\ v.finished = log[D!r0].finished /\ v.refinished = log[D!r0].refinished
          /\ v.early = log[D!r0].early /\ v.late = log[D!r0].late
      BY ONLY <2>4 DEF D!LogRecord
    <2> HIDE DEF v
    <2>6. log' \in [D!Positions -> D!LogRecord] /\ log'[D!r0] = v /\ \A s \in D!Positions : s # D!r0 => log'[s] = log[s]
      BY <1>0, <1>2, <2>4, <2>5
    <2>7. D!TypeOK'
      BY <1>0, <1>5, <2>2, <2>3, <2>6 DEF D!TypeOK
    <2>8. IncomingSound'
      <3>1. D!r0' = D!r0
        BY <2>2 DEF D!r0
      <3>2. depth \in {0, Depth} /\ Depth \in Nat
        BY DispatchAssumption
      <3> QED
        BY ONLY <1>1, <2>2, <2>3, <3>1, <3>2 DEF IncomingSound, D!At, Fetched
    <2>9. log[D!r0].finished = 0 /\ ~log[D!r0].early
      <3>1. Owns(D!r0, D!Incoming) /\ D!Incoming \in Holders /\ LocatorOf(D!Incoming) = FALSE
        BY <1>0, <1>1 DEF Owns, Holders, LocatorOf, D!IncomingRecord
      <3>2. log[D!r0].finished \in Nat
        BY <1>0, <1>2 DEF D!LogRecord
      <3> QED
        BY <1>0, <1>1, <1>2, <3>1, <3>2 DEF LocatorsPaired, Bit, D!At
    <2>10. /\ log'[D!r0].located = log'[D!r0].finished + Bit(inc'.loc)
           /\ log'[D!r0].finished <= log'[D!r0].located /\ ~log'[D!r0].early
      BY <1>1, <2>3, <2>5, <2>6, <2>9 DEF Bit
    <2>11. D!r0' = D!r0 /\ thread.at # "sending" /\ thread'.at # "sending"
      BY <1>0, <2>2 DEF D!r0
    <2>12. OneHolder' /\ LocatorsPaired' /\ LaterUntouched' /\ CallbacksSound' /\ CountsOpen' /\ CrashesLate'
      BY <1>0, <1>1, <1>2, <1>5, <2>3, <2>5, <2>6, <2>10, <2>11, OwnerKept
    <2> QED
      BY <2>7, <2>8, <2>12 DEF DispatchInv
  <1> QED
    BY <1>3, <1>4, <1>5 DEF D!Locate

\* invokeException(): this request and all behind it are answered at once.
LEMMA FatalKeeps ==
    ASSUME DispatchInv, D!Fatal(IF inc.loc THEN D!Finished(log, D!r0) ELSE log), amd' = amd, inc.conn,
           D!r0 <= Count, thread.at # "sending"
    PROVE  DispatchInv'
  <1>0. /\ D!TypeOK /\ OneHolder /\ LocatorsPaired /\ LaterUntouched /\ IncomingSound /\ CrashesLate /\ inc.loc \in BOOLEAN
        /\ D!r0 \in D!Positions /\ log \in [D!Positions -> D!LogRecord] /\ inc \in D!IncomingRecord
        /\ D!r0 \in Nat /\ Count \in Nat /\ CallbacksSound /\ CountsOpen
    BY DispatchAssumption DEF DispatchInv, D!TypeOK, D!ThreadRecord, D!r0, D!Positions,
       D!IncomingRecord
  <1>1. PICK l : l = IF inc.loc THEN D!Finished(log, D!r0) ELSE log
    OBVIOUS
  <1>2. /\ l \in [D!Positions -> D!LogRecord] /\ \A s \in D!Positions : s # D!r0 => l[s] = log[s]
        /\ l[D!r0].answers = log[D!r0].answers /\ l[D!r0].located = log[D!r0].located
        /\ l[D!r0].finished = log[D!r0].finished + Bit(inc.loc)
        /\ l[D!r0].early = log[D!r0].early /\ l[D!r0].refinished = log[D!r0].refinished
        /\ l[D!r0].late = log[D!r0].late
    BY <1>0, <1>1 DEF D!Finished, D!LogRecord, Bit
  <1>3. /\ thread' = [thread EXCEPT !.at = "done", !.req = Count + 1]
        /\ dispatchCount' = dispatchCount - (Count - D!r0 + 1)
        /\ log' = [r \in D!Positions |-> IF r >= D!r0 THEN D!Counted(l, r, 1)[r] ELSE l[r]]
        /\ UNCHANGED <<inc, attempts, crashed>>
    BY <1>1 DEF D!Fatal
  <1>4. Owns(D!r0, D!Incoming) /\ D!Incoming \in Holders /\ LocatorOf(D!Incoming) = inc.loc
    BY DEF Owns, Holders, LocatorOf
  <1>5. /\ log[D!r0].answers = 0 /\ ~log[D!r0].early
        /\ \/ log[D!r0].located = log[D!r0].finished + Bit(inc.loc)
           \/ D!At("again") /\ log[D!r0].located = log[D!r0].finished
    BY <1>0, <1>4 DEF OneHolder, LocatorsPaired
  <1>6. log[D!r0].finished \in Nat /\ log[D!r0].located \in Nat /\ Bit(inc.loc) \in {0, 1}
    BY <1>0 DEF D!LogRecord, Bit
  <1>7. /\ l[D!r0].finished <= l[D!r0].located \/ l[D!r0].refinished
        /\ ~(l[D!r0].finished < l[D!r0].located)
    <2>1. D!At("again") => log[D!r0].refinished
      BY <1>0 DEF IncomingSound
    <2> QED
      BY <1>2, <1>5, <1>6, <2>1
  <1>8. \A s \in D!Positions : s >= D!r0 =>
           /\ l[s].answers = 0 /\ ~l[s].early /\ ~(l[s].finished < l[s].located)
           /\ l[s].finished <= l[s].located \/ l[s].refinished
    <2> SUFFICES ASSUME NEW s \in D!Positions, s >= D!r0
                 PROVE  /\ l[s].answers = 0 /\ ~l[s].early /\ ~(l[s].finished < l[s].located)
                        /\ l[s].finished <= l[s].located \/ l[s].refinished
      OBVIOUS
    <2>1. CASE s = D!r0
      BY <1>2, <1>5, <1>7, <2>1
    <2>2. CASE s # D!r0
      <3>1. s > D!r0 /\ l[s] = log[s]
        BY <1>0, <1>2, <2>2 DEF D!Positions
      <3> QED
        BY <1>0, <3>1 DEF LaterUntouched, LocatorsPaired
    <2> QED
      BY <2>1, <2>2
  <1>9. \A s \in D!Positions : s >= D!r0 =>
           /\ log'[s] \in D!LogRecord /\ log'[s].answers = 1 /\ ~log'[s].early
           /\ log'[s].finished <= log'[s].located \/ log'[s].refinished
           /\ log'[s].late = log[s].late
    <2> SUFFICES ASSUME NEW s \in D!Positions, s >= D!r0
                 PROVE  /\ log'[s] \in D!LogRecord /\ log'[s].answers = 1 /\ ~log'[s].early
                        /\ log'[s].finished <= log'[s].located \/ log'[s].refinished
                        /\ log'[s].late = log[s].late
      OBVIOUS
    <2>0. PICK fin \in BOOLEAN : ~fin
      OBVIOUS
    <2>1. PICK m : m = D!Counted(IF fin THEN D!Finished(l, s) ELSE l, s, 1)
      OBVIOUS
    <2>2. log'[s] = m[s]
      BY <1>3, <2>0, <2>1
    <2>3. /\ m \in [D!Positions -> D!LogRecord]
          /\ m[s].answers = l[s].answers + 1 /\ m[s].located = l[s].located
          /\ m[s].finished = l[s].finished + Bit(fin)
          /\ m[s].early = (l[s].early \/ l[s].finished + Bit(fin) < l[s].located)
          /\ m[s].refinished = l[s].refinished /\ m[s].late = l[s].late
      BY <1>2, <2>1, LogIs
    <2>4. l[s].finished + Bit(fin) = l[s].finished
      BY <1>2, <2>0 DEF D!LogRecord, Bit
    <2>5. l[s].late = log[s].late
      BY <1>2
    <2>6. ~m[s].early
      BY <1>8, <2>3, <2>4
    <2>7. l[s].answers = 0 /\ (l[s].finished <= l[s].located \/ l[s].refinished)
      BY <1>8
    <2> QED
      BY ONLY <2>2, <2>3, <2>4, <2>5, <2>6, <2>7, s \in D!Positions
  <1>10. \A s \in D!Positions : ~(s >= D!r0) => log'[s] = log[s]
    BY <1>0, <1>2, <1>3
  <1>11. log' \in [D!Positions -> D!LogRecord]
    BY <1>0, <1>3, <1>9, <1>10
  <1>12. /\ thread' \in D!ThreadRecord /\ thread'.at = "done" /\ D!r0' = Count + 1
    <2>1. Count + 1 \in 1 .. Count + 1 /\ thread \in D!ThreadRecord
      BY <1>0 DEF D!TypeOK
    <2> QED
      BY ONLY <1>3, <2>1 DEF D!ThreadRecord, D!r0
  <1>13. \A s \in D!Positions, h \in Holders :
            /\ Owns(s, h)' => h # D!Incoming /\ Owns(s, h) /\ LocatorOf(h)' = LocatorOf(h) /\ ~(s >= D!r0)
            /\ Owns(s, h) /\ ~(s >= D!r0) => Owns(s, h)'
    <2> SUFFICES ASSUME NEW s \in D!Positions, NEW h \in Holders
                 PROVE  /\ Owns(s, h)' => h # D!Incoming /\ Owns(s, h) /\ LocatorOf(h)' = LocatorOf(h) /\ ~(s >= D!r0)
                        /\ Owns(s, h) /\ ~(s >= D!r0) => Owns(s, h)'
      OBVIOUS
    <2>1. CASE h = D!Incoming
      <3>1. s # Count + 1
        BY <1>0 DEF D!Positions
      <3> QED
        BY <1>0, <1>12, <2>1, <3>1 DEF Owns
    <2>2. CASE h # D!Incoming /\ h \in Callbacks
      <3>1. (Owns(s, h)' <=> Owns(s, h)) /\ LocatorOf(h)' = LocatorOf(h)
        BY <2>2 DEF Owns, LocatorOf
      <3>2. Owns(s, h) => s # D!r0
        BY <1>0, <1>4, <2>2 DEF OneHolder
      <3>3. Owns(s, h) => ~(s > D!r0)
        BY <1>0, <2>2 DEF LaterUntouched, Owns
      <3>4. s > D!r0 \/ s = D!r0 \/ ~(s >= D!r0)
        BY <1>0 DEF D!Positions
      <3> QED
        BY <2>2, <3>1, <3>2, <3>3, <3>4
    <2> QED
      BY <2>1, <2>2 DEF Holders
  <1>14. OneHolder'
    <2> SUFFICES ASSUME NEW s \in D!Positions
                 PROVE  /\ log'[s].answers \in {0, 1}
                        /\ \A g, h \in Holders : Owns(s, g)' /\ Owns(s, h)' => g = h
                        /\ \A h \in Holders : Owns(s, h)' => log'[s].answers = 0
                        /\ log'[s].answers = 0 => \E h \in Holders : Owns(s, h)'
      BY DEF OneHolder
    <2>1. CASE s >= D!r0
      BY <1>9, <1>13, <2>1
    <2>2. CASE ~(s >= D!r0)
      <3>1. s <= D!r0 /\ log'[s] = log[s]
        BY <1>0, <1>10, <2>2 DEF D!Positions
      <3> QED
        BY <1>0, <1>13, <2>2, <3>1 DEF OneHolder
    <2> QED
      BY <2>1, <2>2
  <1>15. LocatorsPaired'
    <2> SUFFICES ASSUME NEW s \in D!Positions
                 PROVE  /\ log'[s].finished <= log'[s].located \/ log'[s].refinished
                        /\ ~log'[s].early
                        /\ \A h \in Holders : Owns(s, h)' =>
                             log'[s].located = log'[s].finished + Bit(LocatorOf(h)')
      BY DEF LocatorsPaired
    <2>1. CASE s >= D!r0
      BY <1>9, <1>13, <2>1
    <2>2. CASE ~(s >= D!r0)
      BY <1>0, <1>10, <1>13, <2>2 DEF LocatorsPaired
    <2> QED
      BY <2>1, <2>2
  <1>16. LaterUntouched'
    BY <1>0, <1>12 DEF LaterUntouched, D!Positions
  <1>17. CallbacksSound'
    BY <1>0, <1>12 DEF CallbacksSound, CallbackSound, D!At
  <1>18. IncomingSound'
    <2>1. inc' = inc /\ inc.cb = D!NoCallback
      BY <1>0, <1>3 DEF IncomingSound
    <2> QED
      BY <1>12, <2>1 DEF IncomingSound, D!At, Fetched
  <1>19. CountsOpen' /\ dispatchCount' \in 0 .. Count
    <2> DEFINE OpenRequests == {s \in D!Positions : log[s].answers = 0}
    <2>1. /\ IsFiniteSet(OpenRequests) /\ Cardinality(OpenRequests) <= Count
          /\ IsFiniteSet(D!r0 .. Count) /\ Cardinality(D!r0 .. Count) = Count - D!r0 + 1
      <3>1. OpenRequests \in SUBSET (1 .. Count)
        BY DEF D!Positions
      <3>3. IsFiniteSet(1 .. Count) /\ Cardinality(1 .. Count) = Count
        BY AllPositions DEF D!Positions
      <3>2. IsFiniteSet(D!r0 .. Count) /\ Cardinality(D!r0 .. Count) = IF D!r0 > Count THEN 0 ELSE Count - D!r0 + 1
        BY <1>0, FS_Interval
      <3> QED
        BY <1>0, <3>1, <3>2, <3>3, FS_Subset
    <2>2. OpenRequests \cap (D!r0 .. Count) = D!r0 .. Count
      <3>1. \A s \in D!r0 .. Count : s \in D!Positions /\ s >= D!r0
        BY <1>0 DEF D!Positions
      <3>2. \A s \in D!Positions : s >= D!r0 => log[s].answers = 0
        BY <1>2, <1>8
      <3> QED
        BY <3>1, <3>2
    <2>3. {s \in D!Positions : log'[s].answers = 0} = OpenRequests \ (D!r0 .. Count)
      <3>1. \A s \in D!Positions : s \in D!r0 .. Count <=> s >= D!r0
        BY <1>0 DEF D!Positions
      <3>2. \A s \in D!Positions : s >= D!r0 => log'[s].answers # 0
        BY <1>9
      <3>3. \A s \in D!Positions : ~(s >= D!r0) => log'[s].answers = log[s].answers
        BY <1>10
      <3> QED
        BY <3>1, <3>2, <3>3
    <2>4. /\ Cardinality(OpenRequests \ (D!r0 .. Count)) = Cardinality(OpenRequests) - Cardinality(OpenRequests \cap (D!r0 .. Count))
          /\ IsFiniteSet(OpenRequests \ (D!r0 .. Count))
      BY <2>1, FS_Difference
    <2>5. Cardinality(OpenRequests) \in Nat /\ Cardinality(OpenRequests \ (D!r0 .. Count)) \in Nat
      BY <2>1, <2>4, FS_CardinalityType
    <2>6. dispatchCount = Cardinality(OpenRequests)
      BY <1>0 DEF CountsOpen
    <2>7. dispatchCount' = Cardinality(OpenRequests \ (D!r0 .. Count))
      BY <1>3, <2>1, <2>2, <2>4, <2>6
    <2>8. CountsOpen'
      BY <2>3, <2>7 DEF CountsOpen
    <2> HIDE DEF OpenRequests
    <2>9. dispatchCount' \in 0 .. Count
      BY <1>0, <1>3, <2>1, <2>5, <2>6, <2>7
    <2> QED
      BY <2>8, <2>9
  <1>20. CrashesLate'
    <2>1. \A s \in D!Positions : log'[s].late = log[s].late
      BY <1>9, <1>10
    <2> QED
      BY <1>0, <1>3, <2>1 DEF CrashesLate
  <1>21. D!TypeOK'
    BY <1>0, <1>3, <1>11, <1>12, <1>19 DEF D!TypeOK
  <1> QED
    BY <1>14, <1>15, <1>16, <1>17, <1>18, <1>19, <1>20, <1>21 DEF DispatchInv

\* A request that cannot be read ends the message.
LEMMA ReadFailsKeeps ==
    ASSUME DispatchInv, D!ReadFails
    PROVE  DispatchInv'
  <1>1. inc.conn /\ ~inc.loc /\ D!r0 <= Count /\ thread.at # "sending" /\ amd' = amd
    BY DEF DispatchInv, IncomingSound, D!ReadFails, D!At, Fetched
  <1>2. D!Fatal(IF inc.loc THEN D!Finished(log, D!r0) ELSE log)
    BY <1>1 DEF D!ReadFails
  <1> QED
    BY <1>1, <1>2, FatalKeeps

\* The end of invoke().
LEMMA InvokedKeeps ==
    ASSUME DispatchInv, D!Invoked
    PROVE  DispatchInv'
  <1>0. /\ D!TypeOK /\ IncomingSound /\ inc \in D!IncomingRecord /\ log \in [D!Positions -> D!LogRecord]
        /\ amd' = amd /\ OneHolder /\ LocatorsPaired /\ inc.consumed \in BOOLEAN /\ thread.at \in {"invoked", "again"}
    BY DEF DispatchInv, D!TypeOK, D!Invoked, D!At, D!IncomingRecord
  <1>1. inc.conn /\ D!r0 <= Count /\ thread.at # "sending" /\ inc.cb = D!NoCallback
    BY <1>0 DEF IncomingSound, D!At, D!Invoked
  <1>2. D!r0 \in D!Positions
    BY <1>0, <1>1 DEF D!TypeOK, D!ThreadRecord, D!r0, D!Positions
  <1>3. CASE D!Answer(IF inc.loc THEN D!Finished(log, D!r0) ELSE log, inc.consumed)
    BY <1>0, <1>1, <1>3, AnswerKeeps
  <1>4. CASE inc.loc /\ D!Fatal(D!Finished(log, D!r0))
    <2>1. D!Fatal(IF inc.loc THEN D!Finished(log, D!r0) ELSE log)
      BY <1>4
    <2> QED
      BY <1>0, <1>1, <2>1, FatalKeeps
  <1>5. CASE /\ thread.at = "invoked" /\ inc.loc /\ thread.status = "ok"
             /\ log' = [D!Finished(log, D!r0) EXCEPT ![D!r0].refinished = TRUE]
             /\ D!Goes("again")
             /\ UNCHANGED <<inc, attempts, dispatchCount, crashed>>
    <2>1. /\ thread' \in D!ThreadRecord /\ thread'.req = thread.req /\ thread'.at = "again"
          /\ thread'.status = thread.status
      BY <1>0, <1>5, GoesIs
    <2>a. PICK yes \in BOOLEAN : yes = TRUE
      OBVIOUS
    <2>b. PICK n \in Nat : n = log[D!r0].finished + 1
      BY <1>0, <1>2 DEF D!LogRecord
    <2> DEFINE v == [log[D!r0] EXCEPT !.finished = n, !.refinished = yes]
    <2>2. log' = [log EXCEPT ![D!r0] = v] /\ log[D!r0] \in D!LogRecord
      BY <1>0, <1>2, <1>5, <2>a, <2>b DEF D!Finished
    <2>3. /\ v \in D!LogRecord /\ v.answers = log[D!r0].answers /\ v.located = log[D!r0].located
          /\ v.finished = log[D!r0].finished + 1 /\ v.refinished = TRUE
          /\ v.early = log[D!r0].early /\ v.late = log[D!r0].late
      BY ONLY <2>2, <2>a, <2>b DEF D!LogRecord
    <2> HIDE DEF v
    <2>4. log' \in [D!Positions -> D!LogRecord] /\ log'[D!r0] = v /\ \A s \in D!Positions : s # D!r0 => log'[s] = log[s]
      BY <1>0, <1>2, <2>2, <2>3
    <2>5. D!TypeOK'
      BY <1>0, <1>5, <2>1, <2>4 DEF D!TypeOK
    <2>6. D!r0' = D!r0 /\ thread'.at # "sending" /\ inc' = inc
      BY <1>5, <2>1 DEF D!r0
    <2>7. IncomingSound'
      BY <1>1, <1>5, <2>1, <2>3, <2>4, <2>6 DEF IncomingSound, D!At, Fetched
    <2>8. log[D!r0].located = log[D!r0].finished + 1 /\ ~log[D!r0].early
      <3>1. Owns(D!r0, D!Incoming) /\ D!Incoming \in Holders /\ LocatorOf(D!Incoming) = TRUE
        BY <1>0, <1>1, <1>5 DEF Owns, Holders, LocatorOf, D!IncomingRecord
      <3> QED
        BY <1>0, <1>2, <1>5, <3>1 DEF LocatorsPaired, Bit, D!At
    <2>9. log'[D!r0].located = log'[D!r0].finished /\ ~log'[D!r0].early /\ log'[D!r0].refinished
      BY <2>3, <2>4, <2>8
    <2>10. OneHolder' /\ LocatorsPaired' /\ LaterUntouched' /\ CallbacksSound' /\ CountsOpen' /\ CrashesLate'
      BY <1>0, <1>1, <1>2, <1>5, <2>1, <2>3, <2>4, <2>6, <2>9, OwnerKept
    <2> QED
      BY <2>5, <2>7, <2>10 DEF DispatchInv
  <1> QED
    BY <1>3, <1>4, <1>5 DEF D!Invoked, D!At

\* Every step keeps the invariant.
LEMMA DispatchStep ==
    ASSUME DispatchInv, D!Next
    PROVE  DispatchInv'
  BY ReadKeeps, ReadFailsKeeps, FindKeeps, LocateServantKeeps, NoServantKeeps, IceDispatchKeeps,
     InterceptorReturnsKeeps, ServantSyncKeeps, ServantAsyncKeeps, AsyncReturnsKeeps,
     AsyncThrowsKeeps, ThreadAsksKeeps, ThreadSendsKeeps, UserCompletesKeeps, UserAsksKeeps,
     UserSendsKeeps, InvokedAsyncKeeps, InvokedKeeps DEF D!Next

\* The instance's cardinality is that of FiniteSets.
LEMMA SameCardinality ==
    ASSUME NEW T
    PROVE  D!Cardinality(T) = Cardinality(T)
  BY DEF D!Cardinality, Cardinality

\* What the invariant says of answers.
LEMMA DispatchFollows ==
    ASSUME DispatchInv
    PROVE  D!TypeOK /\ D!OneAnswer /\ D!NoneUnanswered /\ D!LocatorPaired
  <1>1. D!OneAnswer
    <2>1. \A r \in D!Positions : log[r].answers <= 1
      BY DEF DispatchInv, OneHolder
    <2>2. dispatchCount = Cardinality({r \in D!Positions : log[r].answers = 0})
      BY DEF DispatchInv, CountsOpen
    <2> QED
      BY <2>1, <2>2, SameCardinality DEF DispatchInv, CrashesLate, D!OneAnswer
  <1>2. D!LocatorPaired
    BY DEF DispatchInv, LocatorsPaired, D!LocatorPaired
  <1>3. D!NoneUnanswered
    <2> SUFFICES ASSUME D!At("done"), ~crashed, NEW r \in D!Positions, log[r].answers # 1
                 PROVE  \E c \in Callbacks : amd[c].req = r /\ amd[c].conn
      BY DEF D!NoneUnanswered
    <2>1. D!r0 = Count + 1 /\ r <= D!r0 /\ r # D!r0
      BY DispatchAssumption DEF DispatchInv, IncomingSound, D!Positions
    <2>2. log[r].answers = 0
      BY DEF DispatchInv, OneHolder
    <2>3. PICK h \in Holders : Owns(r, h)
      BY <2>1, <2>2 DEF DispatchInv, OneHolder
    <2>4. h # D!Incoming
      BY <2>1, <2>3 DEF Owns
    <2> QED
      BY <2>3, <2>4 DEF Owns, Holders
  <1> QED
    BY <1>1, <1>2, <1>3 DEF DispatchInv

\* Steps of the other components do not touch the requests that are dispatched.
LEMMA DispatchRest ==
    ASSUME DispatchInv, UNCHANGED dispatchVars
    PROVE  DispatchInv'
  <1>1. UNCHANGED <<thread, inc, amd, attempts, dispatchCount, log, crashed>>
    BY DEF dispatchVars
  <1>2. D!r0' = D!r0 /\ D!Latest' = D!Latest /\ \A spot : D!At(spot)' <=> D!At(spot)
    BY <1>1 DEF D!r0, D!Latest, D!At
  <1>3. \A r, h : (Owns(r, h)' <=> Owns(r, h)) /\ LocatorOf(h)' = LocatorOf(h)
    BY <1>1 DEF Owns, LocatorOf, D!r0
  <1>4. D!TypeOK'
    BY <1>1 DEF DispatchInv, D!TypeOK
  <1>5. OneHolder' /\ LocatorsPaired'
    BY <1>1, <1>2, <1>3 DEF DispatchInv, OneHolder, LocatorsPaired
  <1>6. LaterUntouched' /\ CountsOpen' /\ CrashesLate'
    BY <1>1, <1>2 DEF DispatchInv, LaterUntouched, CountsOpen, CrashesLate
  <1>7. CallbacksSound'
    BY <1>1, <1>2 DEF DispatchInv, CallbacksSound, CallbackSound
  <1>8. IncomingSound'
    BY <1>1, <1>2 DEF DispatchInv, IncomingSound
  <1> QED
    BY <1>4, <1>5, <1>6, <1>7, <1>8 DEF DispatchInv

\* DispatchInv is an inductive invariant of the dispatch of requests.
THEOREM DispatchInductive == RuntimeSpec => []DispatchInv
  <1>1. RuntimeInit => DispatchInv
    BY DispatchBegins DEF RuntimeInit
  <1>2. DispatchInv /\ [RuntimeNext]_allVars => DispatchInv'
    <2> SUFFICES ASSUME DispatchInv, [RuntimeNext]_allVars PROVE DispatchInv'
      OBVIOUS
    <2>1. CASE RuntimeNext
      BY <2>1, DispatchStep, DispatchRest DEF RuntimeNext
    <2>2. CASE UNCHANGED allVars
      BY <2>2, DispatchRest DEF allVars
    <2> QED
      BY <2>1, <2>2
  <1> QED
    BY <1>1, <1>2, PTL DEF RuntimeSpec

\* Incoming::invoke(), dispatch interceptors and IncomingAsync: every request is answered
\* at most once, by somebody who owns its connection; none stays unanswered once all ended,
\* unless an interceptor's callback kept it; and a located servant is given back to its
\* locator once, before the answer.  For every number of requests in a message, every depth
\* of interceptors, every number of attempts and of callbacks.
THEOREM DispatchIsExact == RuntimeSpec => []DispatchExact
  <1>1. DispatchInv => DispatchExact
    BY DispatchFollows DEF DispatchExact
  <1> QED
    BY <1>1, DispatchInductive, PTL
=============================================================================
