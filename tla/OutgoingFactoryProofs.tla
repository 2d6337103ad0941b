----------------------- MODULE OutgoingFactoryProofs -----------------------
(***************************************************************************)
(* Proofs about OutgoingFactory, for all callers, connectors and choices   *)
(* of endpoints.  The inductive invariant IInv adds to the properties      *)
(* which callers can be where, whose fault a failure is, and to whom a     *)
(* live connection belongs; there is one lemma per action.                 *)
(***************************************************************************)
EXTENDS OutgoingFactory, FiniteSetTheorems, TLAPS

-----------------------------------------------------------------------------
(* The inductive invariant *)

Live == {"starting", "up"}
Asks == {"get", "waiting", "awake"}

\* Blocking callers wait in the monitor and asynchronous ones in lists; whoever asks has
\* connectors of its own endpoints left, and a failure has a reason.
PlacesFit ==
    \A c \in Callers :
        /\ at[c] \in {"count", "listed", "set"} => c \notin Sync
        /\ at[c] \in {"waiting", "awake"} => c \in Sync
        /\ at[c] \in Asks \cup {"listed"} => connectors[c] # {}
        /\ c \in Responsible => connectors[c] # {}
        /\ connectors[c] \subseteq Endpoints[c]
        /\ at[c] = "failed" => answer[c] \in {"failed", "destroyed"}

\* A responsible caller tries each of its connectors once.
Tries ==
    \A c \in Callers :
        /\ c \in Responsible => left[c] \subseteq connectors[c]
        /\ at[c] = "connect" => left[c] # {}
        /\ at[c] \in {"start", "connected"} => iter[c] \in connectors[c] /\ iter[c] \notin left[c]
        /\ \A k \in Connectors : conn[<<c, k>>] # "none" =>
            /\ at[c] \in {"connect", "start", "connected", "failed", "set", "done"}
            /\ c \in Responsible => k \notin left[c]

\* The endpoints that a caller does not ask for any more have failed.  After destroy() a
\* caller may have lost others too, but then it will find the factory destroyed.
Blame ==
    \A c \in Callers :
        /\ at[c] = "connect" => Endpoints[c] \subseteq failed \cup left[c]
        /\ at[c] \in {"start", "connected"} =>
            Endpoints[c] \subseteq failed \cup left[c] \cup {iter[c]}
        /\ at[c] = "failed" /\ answer[c] = "failed" => Endpoints[c] \subseteq failed
        /\ at[c] = "listed" => Endpoints[c] \subseteq failed \cup connectors[c]
        /\ at[c] \in Asks /\ ~destroyed => Endpoints[c] \subseteq failed \cup connectors[c]

\* A connection is starting only while its caller starts it, and a live connection to a
\* connector somebody is responsible for is the one that caller has just made.
Owned ==
    /\ \A x \in Connections : conn[x] = "starting" => at[x[1]] = "start" /\ iter[x[1]] = x[2]
    /\ \A c \in Responsible : \A x \in connections :
        x[2] \in connectors[c] /\ conn[x] \in Live =>
            at[c] \in {"start", "connected"} /\ x = Mine(c)

\* The factory knows every connection until it is finished and reaped.
Kept ==
    /\ \A x \in Connections : conn[x] \in {"starting", "up", "closing"} => x \in connections
    /\ \A x \in connections : conn[x] # "none"
    /\ reaper = {x \in connections : conn[x] = "finished"}
    /\ interrupted # {} => destroyed

IInv ==
    /\ TypeOK /\ OneResponsible /\ OnePerConnector /\ NoneForgotten /\ CountExact
    /\ HonestAnswers /\ FinishedIsEmpty
    /\ PlacesFit /\ Tries /\ Blame /\ Owned /\ Kept

-----------------------------------------------------------------------------
(* Lemmas on the operators and on a round of getConnection()'s loop *)


\* The asynchronous calls that are counted.
Active == {c \in Callers \ Sync : at[c] \notin {"idle", "count", "done"}}

LEMMA ActiveFinite ==
    IsFiniteSet(Active)
<1>1. Active \in SUBSET Callers
  BY DEF Active
<1> QED
  BY <1>1, FactoryAssumption, FS_Subset

\* A step that counts as many calls as before keeps the count exact.
LEMMA CountKept ==
    ASSUME CountExact, Active' = Active, pendingCount' = pendingCount
    PROVE  CountExact'
<1>1. Cardinality(Active') = Cardinality(Active)
  OBVIOUS
<1> QED
  BY <1>1 DEF CountExact, Active

\* A pending connector is one of a responsible caller.
LEMMA PendingKeys ==
    OneResponsible <=>
        /\ \A k : k \in DOMAIN pending <=> \E c \in Responsible : k \in connectors[c]
        /\ \A c, d \in Responsible : c # d => connectors[c] \cap connectors[d] = {}
  BY DEF OneResponsible

LEMMA ResponsibleStays ==
    ASSUME OneResponsible, Responsible' = Responsible, DOMAIN pending' = DOMAIN pending,
           \A d \in Responsible : connectors'[d] = connectors[d]
    PROVE  OneResponsible'
  BY DEF OneResponsible

LEMMA ResponsibleComes ==
    ASSUME OneResponsible, NEW c \in Callers, Responsible' = Responsible \cup {c},
           connectors[c] \cap DOMAIN pending = {}, connectors' = connectors,
           DOMAIN pending' = DOMAIN pending \cup connectors[c]
    PROVE  OneResponsible'
<1>1. \A d \in Responsible : connectors[c] \cap connectors[d] = {}
  BY DEF OneResponsible
<1> QED
  BY <1>1 DEF OneResponsible

LEMMA ResponsibleGoes ==
    ASSUME OneResponsible, NEW c \in Responsible, Responsible' = Responsible \ {c},
           \A d \in Responsible : connectors'[d] = connectors[d],
           DOMAIN pending' = DOMAIN pending \ connectors[c]
    PROVE  OneResponsible'
<1>1. \A k : k \in DOMAIN pending' <=> \E d \in Responsible \ {c} : k \in connectors[d]
  BY DEF OneResponsible
<1>2. \A d \in Responsible \ {c} : connectors'[d] = connectors[d]
  OBVIOUS
<1> QED
  BY <1>1, <1>2 DEF OneResponsible

\* What a round of getConnection()'s loop does: the caller is told, waits, or becomes
\* responsible for its connectors.
LEMMA LoopCases ==
    ASSUME NEW c \in Callers, Loop(c)
    PROVE  \/ /\ at' = [at EXCEPT ![c] = Told(c)]
              /\ UNCHANGED <<pending, left>>
           \/ /\ ~destroyed /\ connectors[c] \cap DOMAIN pending # {}
              /\ at' = [at EXCEPT ![c] = IF c \in Sync THEN "waiting" ELSE "listed"]
              /\ pending' = [k \in DOMAIN pending |->
                    IF k \in connectors[c] \cap DOMAIN pending /\ c \notin Sync
                    THEN pending[k] \cup {c} ELSE pending[k]]
              /\ UNCHANGED <<left, answer, given>>
           \/ /\ ~destroyed /\ connectors[c] \cap DOMAIN pending = {}
              /\ Usable(connectors[c]) = {}
              /\ at' = [at EXCEPT ![c] = "connect"]
              /\ pending' = [k \in DOMAIN pending \cup connectors[c] |->
                    IF k \in DOMAIN pending THEN pending[k] ELSE {}]
              /\ left' = [left EXCEPT ![c] = connectors[c]]
              /\ UNCHANGED <<answer, given>>
<1>1. connectors[c] \cap DOMAIN pending = {} =>
        connectors[c] \ DOMAIN pending = connectors[c]
  OBVIOUS
<1> QED
  BY <1>1 DEF Loop, AddToPending, Give, Throw

LEMMA LoopOneResponsible ==
    ASSUME TypeOK, OneResponsible, NEW c \in Callers, at[c] \in {"get", "awake"}, Loop(c),
           UNCHANGED connectors
    PROVE  OneResponsible'
<1>1. CASE at' = [at EXCEPT ![c] = Told(c)] /\ UNCHANGED pending
  <2>1. Responsible' = Responsible
    BY <1>1 DEF Responsible, Told, TypeOK
  <2> QED
    BY <2>1, <1>1, ResponsibleStays
<1>2. CASE /\ at' = [at EXCEPT ![c] = IF c \in Sync THEN "waiting" ELSE "listed"]
           /\ DOMAIN pending' = DOMAIN pending
  <2>1. Responsible' = Responsible
    BY <1>2 DEF Responsible, TypeOK
  <2> QED
    BY <2>1, <1>2, ResponsibleStays
<1>3. CASE /\ at' = [at EXCEPT ![c] = "connect"] /\ connectors[c] \cap DOMAIN pending = {}
           /\ DOMAIN pending' = DOMAIN pending \cup connectors[c]
  <2>1. Responsible' = Responsible \cup {c}
    BY <1>3 DEF Responsible, TypeOK
  <2> QED
    BY <2>1, <1>3, ResponsibleComes
<1> QED
  BY <1>1, <1>2, <1>3, LoopCases

LEMMA LoopNoneForgotten ==
    ASSUME TypeOK, NoneForgotten, NEW c \in Callers, at[c] \in {"get", "awake"}, Loop(c),
           UNCHANGED <<connectors, destroyed>>
    PROVE  NoneForgotten'
<1>1. CASE at' = [at EXCEPT ![c] = Told(c)] /\ UNCHANGED pending
  BY <1>1 DEF NoneForgotten, Told, TypeOK
<1>2. CASE /\ ~destroyed /\ connectors[c] \cap DOMAIN pending # {}
           /\ at' = [at EXCEPT ![c] = IF c \in Sync THEN "waiting" ELSE "listed"]
           /\ pending' = [k \in DOMAIN pending |->
                    IF k \in connectors[c] \cap DOMAIN pending /\ c \notin Sync
                    THEN pending[k] \cup {c} ELSE pending[k]]
  BY <1>2 DEF NoneForgotten, TypeOK
<1>3. CASE /\ at' = [at EXCEPT ![c] = "connect"] /\ connectors[c] \cap DOMAIN pending = {}
           /\ pending' = [k \in DOMAIN pending \cup connectors[c] |->
                    IF k \in DOMAIN pending THEN pending[k] ELSE {}]
  BY <1>3 DEF NoneForgotten, TypeOK
<1> QED
  BY <1>1, <1>2, <1>3, LoopCases

LEMMA LoopActive ==
    ASSUME TypeOK, PlacesFit, NEW c \in Callers, at[c] \in {"get", "awake"}, Loop(c)
    PROVE  Active' = Active
<1>1. \A d \in Callers : d # c => at'[d] = at[d]
  BY LoopCases DEF TypeOK
<1>2. at'[c] \in {Told(c), "waiting", "listed", "connect"}
  BY LoopCases DEF TypeOK
<1> QED
  BY <1>1, <1>2 DEF Active, Told

\* A caller that becomes responsible finds no live connection to its connectors.
LEMMA LoopOwned ==
    ASSUME IInv, NEW c \in Callers, at[c] \in {"get", "awake"}, Loop(c),
           UNCHANGED <<connectors, iter, conn>>, connections' \subseteq connections
    PROVE  Owned'
<1> USE DEF IInv
<1>1. \A d \in Callers \ {c} : at'[d] = at[d]
  BY LoopCases DEF TypeOK
<1>2. \A x \in Connections : conn[x] = "starting" => at'[x[1]] = "start" /\ iter[x[1]] = x[2]
  BY <1>1 DEF Owned, Connections
<1>3. ASSUME c \in Responsible', NEW x \in connections, x[2] \in connectors[c]
      PROVE  conn[x] \notin Live
  <2>1. connectors[c] \cap DOMAIN pending = {} /\ Usable(connectors[c]) = {}
    BY <1>3, LoopCases DEF Responsible, Told, TypeOK
  <2>2. conn[x] # "up"
    BY <1>3, <2>1 DEF Usable
  <2>3. ASSUME conn[x] = "starting" PROVE FALSE
    <3>1. x \in Connections /\ x[1] \in Responsible
      BY <2>3 DEF Owned, TypeOK, Connections, Responsible
    <3>2. x[2] \in connectors[x[1]]
      BY <3>1, <2>3 DEF Owned, Tries, Connections
    <3> QED
      BY <3>1, <3>2, <2>1, <1>3, PendingKeys
  <2> QED
    BY <2>2, <2>3 DEF Live
<1>4. \A d \in Responsible' : d # c => d \in Responsible
  BY <1>1 DEF Responsible
<1>5. ASSUME NEW d \in Responsible', NEW x \in connections',
             x[2] \in connectors'[d], conn'[x] \in Live
      PROVE  at'[d] \in {"start", "connected"} /\ x = Mine(d)'
  <2>1. d # c
    BY <1>3, <1>5
  <2>2. d \in Responsible /\ at'[d] = at[d]
    BY <2>1, <1>1, <1>4, <1>5 DEF Responsible
  <2> QED
    BY <2>2, <1>5 DEF Owned, Mine
<1> QED
  BY <1>2, <1>5 DEF Owned

\* create() finds the factory destroyed, a connection, or neither.
LEMMA CreateKeeps ==
    ASSUME IInv, NEW c \in Callers, Create(c)
    PROVE  IInv'
<1> USE FactoryAssumption DEF IInv
<1>1. TypeOK'
  <2>1. at' \in [Callers -> Places]
    BY DEF Create, Give, Throw, TypeOK, Places
  <2>2. /\ answer' \in [Callers -> {"none", "connection", "failed", "destroyed"}]
        /\ given' \in [Callers -> SUBSET Connections]
    BY DEF Create, Usable, Give, Throw, TypeOK
  <2> QED
    BY <2>1, <2>2 DEF Create, TypeOK
<1>2. OneResponsible'
  BY DEF Create, Usable, Give, Throw, TypeOK, Connections, OneResponsible, Responsible,
         PlacesFit, Asks, NoneForgotten
<1>3. NoneForgotten'
  BY DEF Create, Usable, Give, Throw, TypeOK, NoneForgotten, PlacesFit, OneResponsible,
         Responsible, Asks
<1>4. CountExact'
  <2>1. Active' = Active
    BY DEF Active, TypeOK, PlacesFit, NoneForgotten, Create, Usable, Give, Throw
  <2>2. pendingCount' = pendingCount
    BY DEF Create, Usable, Give, Throw
  <2> QED
    BY <2>1, <2>2, CountKept
<1>5. HonestAnswers'
  <2>1. \A d \in Callers : d # c =>
          at'[d] = at[d] /\ answer'[d] = answer[d] /\ given'[d] = given[d]
    BY DEF Create, Give, Throw, TypeOK
  <2>2. \/ at'[c] = "done" /\ answer'[c] = "destroyed" /\ destroyed
        \/ answer'[c] = "connection" /\ \A x \in given'[c] : x[2] \in Endpoints[c]
        \/ at'[c] \in {"resolve", "count"} /\ answer'[c] = answer[c] /\ given'[c] = given[c]
    BY DEF Create, Usable, Give, Throw, TypeOK
  <2>3. UNCHANGED <<destroyed, failed>>
    BY DEF Create
  <2> QED
    BY <2>1, <2>2, <2>3 DEF HonestAnswers
<1>6. PlacesFit'
  BY DEF Create, Usable, Give, Throw, TypeOK, PlacesFit, Responsible, Asks, NoneForgotten
<1>7. Tries'
  BY DEF Create, Usable, Give, Throw, TypeOK, Connections, Tries, Responsible, Mine,
         NoneForgotten, PlacesFit, Asks
<1>8. Blame'
  BY DEF Create, Usable, Give, Throw, TypeOK, Blame, Responsible, Asks, PlacesFit, Tries,
         NoneForgotten
<1>9. Owned'
  BY DEF Create, Usable, Give, Throw, TypeOK, Connections, Owned, Mine, Responsible, Live,
         Kept, Tries, NoneForgotten, OneResponsible, PlacesFit, Asks
<1>10. OnePerConnector' /\ FinishedIsEmpty' /\ Kept'
  BY DEF Create, OnePerConnector, FinishedIsEmpty, Kept
<1> QED
  BY <1>1, <1>2, <1>3, <1>4, <1>5, <1>6, <1>7, <1>8, <1>9, <1>10

\* The call counts itself.
LEMMA IncPendingConnectCountKeeps ==
    ASSUME IInv, NEW c \in Callers, IncPendingConnectCount(c)
    PROVE  IInv'
<1> USE FactoryAssumption DEF IInv
<1>1. TypeOK'
  BY DEF IncPendingConnectCount, Throw, TypeOK, Places
<1>2. OneResponsible'
  BY DEF IncPendingConnectCount, Throw, TypeOK, Connections, OneResponsible, Responsible,
         PlacesFit, Asks, NoneForgotten
<1>3. NoneForgotten'
  BY DEF IncPendingConnectCount, Throw, TypeOK, NoneForgotten, PlacesFit, OneResponsible,
         Responsible, Asks
<1>4. CountExact'
  <2>1. CASE destroyed
    <3>1. Active' = Active
      BY <2>1 DEF IncPendingConnectCount, Throw, Active, TypeOK
    <3> QED
      BY <2>1, <3>1, CountKept DEF IncPendingConnectCount
  <2>2. CASE ~destroyed
    <3>1. Active' = Active \cup {c} /\ c \notin Active
      BY <2>2 DEF IncPendingConnectCount, Active, TypeOK, PlacesFit
    <3>2. Cardinality(Active') = Cardinality(Active) + 1
      BY <3>1, ActiveFinite, FS_AddElement
    <3> QED
      BY <2>2, <3>2 DEF IncPendingConnectCount, CountExact, Active
  <2> QED
    BY <2>1, <2>2
<1>5. HonestAnswers'
  BY DEF IncPendingConnectCount, Throw, TypeOK, Connections, HonestAnswers, PlacesFit,
         Tries, Blame, Responsible, NoneForgotten, Asks, Mine
<1>6. FinishedIsEmpty'
  BY DEF IncPendingConnectCount, Throw, TypeOK, Connections, FinishedIsEmpty, Kept,
         PlacesFit, OneResponsible, Responsible
<1>7. PlacesFit'
  BY DEF IncPendingConnectCount, Throw, TypeOK, PlacesFit, Responsible, Asks, NoneForgotten
<1>8. Tries'
  BY DEF IncPendingConnectCount, Throw, TypeOK, Connections, Tries, Responsible, Mine,
         NoneForgotten, PlacesFit, Asks
<1>9. Blame'
  BY DEF IncPendingConnectCount, Throw, TypeOK, Blame, Responsible, Asks, PlacesFit, Tries,
         NoneForgotten
<1>10. Owned'
  BY DEF IncPendingConnectCount, Throw, TypeOK, Connections, Owned, Mine, Responsible, Live,
         Kept, Tries, NoneForgotten, OneResponsible, PlacesFit, Asks
<1>11. OnePerConnector' /\ Kept'
  BY DEF IncPendingConnectCount, OnePerConnector, Kept
<1> QED
  BY <1>1, <1>2, <1>3, <1>4, <1>5, <1>6, <1>7, <1>8, <1>9, <1>10, <1>11

\* What does not resolve has failed.
LEMMA ResolveKeeps ==
    ASSUME IInv, NEW c \in Callers, Resolve(c)
    PROVE  IInv'
<1> USE FactoryAssumption DEF IInv
<1>1. TypeOK'
  <2>1. connectors' \in [Callers -> SUBSET Connectors] /\ failed' \subseteq Connectors
    <3>1. PICK ks \in SUBSET Endpoints[c] :
            /\ connectors' = [connectors EXCEPT ![c] = ks]
            /\ failed' = failed \cup (Endpoints[c] \ ks)
      BY DEF Resolve
    <3>2. Endpoints[c] \subseteq Connectors
      OBVIOUS
    <3> QED
      BY <3>1, <3>2 DEF TypeOK
  <2>2. /\ at' \in [Callers -> Places]
        /\ answer' \in [Callers -> {"none", "connection", "failed", "destroyed"}]
        /\ given' \in [Callers -> SUBSET Connections]
    BY DEF Resolve, Throw, Told, TypeOK, Places
  <2> QED
    BY <2>1, <2>2 DEF Resolve, TypeOK
<1>2. OneResponsible'
  BY DEF Resolve, Throw, Told, TypeOK, Connections, OneResponsible, Responsible, PlacesFit,
         Asks, NoneForgotten
<1>3. NoneForgotten'
  BY DEF Resolve, Throw, Told, TypeOK, NoneForgotten, PlacesFit, OneResponsible,
         Responsible, Asks
<1>4. CountExact'
  <2>1. Active' = Active
    BY DEF Active, TypeOK, PlacesFit, NoneForgotten, Resolve, Throw, Told
  <2>2. pendingCount' = pendingCount
    BY DEF Resolve, Throw, Told
  <2> QED
    BY <2>1, <2>2, CountKept
<1>5. HonestAnswers'
  BY DEF Resolve, Throw, Told, TypeOK, Connections, HonestAnswers, PlacesFit, Tries, Blame,
         Responsible, NoneForgotten, Asks, Mine
<1>6. PlacesFit'
  BY DEF Resolve, Throw, Told, TypeOK, PlacesFit, Responsible, Asks, NoneForgotten
<1>7. Tries'
  BY DEF Resolve, Throw, Told, TypeOK, Connections, Tries, Responsible, Mine, NoneForgotten,
         PlacesFit, Asks
<1>8. Blame'
  BY DEF Resolve, Throw, Told, TypeOK, Blame, Responsible, Asks, PlacesFit, Tries,
         NoneForgotten
<1>9. Owned'
  BY DEF Resolve, Throw, Told, TypeOK, Connections, Owned, Mine, Responsible, Live, Kept,
         Tries, NoneForgotten, OneResponsible, PlacesFit, Asks
<1>10. OnePerConnector' /\ FinishedIsEmpty' /\ Kept'
  BY DEF Resolve, OnePerConnector, FinishedIsEmpty, Kept
<1> QED
  BY <1>1, <1>2, <1>3, <1>4, <1>5, <1>6, <1>7, <1>8, <1>9, <1>10

\* getConnection() only forgets connections that are finished.
LEMMA GetConnectionKeeps ==
    ASSUME IInv, NEW c \in Callers, GetConnection(c)
    PROVE  IInv'
<1> USE FactoryAssumption DEF IInv
<1>1. TypeOK'
  <2>1. at' \in [Callers -> Places]
    BY DEF GetConnection, Loop, AddToPending, Give, Throw, Told, TypeOK, Places
  <2>2. left' \in [Callers -> SUBSET Connectors]
    BY DEF GetConnection, Loop, AddToPending, TypeOK
  <2>3. /\ DOMAIN pending' \subseteq Connectors
        /\ \A k \in DOMAIN pending' : pending'[k] \subseteq Callers \ Sync
    BY DEF GetConnection, Loop, AddToPending, TypeOK
  <2>4. /\ answer' \in [Callers -> {"none", "connection", "failed", "destroyed"}]
        /\ given' \in [Callers -> SUBSET Connections]
    BY DEF GetConnection, Loop, Give, Throw, Usable, TypeOK
  <2> QED
    BY <2>1, <2>2, <2>3, <2>4 DEF GetConnection, TypeOK
<1>2. OneResponsible'
  BY LoopOneResponsible DEF GetConnection
<1>3. OnePerConnector'
  BY DEF GetConnection, Loop, AddToPending, Usable, Give, Throw, Told, TypeOK, Connections,
         OnePerConnector, Owned, Mine, Responsible, Tries, Live, Kept
<1>4. NoneForgotten'
  BY LoopNoneForgotten DEF GetConnection
<1>5. CountExact'
  BY LoopActive, CountKept DEF GetConnection
<1>6. HonestAnswers'
  BY DEF GetConnection, Loop, AddToPending, Usable, Give, Throw, Told, TypeOK, Connections,
         HonestAnswers, PlacesFit, Tries, Blame, Responsible, NoneForgotten, Asks, Mine
<1>7. FinishedIsEmpty'
  BY DEF GetConnection, Loop, AddToPending, Usable, Give, Throw, Told, TypeOK, Connections,
         FinishedIsEmpty, Kept, PlacesFit, OneResponsible, Responsible
<1>8. PlacesFit'
  BY DEF GetConnection, Loop, AddToPending, Usable, Give, Throw, Told, TypeOK, PlacesFit,
         Responsible, Asks, NoneForgotten
<1>9. Tries'
  BY DEF GetConnection, Loop, AddToPending, Usable, Give, Throw, Told, TypeOK, Connections,
         Tries, Responsible, Mine, NoneForgotten, PlacesFit, Asks
<1>10. Blame'
  BY DEF GetConnection, Loop, AddToPending, Usable, Give, Throw, Told, TypeOK, Blame,
         Responsible, Asks, PlacesFit, Tries, NoneForgotten
<1>11. Owned'
  BY LoopOwned DEF GetConnection
<1>12. Kept'
  BY DEF GetConnection, Loop, AddToPending, Usable, Give, Throw, Told, TypeOK, Connections,
         Kept, Tries, FinishedIsEmpty, OneResponsible, Responsible, PlacesFit, Mine
<1> QED
  BY <1>1, <1>2, <1>3, <1>4, <1>5, <1>6, <1>7, <1>8, <1>9, <1>10, <1>11, <1>12

\* A notified caller is in the loop again.
LEMMA WakeKeeps ==
    ASSUME IInv, NEW c \in Callers, Wake(c)
    PROVE  IInv'
<1> USE FactoryAssumption DEF IInv
<1>1. TypeOK'
  <2>1. at' \in [Callers -> Places]
    BY DEF Wake, Loop, AddToPending, Give, Throw, Told, TypeOK, Places
  <2>2. left' \in [Callers -> SUBSET Connectors]
    BY DEF Wake, Loop, AddToPending, TypeOK
  <2>3. /\ DOMAIN pending' \subseteq Connectors
        /\ \A k \in DOMAIN pending' : pending'[k] \subseteq Callers \ Sync
    BY DEF Wake, Loop, AddToPending, TypeOK
  <2>4. /\ answer' \in [Callers -> {"none", "connection", "failed", "destroyed"}]
        /\ given' \in [Callers -> SUBSET Connections]
    BY DEF Wake, Loop, Give, Throw, Usable, TypeOK
  <2> QED
    BY <2>1, <2>2, <2>3, <2>4 DEF Wake, TypeOK
<1>2. OneResponsible'
  BY LoopOneResponsible DEF Wake
<1>3. NoneForgotten'
  BY LoopNoneForgotten DEF Wake
<1>4. CountExact'
  BY LoopActive, CountKept DEF Wake
<1>5. HonestAnswers'
  BY DEF Wake, Loop, AddToPending, Usable, Give, Throw, Told, TypeOK, Connections,
         HonestAnswers, PlacesFit, Tries, Blame, Responsible, NoneForgotten, Asks, Mine
<1>6. FinishedIsEmpty'
  BY DEF Wake, Loop, AddToPending, Usable, Give, Throw, Told, TypeOK, Connections,
         FinishedIsEmpty, Kept, PlacesFit, OneResponsible, Responsible
<1>7. PlacesFit'
  BY DEF Wake, Loop, AddToPending, Usable, Give, Throw, Told, TypeOK, PlacesFit,
         Responsible, Asks, NoneForgotten
<1>8. Tries'
  BY DEF Wake, Loop, AddToPending, Usable, Give, Throw, Told, TypeOK, Connections, Tries,
         Responsible, Mine, NoneForgotten, PlacesFit, Asks
<1>9. Blame'
  BY DEF Wake, Loop, AddToPending, Usable, Give, Throw, Told, TypeOK, Blame, Responsible,
         Asks, PlacesFit, Tries, NoneForgotten
<1>10. Owned'
  BY LoopOwned DEF Wake
<1>11. OnePerConnector' /\ Kept'
  BY DEF Wake, OnePerConnector, Kept
<1> QED
  BY <1>1, <1>2, <1>3, <1>4, <1>5, <1>6, <1>7, <1>8, <1>9, <1>10, <1>11

\* A connection is only started where there is none: c is responsible for its connector
\* and has not tried it yet.
LEMMA NextConnectorKeeps ==
    ASSUME IInv, NEW c \in Callers, NextConnector(c)
    PROVE  IInv'
<1> USE FactoryAssumption DEF IInv
<1>1. TypeOK'
  <2>1. /\ left' \in [Callers -> SUBSET Connectors]
        /\ iter' \in [Callers -> Connectors \cup {None}]
        /\ failed' \subseteq Connectors
    BY DEF NextConnector, TryNext, TypeOK
  <2>2. /\ at' \in [Callers -> Places]
        /\ answer' \in [Callers -> {"none", "connection", "failed", "destroyed"}]
        /\ given' \in [Callers -> SUBSET Connections]
    BY DEF NextConnector, TryNext, Throw, TypeOK, Places
  <2>3. \A k \in left[c] : <<c, k>> \in Connections
    BY DEF TypeOK, Connections
  <2>4. /\ connections' \subseteq Connections
        /\ conn' \in [Connections -> {"none", "starting", "up", "closing", "finished"}]
    BY <2>3 DEF NextConnector, TypeOK
  <2> QED
    BY <2>1, <2>2, <2>4 DEF NextConnector, TypeOK
<1>2. OneResponsible'
  <2>1. Responsible' = Responsible
    BY DEF Responsible, TypeOK, PlacesFit, NoneForgotten, NextConnector, TryNext, Throw
  <2> QED
    BY <2>1, ResponsibleStays DEF NextConnector, TryNext, Throw
<1>3. OnePerConnector'
  BY DEF NextConnector, TryNext, Throw, TypeOK, Connections, OnePerConnector, Owned, Mine,
         Responsible, Tries, Live, Kept
<1>4. NoneForgotten'
  BY DEF NextConnector, TryNext, Throw, TypeOK, NoneForgotten, PlacesFit, OneResponsible,
         Responsible, Asks
<1>5. CountExact'
  <2>1. Active' = Active
    BY DEF Active, TypeOK, PlacesFit, NoneForgotten, NextConnector, TryNext, Throw
  <2>2. pendingCount' = pendingCount
    BY DEF NextConnector, TryNext, Throw
  <2> QED
    BY <2>1, <2>2, CountKept
<1>6. HonestAnswers'
  BY DEF NextConnector, TryNext, Throw, TypeOK, Connections, HonestAnswers, PlacesFit,
         Tries, Blame, Responsible, NoneForgotten, Asks, Mine
<1>7. FinishedIsEmpty'
  BY DEF NextConnector, TryNext, Throw, TypeOK, Connections, FinishedIsEmpty, Kept,
         PlacesFit, OneResponsible, Responsible
<1>8. PlacesFit'
  BY DEF NextConnector, TryNext, Throw, TypeOK, PlacesFit, Responsible, Asks, NoneForgotten
<1>9. Tries'
  BY DEF NextConnector, TryNext, Throw, TypeOK, Connections, Tries, Responsible, Mine,
         NoneForgotten, PlacesFit, Asks
<1>10. Blame'
  BY DEF NextConnector, TryNext, Throw, TypeOK, Blame, Responsible, Asks, PlacesFit, Tries,
         NoneForgotten
<1>11. Owned'
  BY DEF NextConnector, TryNext, Throw, TypeOK, Connections, Owned, Mine, Responsible, Live,
         Kept, Tries, NoneForgotten, OneResponsible, PlacesFit, Asks
<1>12. Kept'
  <2>1. PICK k \in left[c] :
          \/ UNCHANGED <<connections, conn>>
          \/ /\ connections' = connections \cup {<<c, k>>}
             /\ conn' = [conn EXCEPT ![<<c, k>>] = "starting"]
    BY DEF NextConnector
  <2>2. <<c, k>> \in Connections /\ c \in Responsible
    BY DEF TypeOK, Connections, NextConnector, Responsible
  <2>3. conn[<<c, k>>] = "none"
    BY <2>1, <2>2 DEF Tries, TypeOK
  <2>4. UNCHANGED <<reaper, interrupted, destroyed>>
    BY DEF NextConnector
  <2> QED
    BY SMTT(30), <2>1, <2>2, <2>3, <2>4 DEF Kept, TypeOK
<1> QED
  BY <1>1, <1>2, <1>3, <1>4, <1>5, <1>6, <1>7, <1>8, <1>9, <1>10, <1>11, <1>12

\* A connection of c is up.
LEMMA ValidatedKeeps ==
    ASSUME IInv, NEW c \in Callers, Validated(c)
    PROVE  IInv'
<1> USE FactoryAssumption DEF IInv
<1>1. TypeOK'
  BY DEF Validated, Mine, TypeOK, Places, Connections
<1>2. OneResponsible'
  BY DEF Validated, Mine, TypeOK, Connections, OneResponsible, Responsible, PlacesFit, Asks,
         NoneForgotten
<1>3. OnePerConnector'
  BY DEF Validated, Mine, TypeOK, Connections, OnePerConnector, Owned, Responsible, Tries,
         Live, Kept
<1>4. NoneForgotten'
  BY DEF Validated, Mine, TypeOK, NoneForgotten, PlacesFit, OneResponsible, Responsible,
         Asks
<1>5. CountExact'
  BY DEF Validated, Mine, TypeOK, CountExact, PlacesFit, NoneForgotten
<1>6. HonestAnswers'
  BY DEF Validated, Mine, TypeOK, Connections, HonestAnswers, PlacesFit, Tries, Blame,
         Responsible, NoneForgotten, Asks
<1>7. FinishedIsEmpty'
  BY DEF Validated, Mine, TypeOK, Connections, FinishedIsEmpty, Kept, PlacesFit,
         OneResponsible, Responsible
<1>8. PlacesFit'
  BY DEF Validated, Mine, TypeOK, PlacesFit, Responsible, Asks, NoneForgotten
<1>9. Tries'
  BY DEF Validated, Mine, TypeOK, Connections, Tries, Responsible, NoneForgotten, PlacesFit,
         Asks
<1>10. Blame'
  BY DEF Validated, Mine, TypeOK, Blame, Responsible, Asks, PlacesFit, Tries, NoneForgotten
<1>11. Owned'
  BY DEF Validated, Mine, TypeOK, Connections, Owned, Responsible, Live, Kept, Tries,
         NoneForgotten, OneResponsible, PlacesFit, Asks
<1>12. Kept'
  BY ZenonT(60) DEF Validated, Mine, TypeOK, Connections, Kept, Tries, FinishedIsEmpty,
     OneResponsible,
         Responsible, PlacesFit
<1> QED
  BY <1>1, <1>2, <1>3, <1>4, <1>5, <1>6, <1>7, <1>8, <1>9, <1>10, <1>11, <1>12

\* A blocking caller sees it.
LEMMA StartedKeeps ==
    ASSUME IInv, NEW c \in Callers, Started(c)
    PROVE  IInv'
<1> USE FactoryAssumption DEF IInv
<1>1. TypeOK'
  BY DEF Started, Mine, TypeOK, Places, Connections
<1>2. OneResponsible'
  BY DEF Started, Mine, TypeOK, Connections, OneResponsible, Responsible, PlacesFit, Asks,
         NoneForgotten
<1>3. NoneForgotten'
  BY DEF Started, Mine, TypeOK, NoneForgotten, PlacesFit, OneResponsible, Responsible, Asks
<1>4. CountExact'
  BY DEF Started, Mine, TypeOK, CountExact, PlacesFit, NoneForgotten
<1>5. HonestAnswers'
  BY DEF Started, Mine, TypeOK, Connections, HonestAnswers, PlacesFit, Tries, Blame,
         Responsible, NoneForgotten, Asks
<1>6. PlacesFit'
  BY DEF Started, Mine, TypeOK, PlacesFit, Responsible, Asks, NoneForgotten
<1>7. Tries'
  BY DEF Started, Mine, TypeOK, Connections, Tries, Responsible, NoneForgotten, PlacesFit,
         Asks
<1>8. Blame'
  BY DEF Started, Mine, TypeOK, Blame, Responsible, Asks, PlacesFit, Tries, NoneForgotten
<1>9. Owned'
  <2>1. Mine(c) \in Connections /\ conn[Mine(c)] = "up"
    BY DEF Started, Mine, Tries, TypeOK, Connections
  <2>2. \A x \in Connections : conn[x] = "starting" => x[1] # c
    BY <2>1 DEF Owned, Mine, Connections
  <2>3. \A d \in Callers : d # c => at'[d] = at[d]
    BY DEF Started, TypeOK
  <2>4. c \in Responsible /\ at[c] = "start" /\ at'[c] = "connected" /\ Responsible' = Responsible
    BY DEF Started, Responsible, TypeOK
  <2>5. UNCHANGED <<connections, connectors, conn, iter>>
    BY DEF Started
  <2> QED
    BY <2>2, <2>3, <2>4, <2>5 DEF Owned, Mine, Connections, Responsible
<1>10. OnePerConnector' /\ FinishedIsEmpty' /\ Kept'
  BY DEF Started, OnePerConnector, FinishedIsEmpty, Kept
<1> QED
  BY <1>1, <1>2, <1>3, <1>4, <1>5, <1>6, <1>7, <1>8, <1>9, <1>10

\* Only the caller's own connection can have been live.
LEMMA StartFailedKeeps ==
    ASSUME IInv, NEW c \in Callers, StartFailed(c)
    PROVE  IInv'
<1> USE FactoryAssumption DEF IInv
<1>1. TypeOK'
  <2>1. iter[c] \in Connectors
    BY DEF StartFailed, Tries, TypeOK
  <2>2. /\ at' \in [Callers -> Places]
        /\ answer' \in [Callers -> {"none", "connection", "failed", "destroyed"}]
        /\ given' \in [Callers -> SUBSET Connections]
    BY DEF StartFailed, TryNext, Throw, TypeOK, Places
  <2>3. failed' \subseteq Connectors
    BY <2>1 DEF StartFailed, TryNext, TypeOK
  <2> QED
    BY <2>2, <2>3 DEF StartFailed, TypeOK
<1>2. OneResponsible'
  <2>1. Responsible' = Responsible
    BY DEF Responsible, TypeOK, PlacesFit, NoneForgotten, StartFailed, Mine, TryNext, Throw
  <2> QED
    BY <2>1, ResponsibleStays DEF StartFailed, Mine, TryNext, Throw
<1>3. NoneForgotten'
  BY DEF StartFailed, Mine, TryNext, Throw, TypeOK, NoneForgotten, PlacesFit,
         OneResponsible, Responsible, Asks
<1>4. CountExact'
  BY ZenonT(60) DEF StartFailed, Mine, TryNext, Throw, TypeOK, CountExact, PlacesFit,
     NoneForgotten
<1>5. HonestAnswers'
  <2>1. at'[c] \in {"connect", "failed"} /\ \A d \in Callers : d # c => at'[d] = at[d]
    BY DEF StartFailed, TryNext, Throw, TypeOK
  <2>2. \A d \in Callers : d # c => answer'[d] = answer[d]
    BY DEF StartFailed, TryNext, Throw, TypeOK
  <2>3. answer'[c] \in {answer[c], "failed", "destroyed"}
        /\ (answer'[c] = "destroyed" => answer[c] = "destroyed" \/ Mine(c) \in interrupted)
    BY DEF StartFailed, TryNext, Throw, TypeOK
  <2>4. UNCHANGED <<given, destroyed>> /\ failed \subseteq failed'
    BY DEF StartFailed, TryNext, Throw
  <2> QED
    BY <2>1, <2>2, <2>3, <2>4 DEF HonestAnswers, Kept
<1>6. PlacesFit'
  BY DEF StartFailed, Mine, TryNext, Throw, TypeOK, PlacesFit, Responsible, Asks,
         NoneForgotten
<1>7. Tries'
  BY DEF StartFailed, Mine, TryNext, Throw, TypeOK, Connections, Tries, Responsible,
         NoneForgotten, PlacesFit, Asks
<1>8. Blame'
  BY DEF StartFailed, Mine, TryNext, Throw, TypeOK, Blame, Responsible, Asks, PlacesFit,
         Tries, NoneForgotten
<1>9. Owned'
  <2>1. Mine(c) \in Connections /\ conn[Mine(c)] \in {"closing", "finished"}
    BY DEF StartFailed, Mine, Tries, TypeOK, Connections
  <2>2. \A x \in Connections : conn[x] = "starting" => x[1] # c
    BY <2>1 DEF Owned, Mine, Connections
  <2>3. \A d \in Callers : d # c => at'[d] = at[d]
    BY DEF StartFailed, TryNext, Throw, TypeOK
  <2>4. c \in Responsible /\ Responsible' = Responsible
    BY DEF StartFailed, TryNext, Throw, Responsible, TypeOK
  <2>5. UNCHANGED <<connections, connectors, conn, iter>>
    BY DEF StartFailed
  <2>6. \A x \in connections : x[2] \in connectors[c] => conn[x] \notin Live
    BY <2>1, <2>4 DEF Owned, Live
  <2>7. \A x \in Connections : conn[x] = "starting" => at'[x[1]] = "start" /\ iter[x[1]] = x[2]
    BY <2>2, <2>3 DEF Owned, Connections
  <2>8. ASSUME NEW d \in Responsible, NEW x \in connections, x[2] \in connectors[d],
               conn[x] \in Live
        PROVE  at'[d] \in {"start", "connected"} /\ x = Mine(d)
    <3>1. d # c
      BY <2>6, <2>8
    <3> QED
      BY <3>1, <2>3, <2>8 DEF Owned, Responsible
  <2> QED
    BY <2>4, <2>5, <2>7, <2>8 DEF Owned, Mine
<1>10. OnePerConnector' /\ FinishedIsEmpty' /\ Kept'
  BY DEF StartFailed, OnePerConnector, FinishedIsEmpty, Kept
<1> QED
  BY <1>1, <1>2, <1>3, <1>4, <1>5, <1>6, <1>7, <1>8, <1>9, <1>10

\* The listed callbacks leave all lists, and the responsible caller its connectors.
LEMMA FinishConnectedKeeps ==
    ASSUME IInv, NEW c \in Callers, FinishConnected(c)
    PROVE  IInv'
<1> USE FactoryAssumption DEF IInv
<1>1. TypeOK'
  <2>1. iter[c] \in Connectors /\ Mine(c) \in Connections
    BY DEF FinishConnected, Tries, TypeOK, Mine, Connections
  <2>2. /\ at' \in [Callers -> Places]
        /\ answer' \in [Callers -> {"none", "connection", "failed", "destroyed"}]
    BY DEF FinishConnected, Told, Notified, TypeOK, Places
  <2>3. given' \in [Callers -> SUBSET Connections]
    BY <2>1 DEF FinishConnected, TypeOK
  <2>4. /\ DOMAIN pending' \subseteq Connectors
        /\ \A k \in DOMAIN pending' : pending'[k] \subseteq Callers \ Sync
    BY DEF FinishConnected, TypeOK
  <2> QED
    BY <2>2, <2>3, <2>4 DEF FinishConnected, NotifyWaiter, TypeOK
<1>2. OneResponsible'
  <2>1. Responsible' = Responsible \ {c}
    BY DEF Responsible, TypeOK, PlacesFit, NoneForgotten, FinishConnected, Listed, Told,
           Notified, NotifyWaiter, Mine
  <2>2. c \in Responsible
    BY DEF Responsible, FinishConnected, Listed, Told, Notified, NotifyWaiter, Mine
  <2>3. \A d \in Responsible : connectors'[d] = connectors[d]
    BY DEF Responsible, TypeOK, NoneForgotten, FinishConnected, Listed, Told, Notified,
           NotifyWaiter, Mine
  <2>4. DOMAIN pending' = DOMAIN pending \ connectors[c]
    BY DEF FinishConnected, Listed, Told, Notified, NotifyWaiter, Mine
  <2> QED
    BY <2>1, <2>2, <2>3, <2>4, ResponsibleGoes
<1>3. NoneForgotten'
  <2> DEFINE all == Listed(connectors[c])
  <2> SUFFICES ASSUME NEW d \in Callers
               PROVE  /\ at'[d] # "waiting"
                      /\ at'[d] = "listed" => \E k \in DOMAIN pending' : d \in pending'[k]
                      /\ \A k \in DOMAIN pending' :
                            d \in pending'[k] => at'[d] = "listed" /\ k \in connectors[d]
    BY DEF NoneForgotten, FinishConnected
  <2>1. /\ DOMAIN pending' = DOMAIN pending \ connectors[c]
        /\ \A k \in DOMAIN pending' : pending'[k] = pending[k] \ all
    BY DEF FinishConnected
  <2>2. d \in all <=> \E k \in connectors[c] \cap DOMAIN pending : d \in pending[k]
    BY DEF Listed
  <2>3. at'[d] # "waiting" /\ (at'[d] = "listed" => at[d] = "listed" /\ d \notin all)
    BY DEF FinishConnected, Told, Notified
  <2>4. ASSUME at[d] = "listed", d \notin all
        PROVE  at'[d] = "listed"
    BY <2>4 DEF FinishConnected, Notified
  <2> QED
    BY <2>1, <2>2, <2>3, <2>4 DEF NoneForgotten
<1>4. CountExact'
  <2>1. Active' = Active
    BY DEF Active, TypeOK, PlacesFit, NoneForgotten, FinishConnected, Listed, Told,
           Notified, NotifyWaiter, Mine
  <2>2. pendingCount' = pendingCount
    BY DEF FinishConnected, Listed, Told, Notified, NotifyWaiter, Mine
  <2> QED
    BY <2>1, <2>2, CountKept
<1>5. HonestAnswers'
  BY DEF FinishConnected, Listed, Told, Notified, NotifyWaiter, Mine, TypeOK, Connections,
         HonestAnswers, PlacesFit, Tries, Blame, Responsible, NoneForgotten, Asks
<1>6. FinishedIsEmpty'
  BY DEF FinishConnected, Listed, Told, Notified, NotifyWaiter, Mine, TypeOK, Connections,
         FinishedIsEmpty, Kept, PlacesFit, OneResponsible, Responsible
<1>7. PlacesFit'
  BY DEF FinishConnected, Listed, Told, Notified, NotifyWaiter, Mine, TypeOK, PlacesFit,
         Responsible, Asks, NoneForgotten
<1>8. Tries'
  BY DEF FinishConnected, Listed, Told, Notified, NotifyWaiter, Mine, TypeOK, Connections,
         Tries, Responsible, NoneForgotten, PlacesFit, Asks
<1>9. Blame'
  BY DEF FinishConnected, Listed, Told, Notified, NotifyWaiter, Mine, TypeOK, Blame,
         Responsible, Asks, PlacesFit, Tries, NoneForgotten
<1>10. Owned'
  <2>1. \A d \in Callers : at[d] = "start" => at'[d] = "start"
    BY DEF NoneForgotten, TypeOK, FinishConnected, Listed, Told, Notified, NotifyWaiter,
           Mine
  <2>2. \A d \in Responsible' :
          d \in Responsible /\ at'[d] = at[d] /\ connectors'[d] = connectors[d]
    BY DEF Responsible, NoneForgotten, TypeOK, FinishConnected, Listed, Told, Notified,
           NotifyWaiter, Mine
  <2>3. UNCHANGED <<connections, conn, iter>>
    BY DEF FinishConnected, Listed, Told, Notified, NotifyWaiter, Mine
  <2> QED
    BY <2>1, <2>2, <2>3 DEF Owned, Mine, TypeOK, Connections
<1>11. OnePerConnector' /\ Kept'
  BY DEF FinishConnected, OnePerConnector, Kept
<1> QED
  BY <1>1, <1>2, <1>3, <1>4, <1>5, <1>6, <1>7, <1>8, <1>9, <1>10, <1>11

\* Callbacks that go on have lost connectors that failed, unless the factory is destroyed.
LEMMA FinishFailedKeeps ==
    ASSUME IInv, NEW c \in Callers, FinishFailed(c)
    PROVE  IInv'
<1> USE FactoryAssumption DEF IInv
<1>1. TypeOK'
  BY DEF FinishFailed, Listed, Told, Notified, NotifyWaiter, TypeOK, Places, Connections
<1>2. OneResponsible'
  <2>1. Responsible' = Responsible \ {c}
    BY DEF Responsible, TypeOK, PlacesFit, NoneForgotten, FinishFailed, Listed, Told,
           Notified, NotifyWaiter
  <2>2. c \in Responsible
    BY DEF Responsible, FinishFailed, Listed, Told, Notified, NotifyWaiter
  <2>3. \A d \in Responsible : connectors'[d] = connectors[d]
    BY DEF Responsible, TypeOK, NoneForgotten, FinishFailed, Listed, Told, Notified,
           NotifyWaiter
  <2>4. DOMAIN pending' = DOMAIN pending \ connectors[c]
    BY DEF FinishFailed, Listed, Told, Notified, NotifyWaiter
  <2> QED
    BY <2>1, <2>2, <2>3, <2>4, ResponsibleGoes
<1>3. NoneForgotten'
  <2> DEFINE all  == Listed(connectors[c])
             with == {d \in all : connectors[d] \subseteq connectors[c]}
  <2> SUFFICES ASSUME NEW d \in Callers
               PROVE  /\ at'[d] # "waiting"
                      /\ at'[d] = "listed" => \E k \in DOMAIN pending' : d \in pending'[k]
                      /\ \A k \in DOMAIN pending' :
                            d \in pending'[k] => at'[d] = "listed" /\ k \in connectors'[d]
    BY DEF NoneForgotten
  <2>1. /\ DOMAIN pending' = DOMAIN pending \ connectors[c]
        /\ \A k \in DOMAIN pending' : pending'[k] = pending[k] \ (all \ with)
    BY DEF FinishFailed
  <2>2. d \in all <=> \E k \in connectors[c] \cap DOMAIN pending : d \in pending[k]
    BY DEF Listed
  <2>3. at'[d] # "waiting" /\ (at'[d] = "listed" => at[d] = "listed" /\ d \notin all)
    BY DEF FinishFailed, Told, Notified
  <2>4. ASSUME at[d] = "listed", d \notin all
        PROVE  at'[d] = "listed" /\ connectors'[d] = connectors[d]
    BY <2>4 DEF FinishFailed, Notified
  <2>5. ASSUME NEW k \in DOMAIN pending', d \in pending'[k]
        PROVE  at'[d] = "listed" /\ k \in connectors'[d]
    <3>1. d \in pending[k] /\ at[d] = "listed" /\ k \in connectors[d] /\ k \notin connectors[c]
      BY <2>1, <2>5 DEF NoneForgotten
    <3>2. d \notin all
      BY <3>1, <2>1, <2>5
    <3> QED
      BY <3>1, <3>2, <2>4
  <2> QED
    BY <2>1, <2>2, <2>3, <2>5 DEF NoneForgotten
<1>4. CountExact'
  <2>1. Active' = Active
    BY DEF Active, TypeOK, PlacesFit, NoneForgotten, FinishFailed, Listed, Told, Notified,
           NotifyWaiter
  <2>2. pendingCount' = pendingCount
    BY DEF FinishFailed, Listed, Told, Notified, NotifyWaiter
  <2> QED
    BY <2>1, <2>2, CountKept
<1>5. HonestAnswers'
  BY DEF FinishFailed, Listed, Told, Notified, NotifyWaiter, TypeOK, Connections,
         HonestAnswers, PlacesFit, Tries, Blame, Responsible, NoneForgotten, Asks, Mine
<1>6. FinishedIsEmpty'
  BY DEF FinishFailed, Listed, Told, Notified, NotifyWaiter, TypeOK, Connections,
         FinishedIsEmpty, Kept, PlacesFit, OneResponsible, Responsible
<1>7. PlacesFit'
  BY DEF FinishFailed, Listed, Told, Notified, NotifyWaiter, TypeOK, PlacesFit, Responsible,
         Asks, NoneForgotten
<1>8. Tries'
  BY DEF FinishFailed, Listed, Told, Notified, NotifyWaiter, TypeOK, Connections, Tries,
         Responsible, Mine, NoneForgotten, PlacesFit, Asks
<1>9. Blame'
  <2> DEFINE all  == Listed(connectors[c])
             with == {d \in all : connectors[d] \subseteq connectors[c]}
  <2>1. \A d \in all : at[d] = "listed"
    BY DEF Listed, NoneForgotten, TypeOK
  <2>2. ~destroyed => connectors[c] \subseteq failed
    BY DEF FinishFailed, PlacesFit, HonestAnswers, Blame
  <2>3. UNCHANGED <<failed, destroyed, left, iter>>
    BY DEF FinishFailed
  <2>4. \A d \in Callers :
          /\ at'[d] \in {"connect", "start", "connected", "listed"} => at'[d] = at[d]
          /\ at'[d] # "failed" \/ (at[d] = "failed" /\ answer'[d] = answer[d])
          /\ connectors'[d] = IF d \in all THEN connectors[d] \ connectors[c] ELSE connectors[d]
          /\ d \in all => at'[d] # "listed"
          /\ at'[d] \in Asks => at[d] \in Asks \/ (d \in all /\ at[d] = "listed")
    BY <2>1 DEF FinishFailed, Told, Notified, Asks
  <2> QED
    BY <2>2, <2>3, <2>4 DEF Blame, Asks
<1>10. Owned'
  <2>1. \A d \in Callers : at[d] = "start" => at'[d] = "start"
    BY DEF NoneForgotten, TypeOK, FinishFailed, Listed, Told, Notified, NotifyWaiter
  <2>2. \A d \in Responsible' :
          d \in Responsible /\ at'[d] = at[d] /\ connectors'[d] = connectors[d]
    BY DEF Responsible, NoneForgotten, TypeOK, FinishFailed, Listed, Told, Notified,
           NotifyWaiter
  <2>3. UNCHANGED <<connections, conn, iter>>
    BY DEF FinishFailed, Listed, Told, Notified, NotifyWaiter
  <2> QED
    BY <2>1, <2>2, <2>3 DEF Owned, Mine, TypeOK, Connections
<1>11. OnePerConnector' /\ Kept'
  BY DEF FinishFailed, OnePerConnector, Kept
<1> QED
  BY <1>1, <1>2, <1>3, <1>4, <1>5, <1>6, <1>7, <1>8, <1>9, <1>10, <1>11

\* A callback that is set was counted, so the count does not go below zero.
LEMMA SetResultKeeps ==
    ASSUME IInv, NEW c \in Callers, SetResult(c)
    PROVE  IInv'
<1> USE FactoryAssumption DEF IInv
<1>1. TypeOK'
  <2>1. c \in Active
    BY DEF SetResult, Active, PlacesFit
  <2>2. Cardinality(Active) \in Nat /\ Cardinality(Active) # 0
    BY <2>1, ActiveFinite, FS_CardinalityType, FS_EmptySet
  <2>3. pendingCount' \in Nat
    BY <2>2 DEF SetResult, CountExact, Active
  <2>4. at' \in [Callers -> Places]
    BY DEF SetResult, Notified, TypeOK, Places
  <2> QED
    BY <2>3, <2>4 DEF SetResult, NotifyWaiter, TypeOK
<1>2. OneResponsible'
  <2>1. Responsible' = Responsible
    BY DEF Responsible, TypeOK, PlacesFit, NoneForgotten, SetResult, Notified, NotifyWaiter
  <2> QED
    BY <2>1, ResponsibleStays DEF SetResult, Notified, NotifyWaiter
<1>3. NoneForgotten'
  BY DEF SetResult, Notified, NotifyWaiter, TypeOK, NoneForgotten, PlacesFit,
         OneResponsible, Responsible, Asks
<1>4. CountExact'
  <2>1. c \in Active /\ Active' = Active \ {c}
    BY DEF SetResult, Notified, Active, PlacesFit, TypeOK
  <2>2. Cardinality(Active') = Cardinality(Active) - 1
    BY <2>1, ActiveFinite, FS_RemoveElement
  <2> QED
    BY <2>2 DEF SetResult, CountExact, Active
<1>5. HonestAnswers'
  BY DEF SetResult, Notified, NotifyWaiter, TypeOK, Connections, HonestAnswers, PlacesFit,
         Tries, Blame, Responsible, NoneForgotten, Asks, Mine
<1>6. FinishedIsEmpty'
  <2>1. c \in Active
    BY DEF SetResult, Active, PlacesFit
  <2>2. pendingCount # 0
    BY <2>1, ActiveFinite, FS_EmptySet DEF CountExact, Active
  <2> QED
    BY <2>2 DEF SetResult, NotifyWaiter, FinishedIsEmpty
<1>7. PlacesFit'
  BY DEF SetResult, Notified, NotifyWaiter, TypeOK, PlacesFit, Responsible, Asks,
         NoneForgotten
<1>8. Tries'
  BY DEF SetResult, Notified, NotifyWaiter, TypeOK, Connections, Tries, Responsible, Mine,
         NoneForgotten, PlacesFit, Asks
<1>9. Blame'
  BY DEF SetResult, Notified, NotifyWaiter, TypeOK, Blame, Responsible, Asks, PlacesFit,
         Tries, NoneForgotten
<1>10. Owned'
  BY DEF SetResult, Notified, NotifyWaiter, TypeOK, Connections, Owned, Mine, Responsible,
         Live, Kept, Tries, NoneForgotten, OneResponsible, PlacesFit, Asks
<1>11. OnePerConnector' /\ Kept'
  BY DEF SetResult, OnePerConnector, Kept
<1> QED
  BY <1>1, <1>2, <1>3, <1>4, <1>5, <1>6, <1>7, <1>8, <1>9, <1>10, <1>11

\* A connection starts to close.
LEMMA ConnectionFailsKeeps ==
    ASSUME IInv, NEW x \in Connections, ConnectionFails(x)
    PROVE  IInv'
<1> USE FactoryAssumption DEF IInv
<1>1. TypeOK'
  BY DEF ConnectionFails, TypeOK, Places, Connections
<1>2. OnePerConnector'
  BY DEF ConnectionFails, TypeOK, Connections, OnePerConnector, Owned, Mine, Responsible,
         Tries, Live, Kept
<1>3. FinishedIsEmpty'
  BY DEF ConnectionFails, TypeOK, Connections, FinishedIsEmpty, Kept, PlacesFit,
         OneResponsible, Responsible
<1>4. Tries'
  BY DEF ConnectionFails, TypeOK, Connections, Tries, Responsible, Mine, NoneForgotten,
         PlacesFit, Asks
<1>5. Owned'
  BY DEF ConnectionFails, TypeOK, Connections, Owned, Mine, Responsible, Live, Kept, Tries,
         NoneForgotten, OneResponsible, PlacesFit, Asks
<1>6. Kept'
  BY DEF ConnectionFails, TypeOK, Connections, Kept, Tries, FinishedIsEmpty, OneResponsible,
         Responsible, PlacesFit, Mine
<1>7. OneResponsible' /\ NoneForgotten' /\ CountExact' /\ HonestAnswers' /\ PlacesFit' /\ Blame'
  BY DEF ConnectionFails, OneResponsible, Responsible, NoneForgotten, CountExact,
         HonestAnswers, PlacesFit, Asks, Blame
<1> QED
  BY <1>1, <1>2, <1>3, <1>4, <1>5, <1>6, <1>7

\* A connection that is finished comes to the reaper.
LEMMA ConnectionFinishedKeeps ==
    ASSUME IInv, NEW x \in Connections, ConnectionFinished(x)
    PROVE  IInv'
<1> USE FactoryAssumption DEF IInv
<1>1. TypeOK'
  BY DEF ConnectionFinished, TypeOK, Places, Connections
<1>2. OnePerConnector'
  BY DEF ConnectionFinished, TypeOK, Connections, OnePerConnector, Owned, Mine, Responsible,
         Tries, Live, Kept
<1>3. FinishedIsEmpty'
  <2>1. x \in connections
    BY DEF ConnectionFinished, Kept
  <2>2. /\ conn' = [conn EXCEPT ![x] = "finished"] /\ reaper' = reaper \cup {x}
        /\ UNCHANGED <<destroyed, pending, pendingCount, connections, waiter>>
    BY DEF ConnectionFinished
  <2> QED
    BY <2>1, <2>2 DEF FinishedIsEmpty, Kept, TypeOK
<1>4. Tries'
  BY DEF ConnectionFinished, TypeOK, Connections, Tries, Responsible, Mine, NoneForgotten,
         PlacesFit, Asks
<1>5. Owned'
  BY DEF ConnectionFinished, TypeOK, Connections, Owned, Mine, Responsible, Live, Kept,
         Tries, NoneForgotten, OneResponsible, PlacesFit, Asks
<1>6. Kept'
  BY DEF ConnectionFinished, TypeOK, Connections, Kept, Tries, FinishedIsEmpty,
         OneResponsible, Responsible, PlacesFit, Mine
<1>7. OneResponsible' /\ NoneForgotten' /\ CountExact' /\ HonestAnswers' /\ PlacesFit' /\ Blame'
  BY DEF ConnectionFinished, OneResponsible, Responsible, NoneForgotten, CountExact,
         HonestAnswers, PlacesFit, Asks, Blame
<1> QED
  BY <1>1, <1>2, <1>3, <1>4, <1>5, <1>6, <1>7

\* destroy() closes what is live and wakes everybody.
LEMMA DestroyKeeps ==
    ASSUME IInv, Destroy
    PROVE  IInv'
<1> USE FactoryAssumption DEF IInv
<1>1. TypeOK'
  BY DEF Destroy, Notified, NotifyWaiter, TypeOK, Places, Connections
<1>2. OneResponsible'
  <2>1. Responsible' = Responsible
    BY DEF Responsible, TypeOK, PlacesFit, NoneForgotten, Destroy, Notified, NotifyWaiter
  <2> QED
    BY <2>1, ResponsibleStays DEF Destroy, Notified, NotifyWaiter
<1>3. OnePerConnector'
  BY DEF Destroy, Notified, NotifyWaiter, TypeOK, Connections, OnePerConnector, Owned, Mine,
         Responsible, Tries, Live, Kept
<1>4. NoneForgotten'
  BY DEF Destroy, Notified, NotifyWaiter, TypeOK, NoneForgotten, PlacesFit, OneResponsible,
         Responsible, Asks
<1>5. CountExact'
  BY DEF Destroy, Notified, NotifyWaiter, TypeOK, CountExact, PlacesFit, NoneForgotten
<1>6. HonestAnswers'
  BY DEF Destroy, Notified, NotifyWaiter, TypeOK, Connections, HonestAnswers, PlacesFit,
         Tries, Blame, Responsible, NoneForgotten, Asks, Mine
<1>7. FinishedIsEmpty'
  BY DEF Destroy, Notified, NotifyWaiter, TypeOK, Connections, FinishedIsEmpty, Kept,
         PlacesFit, OneResponsible, Responsible
<1>8. PlacesFit'
  BY DEF Destroy, Notified, NotifyWaiter, TypeOK, PlacesFit, Responsible, Asks,
         NoneForgotten
<1>9. Tries'
  BY DEF Destroy, Notified, NotifyWaiter, TypeOK, Connections, Tries, Responsible, Mine,
         NoneForgotten, PlacesFit, Asks
<1>10. Blame'
  BY DEF Destroy, Notified, NotifyWaiter, TypeOK, Blame, Responsible, Asks, PlacesFit,
         Tries, NoneForgotten
<1>11. Owned'
  BY DEF Destroy, Notified, NotifyWaiter, TypeOK, Connections, Owned, Mine, Responsible,
         Live, Kept, Tries, NoneForgotten, OneResponsible, PlacesFit, Asks
<1>12. Kept'
  BY DEF Destroy, Notified, NotifyWaiter, TypeOK, Connections, Kept, Tries, FinishedIsEmpty,
         OneResponsible, Responsible, PlacesFit, Mine
<1> QED
  BY <1>1, <1>2, <1>3, <1>4, <1>5, <1>6, <1>7, <1>8, <1>9, <1>10, <1>11, <1>12

\* waitUntilFinished() sees that nobody can add a connection.
LEMMA WaitUntilQuietKeeps ==
    ASSUME IInv, WaitUntilQuiet
    PROVE  IInv'
<1> USE FactoryAssumption DEF IInv
<1>1. TypeOK'
  BY DEF WaitUntilQuiet, Quiet, TypeOK, Places, Connections
<1>2. FinishedIsEmpty'
  BY DEF WaitUntilQuiet, Quiet, TypeOK, Connections, FinishedIsEmpty, Kept, PlacesFit,
         OneResponsible, Responsible
<1>3. OneResponsible' /\ OnePerConnector' /\ NoneForgotten' /\ CountExact' /\ HonestAnswers' /\ PlacesFit' /\ Tries' /\ Blame' /\ Owned' /\ Kept'
  BY DEF WaitUntilQuiet, OneResponsible, Responsible, OnePerConnector, NoneForgotten,
         CountExact, HonestAnswers, PlacesFit, Asks, Tries, Blame, Owned, Mine, Kept
<1> QED
  BY <1>1, <1>2, <1>3

\* It forgets the connections when all are finished, hence with the reaper.
LEMMA WaitForConnectionsKeeps ==
    ASSUME IInv, WaitForConnections
    PROVE  IInv'
<1> USE FactoryAssumption DEF IInv
<1>1. TypeOK'
  BY DEF WaitForConnections, TypeOK, Places, Connections
<1>2. OnePerConnector'
  BY DEF WaitForConnections, TypeOK, Connections, OnePerConnector, Owned, Mine, Responsible,
         Tries, Live, Kept
<1>3. FinishedIsEmpty'
  BY DEF WaitForConnections, TypeOK, Connections, FinishedIsEmpty, Kept, PlacesFit,
         OneResponsible, Responsible
<1>4. Owned'
  BY DEF WaitForConnections, TypeOK, Connections, Owned, Mine, Responsible, Live, Kept,
         Tries, NoneForgotten, OneResponsible, PlacesFit, Asks
<1>5. Kept'
  BY DEF WaitForConnections, TypeOK, Connections, Kept, Tries, FinishedIsEmpty,
         OneResponsible, Responsible, PlacesFit, Mine
<1>6. OneResponsible' /\ NoneForgotten' /\ CountExact' /\ HonestAnswers' /\ PlacesFit' /\ Tries' /\ Blame'
  BY DEF WaitForConnections, OneResponsible, Responsible, NoneForgotten, CountExact,
         HonestAnswers, PlacesFit, Asks, Tries, Blame
<1> QED
  BY <1>1, <1>2, <1>3, <1>4, <1>5, <1>6

-----------------------------------------------------------------------------
(* The theorems *)

LEMMA InitIInv == Init => IInv
<1> SUFFICES ASSUME Init PROVE IInv
  OBVIOUS
<1> USE FactoryAssumption DEF Init
<1>1. Responsible = {} /\ Active = {} /\ DOMAIN pending = {}
  BY DEF Responsible, Active
<1>2. TypeOK
  BY <1>1 DEF TypeOK, Places
<1>3. OneResponsible
  BY <1>1, PendingKeys
<1>4. CountExact
  BY <1>1, FS_EmptySet DEF CountExact, Active
<1>5. OnePerConnector /\ NoneForgotten /\ HonestAnswers /\ FinishedIsEmpty
  BY <1>1 DEF OnePerConnector, NoneForgotten, HonestAnswers, FinishedIsEmpty
<1>6. PlacesFit /\ Blame
  BY <1>1 DEF PlacesFit, Blame, Asks
<1>7. Tries /\ Owned /\ Kept
  BY <1>1 DEF Tries, Owned, Kept, Connections
<1> QED
  BY <1>2, <1>3, <1>4, <1>5, <1>6, <1>7 DEF IInv

LEMMA StutterKeeps ==
    ASSUME IInv, UNCHANGED vars
    PROVE  IInv'
<1> USE DEF IInv, vars
<1>1. TypeOK' /\ OneResponsible' /\ OnePerConnector' /\ NoneForgotten' /\ CountExact'
  BY DEF TypeOK, OneResponsible, Responsible, OnePerConnector, NoneForgotten, CountExact
<1>2. HonestAnswers' /\ FinishedIsEmpty' /\ PlacesFit' /\ Tries'
  BY DEF HonestAnswers, FinishedIsEmpty, PlacesFit, Responsible, Asks, Tries
<1>3. Blame' /\ Owned' /\ Kept'
  BY DEF Blame, Asks, Owned, Responsible, Mine, Kept
<1> QED
  BY <1>1, <1>2, <1>3

\* The invariant holds in every reachable state.
THEOREM FactoryInductive == Spec => []IInv
<1>1. IInv /\ [Next]_vars => IInv'
  <2> SUFFICES ASSUME IInv, [Next]_vars PROVE IInv'
    OBVIOUS
  <2>1. ASSUME NEW c \in Callers, Create(c) \/ Step(c) \/ Validated(c)
        PROVE  IInv'
    <3>1. CASE Create(c) \/ Validated(c)
      BY <3>1, CreateKeeps, ValidatedKeeps
    <3>2. CASE IncPendingConnectCount(c) \/ Resolve(c) \/ GetConnection(c) \/ Wake(c)
      BY <3>2, IncPendingConnectCountKeeps, ResolveKeeps, GetConnectionKeeps, WakeKeeps
    <3>3. CASE NextConnector(c) \/ Started(c) \/ StartFailed(c)
      BY <3>3, NextConnectorKeeps, StartedKeeps, StartFailedKeeps
    <3>4. CASE FinishConnected(c) \/ FinishFailed(c) \/ SetResult(c)
      BY <3>4, FinishConnectedKeeps, FinishFailedKeeps, SetResultKeeps
    <3> QED
      BY <2>1, <3>1, <3>2, <3>3, <3>4 DEF Step
  <2>2. ASSUME NEW x \in Connections, ConnectionFails(x) \/ ConnectionFinished(x)
        PROVE  IInv'
    BY <2>2, ConnectionFailsKeeps, ConnectionFinishedKeeps
  <2>3. CASE Destroy \/ WaitUntilQuiet \/ WaitForConnections
    BY <2>3, DestroyKeeps, WaitUntilQuietKeeps, WaitForConnectionsKeeps
  <2>4. CASE UNCHANGED vars
    BY <2>4, StutterKeeps
  <2> QED
    BY <2>1, <2>2, <2>3, <2>4 DEF Next
<1> QED
  BY <1>1, InitIInv, PTL DEF Spec

\* For every connector with callers there is one who is responsible for it, there is at
\* most one live connection to it, nobody who waits is forgotten, and the count of pending
\* asynchronous calls is exact.
THEOREM FactoryIsExact == Spec => []FactoryExact
<1>1. IInv => FactoryExact
  BY DEF IInv, FactoryExact
<1> QED
  BY <1>1, FactoryInductive, PTL

\* What create() reports is true, and after waitUntilFinished() the factory is and stays
\* empty.
THEOREM FactoryIsHonest == Spec => []FactoryHonest
<1>1. IInv => FactoryHonest
  BY DEF IInv, FactoryHonest
<1> QED
  BY <1>1, FactoryInductive, PTL

\* The answer to a call is final once its callback is about to be called: no list still
\* has the callback, and no other caller's end changes what it is told.
AnswersFinal ==
    [][\A c \in Callers : at[c] \in {"set", "done"} =>
            /\ at'[c] \in {"set", "done"}
            /\ answer'[c] = answer[c] /\ given'[c] = given[c]]_vars

\* The answer of create() is given once and never revised.
THEOREM FactoryAnswersFinal == Spec => AnswersFinal
<1> DEFINE Final ==
      \A c \in Callers : at[c] \in {"set", "done"} =>
            /\ at'[c] \in {"set", "done"}
            /\ answer'[c] = answer[c] /\ given'[c] = given[c]
<1>1. ASSUME IInv, Next PROVE Final
  <2> USE <1>1 DEF IInv
  <2>1. ASSUME NEW c \in Callers, Create(c) \/ Validated(c) \/ Started(c)
        PROVE  Final
    BY <2>1 DEF Create, Validated, Started, Give, Throw, TypeOK
  <2>2. ASSUME NEW c \in Callers, IncPendingConnectCount(c) \/ Resolve(c)
        PROVE  Final
    BY <2>2 DEF IncPendingConnectCount, Resolve, Throw, TypeOK
  <2>3. ASSUME NEW c \in Callers, GetConnection(c) \/ Wake(c)
        PROVE  Final
    BY <2>3 DEF GetConnection, Wake, Loop, AddToPending, Give, Throw, TypeOK
  <2>4. ASSUME NEW c \in Callers, NextConnector(c) \/ StartFailed(c)
        PROVE  Final
    BY <2>4 DEF NextConnector, StartFailed, TryNext, Throw, TypeOK
  <2>5. ASSUME NEW c \in Callers, FinishConnected(c) \/ FinishFailed(c)
        PROVE  Final
    <3>1. \A d \in Listed(connectors[c]) : at[d] = "listed"
      BY DEF Listed, NoneForgotten, TypeOK
    <3> QED
      BY <2>5, <3>1 DEF FinishConnected, FinishFailed, Notified
  <2>6. ASSUME NEW c \in Callers, SetResult(c)
        PROVE  Final
    BY <2>6 DEF SetResult, Notified, TypeOK
  <2>7. ASSUME NEW x \in Connections, ConnectionFails(x) \/ ConnectionFinished(x)
        PROVE  Final
    BY <2>7 DEF ConnectionFails, ConnectionFinished
  <2>8. CASE Destroy \/ WaitUntilQuiet \/ WaitForConnections
    BY <2>8 DEF Destroy, Notified, WaitUntilQuiet, WaitForConnections
  <2> QED
    BY <1>1, <2>1, <2>2, <2>3, <2>4, <2>5, <2>6, <2>7, <2>8 DEF Next, Step
<1>2. IInv /\ [Next]_vars => [Final]_vars
  BY <1>1
<1> QED
  BY <1>2, FactoryInductive, PTL DEF Spec, AnswersFinal
=============================================================================
