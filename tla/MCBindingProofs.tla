--------------------------- MODULE MCBindingProofs ---------------------------
(***************************************************************************)
(* Theorems about the components that MCBinding puts side by side, for all *)
(* values of its constants.                                                *)
(*                                                                         *)
(* SessionHelper: until the ConnectThread has committed the session nobody *)
(* refreshes or destroys it, and the thread that destroys it has the       *)
(* refresh thread to join; so there is one end.                            *)
(*                                                                         *)
(* Router: for every proxy, what the client believes is backed by the      *)
(* router, by a note of an eviction or by an answer that is under way      *)
(* (Balance); an answer moves its evictions from the last to the others.   *)
(*                                                                         *)
(* ConnectRequestHandler: the queue is in the order in which calls entered *)
(* (InOrder), nothing that was queued is lost as long as the establishment *)
(* did not fail (NoneLost), and calls go to the connection themselves only *)
(* when the queue is empty (DirectLast).                                   *)
(***************************************************************************)
EXTENDS MCBinding, FiniteSetTheorems, SequenceTheorems, TLAPS

-----------------------------------------------------------------------------
(* The session helper *)

\* The elements of a sequence, and that none of them is in it twice.
Values(s) == {s[i] : i \in 1 .. Len(s)}
Once(s) == \A i, j \in 1 .. Len(s) : s[i] = s[j] => i = j

\* The callbacks that were made, that wait in the dispatcher, and both.
ToldSet == Values(callbacks)
Queued == Values(queue)
Emitted == ToldSet \cup Queued

\* Without a dispatcher nothing waits; no callback is made or queued twice.
SessionOnce ==
    /\ Once(callbacks) /\ Once(queue) /\ ToldSet \cap Queued = {}
    /\ ~helper.dispatcher => queue = <<>>

\* How far the ConnectThread is when a callback has been emitted.
SessionPhases ==
    /\ "createdCommunicator" \in Emitted => connector \notin {"init", "created", "initFailed"}
    /\ "createdCommunicator" \in Queued => connector = "waiting"
    /\ "connected" \in Emitted => connector \in {"failing", "failed", "done"}
    /\ "connectFailed" \in Emitted => connector = "done" /\ communicator # "alive"
    /\ "disconnected" \in Emitted => destroyer.at = "done"
    /\ connector \in {"init", "initFailed"} => communicator = "none"
    /\ connector \in {"created", "waiting", "connect", "query", "commit"} =>
           communicator = "alive"
    /\ connector = "failed" => communicator = "destroyed"
    /\ threw = "created" => connector = "waiting" /\ "createdCommunicator" \in ToldSet
    /\ threw \in {"connected", "terminated"} => "connected" \in ToldSet

\* The session is not established: the ConnectThread has not committed it, or it failed
\* and no exception of the application's connected() is to blame.
NotUp ==
    \/ connector \in {"init", "created", "waiting", "connect", "query", "commit", "initFailed"}
    \/ connector \in {"failing", "failed"} /\ threw \notin {"connected", "terminated"}
    \/ "connectFailed" \in Emitted /\ threw # "connected"

\* Then nobody refreshes or destroys it.
SessionDown ==
    NotUp => /\ destroyer.at = "none" /\ refresher.at = "none" /\ ~failure
             /\ ~helper.connected /\ "connected" \notin Emitted

\* What a connected session has; and the DestroyInternal thread has the refresh thread, or
\* there is none, until it has joined it.
SessionUp ==
    /\ helper.connected => helper.router /\ helper.session /\ ~helper.destroy
    /\ helper.connected /\ threw # "connected" => communicator = "alive"
    /\ destroyer.at # "none" => helper.destroy
    /\ destroyer.at \in {"callback", "done"} => communicator = "destroyed"
    /\ destroyer.at \in {"none", "begin"} => helper.refreshThread \/ refresher.at = "none"
    /\ destroyer.at \in {"router", "join"} => destroyer.refreshThread \/ refresher.at = "none"
    /\ destroyer.at \in {"communicator", "callback", "done"} => refresher.at \in {"none", "done"}

\* The inductive invariant of SessionHelper.
SessionInv == S!TypeOK /\ SessionOnce /\ SessionPhases /\ SessionDown /\ SessionUp

\* The elements of a longer sequence.
LEMMA ValuesAppend ==
    ASSUME NEW T, NEW s \in Seq(T), NEW c \in T
    PROVE  /\ Values(Append(s, c)) = Values(s) \cup {c}
           /\ (Once(s) /\ c \notin Values(s)) => Once(Append(s, c))
  <1>1. Len(Append(s, c)) = Len(s) + 1 /\ Len(s) \in Nat
    OBVIOUS
  <1>2. \A i \in 1 .. Len(s) : Append(s, c)[i] = s[i]
    OBVIOUS
  <1>3. Append(s, c)[Len(s) + 1] = c
    OBVIOUS
  <1>4. \A i \in 1 .. Len(s) + 1 : i \in 1 .. Len(s) \/ i = Len(s) + 1
    BY <1>1
  <1>5. \A i \in 1 .. Len(s) : i \in 1 .. Len(s) + 1
    BY <1>1
  <1>6. Len(s) + 1 \in 1 .. Len(s) + 1
    BY <1>1
  <1> DEFINE t == Append(s, c)
  <1> HIDE DEF t
  <1>7. Len(t) = Len(s) + 1 /\ (\A i \in 1 .. Len(s) : t[i] = s[i]) /\ t[Len(s) + 1] = c
    BY <1>1, <1>2, <1>3 DEF t
  <1>8. Values(t) = Values(s) \cup {c}
    BY <1>4, <1>5, <1>6, <1>7 DEF Values
  <1>9. (Once(s) /\ c \notin Values(s)) => Once(t)
    BY <1>4, <1>5, <1>6, <1>7 DEF Values, Once
  <1> QED
    BY <1>8, <1>9 DEF t

\* The elements of a sequence that loses its first one.
LEMMA ValuesTail ==
    ASSUME NEW T, NEW s \in Seq(T), s # <<>>
    PROVE  /\ Values(s) = Values(Tail(s)) \cup {Head(s)} /\ Head(s) \in T
           /\ Tail(s) \in Seq(T)
           /\ Once(s) => Once(Tail(s)) /\ Head(s) \notin Values(Tail(s))
  <1> DEFINE t == Tail(s)
  <1>1. Len(s) \in Nat /\ Len(s) > 0 /\ Head(s) = s[1] /\ t \in Seq(T)
    OBVIOUS
  <1>2. Len(t) = Len(s) - 1 /\ \A i \in 1 .. Len(t) : t[i] = s[i + 1]
    BY <1>1
  <1> HIDE DEF t
  <1>3. \A i \in 1 .. Len(s) : i = 1 \/ (i - 1 \in 1 .. Len(t) /\ (i - 1) + 1 = i)
    BY <1>1, <1>2
  <1>4. \A i \in 1 .. Len(t) : i + 1 \in 1 .. Len(s) /\ i + 1 # 1 /\ i \in Nat
    BY <1>1, <1>2
  <1>5. 1 \in 1 .. Len(s)
    BY <1>1
  <1>6. Head(s) \in T
    BY <1>1, <1>5
  <1>7. Values(s) \subseteq Values(t) \cup {Head(s)}
    <2> SUFFICES ASSUME NEW i \in 1 .. Len(s) PROVE s[i] \in Values(t) \cup {Head(s)}
      BY DEF Values
    <2>1. CASE i = 1
      BY <2>1, <1>1
    <2>2. CASE i - 1 \in 1 .. Len(t) /\ (i - 1) + 1 = i
      BY <2>2, <1>2 DEF Values
    <2> QED
      BY <2>1, <2>2, <1>3
  <1>8. Values(t) \cup {Head(s)} \subseteq Values(s)
    BY <1>1, <1>2, <1>4, <1>5 DEF Values
  <1>9. ASSUME Once(s) PROVE Once(t) /\ Head(s) \notin Values(t)
    <2>1. \A i, j \in 1 .. Len(t) : t[i] = t[j] => i + 1 = j + 1
      BY <1>9, <1>2, <1>4 DEF Once
    <2>2. Once(t)
      BY <2>1, <1>4 DEF Once
    <2>3. \A i \in 1 .. Len(t) : t[i] # s[1]
      BY <1>9, <1>2, <1>4, <1>5 DEF Once
    <2> QED
      BY <2>2, <2>3, <1>1 DEF Values
  <1> QED
    BY <1>1, <1>6, <1>7, <1>8, <1>9 DEF t

\* The empty sequence has no elements.
LEMMA ValuesEmpty == Values(<<>>) = {} /\ Once(<<>>)
  BY DEF Values, Once

\* A callback is made, or put into the dispatcher.
Emits(c) ==
    IF helper.dispatcher THEN queue' = Append(queue, c) /\ callbacks' = callbacks
    ELSE callbacks' = Append(callbacks, c) /\ queue' = queue

\* A callback is made, directly or through the dispatcher.
LEMMA EmitsEffect ==
    ASSUME S!TypeOK, SessionOnce, NEW c \in S!Callbacks, c \notin Emitted, Emits(c),
           helper'.dispatcher = helper.dispatcher
    PROVE  /\ SessionOnce' /\ Emitted' = Emitted \cup {c}
           /\ Queued' \subseteq Queued \cup {c} /\ ToldSet \subseteq ToldSet'
           /\ ~helper.dispatcher => Queued' = Queued
           /\ queue' \in Seq(S!Callbacks) /\ callbacks' \in Seq(S!Callbacks)
  <1>1. queue \in Seq(S!Callbacks) /\ callbacks \in Seq(S!Callbacks)
    BY DEF S!TypeOK
  <1>2. /\ Values(Append(queue, c)) = Queued \cup {c}
        /\ Values(Append(callbacks, c)) = ToldSet \cup {c}
        /\ (Once(queue) /\ c \notin Queued) => Once(Append(queue, c))
        /\ (Once(callbacks) /\ c \notin ToldSet) => Once(Append(callbacks, c))
    BY <1>1, ValuesAppend DEF Queued, ToldSet
  <1>3. c \notin Queued /\ c \notin ToldSet
    BY DEF Emitted
  <1>4. CASE helper.dispatcher
    <2>1. queue' = Append(queue, c) /\ callbacks' = callbacks
      BY <1>4 DEF Emits
    <2>2. Queued' = Queued \cup {c} /\ ToldSet' = ToldSet
      BY <2>1, <1>2 DEF Queued, ToldSet
    <2>3. Once(queue') /\ Once(callbacks') /\ ToldSet' \cap Queued' = {}
      BY <2>1, <2>2, <1>2, <1>3 DEF SessionOnce
    <2> QED
      BY <1>1, <1>4, <2>1, <2>2, <2>3 DEF SessionOnce, Emitted
  <1>5. CASE ~helper.dispatcher
    <2>1. callbacks' = Append(callbacks, c) /\ queue' = queue
      BY <1>5 DEF Emits
    <2>2. ToldSet' = ToldSet \cup {c} /\ Queued' = Queued
      BY <2>1, <1>2 DEF Queued, ToldSet
    <2>3. Once(queue') /\ Once(callbacks') /\ ToldSet' \cap Queued' = {}
      BY <2>1, <2>2, <1>2, <1>3 DEF SessionOnce
    <2>4. queue' = <<>>
      BY <2>1, <1>5 DEF SessionOnce
    <2> QED
      BY <1>1, <1>5, <2>1, <2>2, <2>3, <2>4 DEF SessionOnce, Emitted
  <1> QED
    BY <1>4, <1>5

\* The dispatcher runs its first call.
LEMMA DeliversEffect ==
    ASSUME S!TypeOK, SessionOnce, queue # <<>>, queue' = Tail(queue),
           callbacks' = Append(callbacks, Head(queue)), helper'.dispatcher = helper.dispatcher
    PROVE  /\ SessionOnce' /\ Emitted' = Emitted /\ Head(queue) \in Queued
           /\ Head(queue) \notin ToldSet /\ Head(queue) \in S!Callbacks
           /\ Queued' = Queued \ {Head(queue)} /\ ToldSet' = ToldSet \cup {Head(queue)}
           /\ queue' \in Seq(S!Callbacks) /\ callbacks' \in Seq(S!Callbacks)
  <1>1. queue \in Seq(S!Callbacks) /\ callbacks \in Seq(S!Callbacks)
    BY DEF S!TypeOK
  <1>2. /\ Queued = Values(queue') \cup {Head(queue)} /\ Head(queue) \in S!Callbacks
        /\ queue' \in Seq(S!Callbacks)
        /\ Once(queue') /\ Head(queue) \notin Values(queue')
    BY <1>1, ValuesTail DEF Queued, SessionOnce
  <1>3. Head(queue) \notin ToldSet
    BY <1>2 DEF SessionOnce
  <1>4. /\ Values(callbacks') = ToldSet \cup {Head(queue)} /\ Once(callbacks')
        /\ callbacks' \in Seq(S!Callbacks)
    BY <1>1, <1>2, <1>3, ValuesAppend DEF ToldSet, SessionOnce
  <1>5. Queued' = Values(queue') /\ ToldSet' = Values(callbacks')
    BY DEF Queued, ToldSet
  <1>6. helper.dispatcher
    BY DEF SessionOnce
  <1> QED
    BY <1>2, <1>3, <1>4, <1>5, <1>6 DEF SessionOnce, Emitted

\* Steps that make no callback.
LEMMA SameEffect ==
    ASSUME SessionOnce, queue' = queue, callbacks' = callbacks,
           helper'.dispatcher = helper.dispatcher
    PROVE  /\ SessionOnce' /\ Emitted' = Emitted /\ Queued' = Queued /\ ToldSet' = ToldSet
  BY DEF SessionOnce, Emitted, Queued, ToldSet

\* destroy() of the application, in any phase.
LEMMA SessionDestroy ==
    ASSUME SessionInv, S!Destroy
    PROVE  SessionInv'
  <1> USE DEF S!Destroy, S!Running, S!external, S!DoDestroy, S!Destroyed, S!DestroyThread
  <1>1. queue' = queue /\ callbacks' = callbacks /\ helper'.dispatcher = helper.dispatcher
    BY DEF SessionInv, S!TypeOK, S!Helper
  <1>2. SessionOnce' /\ Emitted' = Emitted /\ Queued' = Queued /\ ToldSet' = ToldSet
    BY <1>1, SameEffect DEF SessionInv
  <1>3. S!TypeOK'
    <2>1. helper' \in S!Helper
      BY DEF SessionInv, S!TypeOK, S!Helper
    <2>2. destroyer' \in S!Destroyer
      BY DEF SessionInv, S!TypeOK, S!Destroyer, S!Helper
    <2>3. refresher' \in S!Refresher
      BY DEF SessionInv, S!TypeOK, S!Refresher, S!Destroyer
    <2>4. failure' \in BOOLEAN /\ atRouter' \in BOOLEAN
      BY DEF SessionInv, S!TypeOK
    <2> QED
      BY <2>1, <2>2, <2>3, <2>4 DEF SessionInv, S!TypeOK
  <1>4. SessionPhases'
    BY <1>2, <1>3 DEF SessionInv, SessionPhases, SessionDown, NotUp, SessionUp, S!TypeOK,
       S!Helper, S!Destroyer, S!Refresher
  <1>5. SessionDown'
    BY <1>2, <1>3 DEF SessionInv, SessionPhases, SessionDown, NotUp, SessionUp, S!TypeOK,
       S!Helper, S!Destroyer, S!Refresher
  <1>6. SessionUp'
    BY <1>2, <1>3 DEF SessionInv, SessionPhases, SessionDown, NotUp, SessionUp, S!TypeOK,
       S!Helper, S!Destroyer, S!Refresher
  <1> QED
    BY <1>2, <1>3, <1>4, <1>5, <1>6 DEF SessionInv

\* connectImpl(): the communicator is created, or its creation fails.
LEMMA SessionConnectImpl ==
    ASSUME SessionInv, S!ConnectImpl
    PROVE  SessionInv'
  <1> USE DEF S!ConnectImpl, S!Running, S!external
  <1>1. queue' = queue /\ callbacks' = callbacks /\ helper'.dispatcher = helper.dispatcher
    BY DEF SessionInv, S!TypeOK, S!Helper
  <1>2. SessionOnce' /\ Emitted' = Emitted /\ Queued' = Queued /\ ToldSet' = ToldSet
    BY <1>1, SameEffect DEF SessionInv
  <1>3. S!TypeOK'
    <2>1. helper' \in S!Helper
      BY DEF SessionInv, S!TypeOK, S!Helper
    <2>2. destroyer' \in S!Destroyer
      BY DEF SessionInv, S!TypeOK, S!Destroyer, S!Helper
    <2>3. refresher' \in S!Refresher
      BY DEF SessionInv, S!TypeOK, S!Refresher, S!Destroyer
    <2>4. failure' \in BOOLEAN /\ atRouter' \in BOOLEAN
      BY DEF SessionInv, S!TypeOK
    <2> QED
      BY <2>1, <2>2, <2>3, <2>4 DEF SessionInv, S!TypeOK
  <1>4. SessionPhases'
    BY <1>2, <1>3 DEF SessionInv, SessionPhases, SessionDown, NotUp, SessionUp, S!TypeOK,
       S!Helper, S!Destroyer, S!Refresher
  <1>5. SessionDown'
    BY <1>2, <1>3 DEF SessionInv, SessionPhases, SessionDown, NotUp, SessionUp, S!TypeOK,
       S!Helper, S!Destroyer, S!Refresher
  <1>6. SessionUp'
    BY <1>2, <1>3 DEF SessionInv, SessionPhases, SessionDown, NotUp, SessionUp, S!TypeOK,
       S!Helper, S!Destroyer, S!Refresher
  <1> QED
    BY <1>2, <1>3, <1>4, <1>5, <1>6 DEF SessionInv

\* The ConnectThread creates the session at the router.
LEMMA SessionConnect ==
    ASSUME SessionInv, S!Connect
    PROVE  SessionInv'
  <1> USE DEF S!Connect, S!Running, S!external
  <1>1. queue' = queue /\ callbacks' = callbacks /\ helper'.dispatcher = helper.dispatcher
    BY DEF SessionInv, S!TypeOK, S!Helper
  <1>2. SessionOnce' /\ Emitted' = Emitted /\ Queued' = Queued /\ ToldSet' = ToldSet
    BY <1>1, SameEffect DEF SessionInv
  <1>3. S!TypeOK'
    <2>1. helper' \in S!Helper
      BY DEF SessionInv, S!TypeOK, S!Helper
    <2>2. destroyer' \in S!Destroyer
      BY DEF SessionInv, S!TypeOK, S!Destroyer, S!Helper
    <2>3. refresher' \in S!Refresher
      BY DEF SessionInv, S!TypeOK, S!Refresher, S!Destroyer
    <2>4. failure' \in BOOLEAN /\ atRouter' \in BOOLEAN
      BY DEF SessionInv, S!TypeOK
    <2> QED
      BY <2>1, <2>2, <2>3, <2>4 DEF SessionInv, S!TypeOK
  <1>4. SessionPhases'
    BY <1>2, <1>3 DEF SessionInv, SessionPhases, SessionDown, NotUp, SessionUp, S!TypeOK,
       S!Helper, S!Destroyer, S!Refresher
  <1>5. SessionDown'
    BY <1>2, <1>3 DEF SessionInv, SessionPhases, SessionDown, NotUp, SessionUp, S!TypeOK,
       S!Helper, S!Destroyer, S!Refresher
  <1>6. SessionUp'
    BY <1>2, <1>3 DEF SessionInv, SessionPhases, SessionDown, NotUp, SessionUp, S!TypeOK,
       S!Helper, S!Destroyer, S!Refresher
  <1> QED
    BY <1>2, <1>3, <1>4, <1>5, <1>6 DEF SessionInv

\* connected(): the session is stored, unless destroy() was called meanwhile.
LEMMA SessionConnected ==
    ASSUME SessionInv, S!Connected
    PROVE  SessionInv'
  <1> USE DEF S!Connected, S!Running, S!external
  <1>1. queue' = queue /\ callbacks' = callbacks /\ helper'.dispatcher = helper.dispatcher
    BY DEF SessionInv, S!TypeOK, S!Helper
  <1>2. SessionOnce' /\ Emitted' = Emitted /\ Queued' = Queued /\ ToldSet' = ToldSet
    BY <1>1, SameEffect DEF SessionInv
  <1>3. S!TypeOK'
    <2>1. helper' \in S!Helper
      BY DEF SessionInv, S!TypeOK, S!Helper
    <2>2. destroyer' \in S!Destroyer
      BY DEF SessionInv, S!TypeOK, S!Destroyer, S!Helper
    <2>3. refresher' \in S!Refresher
      BY DEF SessionInv, S!TypeOK, S!Refresher, S!Destroyer
    <2>4. failure' \in BOOLEAN /\ atRouter' \in BOOLEAN
      BY DEF SessionInv, S!TypeOK
    <2> QED
      BY <2>1, <2>2, <2>3, <2>4 DEF SessionInv, S!TypeOK
  <1>4. SessionPhases'
    BY <1>2, <1>3 DEF SessionInv, SessionPhases, SessionDown, NotUp, SessionUp, S!TypeOK,
       S!Helper, S!Destroyer, S!Refresher
  <1>5. SessionDown'
    BY <1>2, <1>3 DEF SessionInv, SessionPhases, SessionDown, NotUp, SessionUp, S!TypeOK,
       S!Helper, S!Destroyer, S!Refresher
  <1>6. SessionUp'
    <2>0. destroyer.at = "none" /\ refresher.at = "none" /\ communicator = "alive"
      BY DEF SessionInv, SessionDown, NotUp, SessionPhases
    <2>1. CASE helper.destroy
      <3>1. helper' = [helper EXCEPT !.router = TRUE] /\ destroyer'.at = "begin"
        BY <2>1 DEF SessionInv, S!TypeOK, S!Destroyer
      <3>2. /\ helper'.destroy /\ helper'.connected = helper.connected
            /\ helper'.refreshThread = helper.refreshThread
        BY <3>1, <2>1 DEF SessionInv, S!TypeOK, S!Helper
      <3>3. ~helper.connected
        BY DEF SessionInv, SessionDown, NotUp
      <3>4. refresher' = refresher /\ communicator' = communicator
        BY <2>1
      <3> QED
        BY <2>0, <3>1, <3>2, <3>3, <3>4 DEF SessionUp
    <2>2. CASE ~helper.destroy
      <3>1. PICK timeout \in BOOLEAN :
               /\ helper' = [helper EXCEPT !.router = TRUE, !.session = TRUE,
                                           !.connected = TRUE, !.refreshThread = timeout]
               /\ refresher' = IF timeout THEN [refresher EXCEPT !.at = "send"] ELSE refresher
        BY <2>2
      <3>2. /\ ~helper'.destroy /\ helper'.connected /\ helper'.router /\ helper'.session
            /\ helper'.refreshThread = timeout
        BY <3>1, <2>2 DEF SessionInv, S!TypeOK, S!Helper
      <3>3. timeout \/ refresher'.at = "none"
        BY <3>1, <2>0
      <3>4. destroyer' = destroyer /\ communicator' = communicator
        BY <2>2
      <3> QED
        BY <2>0, <3>2, <3>3, <3>4 DEF SessionUp
    <2> QED
      BY <2>1, <2>2
  <1> QED
    BY <1>2, <1>3, <1>4, <1>5, <1>6 DEF SessionInv

\* connectFailed(): the communicator is destroyed.
LEMMA SessionConnectFailed ==
    ASSUME SessionInv, S!ConnectFailed
    PROVE  SessionInv'
  <1> USE DEF S!ConnectFailed, S!Running, S!external
  <1>1. queue' = queue /\ callbacks' = callbacks /\ helper'.dispatcher = helper.dispatcher
    BY DEF SessionInv, S!TypeOK, S!Helper
  <1>2. SessionOnce' /\ Emitted' = Emitted /\ Queued' = Queued /\ ToldSet' = ToldSet
    BY <1>1, SameEffect DEF SessionInv
  <1>3. S!TypeOK'
    <2>1. helper' \in S!Helper
      BY DEF SessionInv, S!TypeOK, S!Helper
    <2>2. destroyer' \in S!Destroyer
      BY DEF SessionInv, S!TypeOK, S!Destroyer, S!Helper
    <2>3. refresher' \in S!Refresher
      BY DEF SessionInv, S!TypeOK, S!Refresher, S!Destroyer
    <2>4. failure' \in BOOLEAN /\ atRouter' \in BOOLEAN
      BY DEF SessionInv, S!TypeOK
    <2> QED
      BY <2>1, <2>2, <2>3, <2>4 DEF SessionInv, S!TypeOK
  <1>4. SessionPhases'
    BY <1>2, <1>3 DEF SessionInv, SessionPhases, SessionDown, NotUp, SessionUp, S!TypeOK,
       S!Helper, S!Destroyer, S!Refresher
  <1>5. SessionDown'
    BY <1>2, <1>3 DEF SessionInv, SessionPhases, SessionDown, NotUp, SessionUp, S!TypeOK,
       S!Helper, S!Destroyer, S!Refresher
  <1>6. SessionUp'
    BY <1>2, <1>3 DEF SessionInv, SessionPhases, SessionDown, NotUp, SessionUp, S!TypeOK,
       S!Helper, S!Destroyer, S!Refresher
  <1> QED
    BY <1>2, <1>3, <1>4, <1>5, <1>6 DEF SessionInv

\* The SessionRefreshThread refreshes the session.
LEMMA SessionRefresh ==
    ASSUME SessionInv, S!Refresh
    PROVE  SessionInv'
  <1> USE DEF S!Refresh, S!Running, S!external
  <1>1. queue' = queue /\ callbacks' = callbacks /\ helper'.dispatcher = helper.dispatcher
    BY DEF SessionInv, S!TypeOK, S!Helper
  <1>2. SessionOnce' /\ Emitted' = Emitted /\ Queued' = Queued /\ ToldSet' = ToldSet
    BY <1>1, SameEffect DEF SessionInv
  <1>3. S!TypeOK'
    <2>1. helper' \in S!Helper
      BY DEF SessionInv, S!TypeOK, S!Helper
    <2>2. destroyer' \in S!Destroyer
      BY DEF SessionInv, S!TypeOK, S!Destroyer, S!Helper
    <2>3. refresher' \in S!Refresher
      BY DEF SessionInv, S!TypeOK, S!Refresher, S!Destroyer
    <2>4. failure' \in BOOLEAN /\ atRouter' \in BOOLEAN
      BY DEF SessionInv, S!TypeOK
    <2> QED
      BY <2>1, <2>2, <2>3, <2>4 DEF SessionInv, S!TypeOK
  <1>4. SessionPhases'
    BY <1>2, <1>3 DEF SessionInv, SessionPhases, SessionDown, NotUp, SessionUp, S!TypeOK,
       S!Helper, S!Destroyer, S!Refresher
  <1>5. SessionDown'
    BY <1>2, <1>3 DEF SessionInv, SessionPhases, SessionDown, NotUp, SessionUp, S!TypeOK,
       S!Helper, S!Destroyer, S!Refresher
  <1>6. SessionUp'
    BY <1>2, <1>3 DEF SessionInv, SessionPhases, SessionDown, NotUp, SessionUp, S!TypeOK,
       S!Helper, S!Destroyer, S!Refresher
  <1> QED
    BY <1>2, <1>3, <1>4, <1>5, <1>6 DEF SessionInv

\* The SessionRefreshThread wakes up, after its period or because it is done.
LEMMA SessionRefreshWakes ==
    ASSUME SessionInv, S!RefreshWakes
    PROVE  SessionInv'
  <1> USE DEF S!RefreshWakes, S!Running, S!external
  <1>1. queue' = queue /\ callbacks' = callbacks /\ helper'.dispatcher = helper.dispatcher
    BY DEF SessionInv, S!TypeOK, S!Helper
  <1>2. SessionOnce' /\ Emitted' = Emitted /\ Queued' = Queued /\ ToldSet' = ToldSet
    BY <1>1, SameEffect DEF SessionInv
  <1>3. S!TypeOK'
    <2>1. helper' \in S!Helper
      BY DEF SessionInv, S!TypeOK, S!Helper
    <2>2. destroyer' \in S!Destroyer
      BY DEF SessionInv, S!TypeOK, S!Destroyer, S!Helper
    <2>3. refresher' \in S!Refresher
      BY DEF SessionInv, S!TypeOK, S!Refresher, S!Destroyer
    <2>4. failure' \in BOOLEAN /\ atRouter' \in BOOLEAN
      BY DEF SessionInv, S!TypeOK
    <2> QED
      BY <2>1, <2>2, <2>3, <2>4 DEF SessionInv, S!TypeOK
  <1>4. SessionPhases'
    BY <1>2, <1>3 DEF SessionInv, SessionPhases, SessionDown, NotUp, SessionUp, S!TypeOK,
       S!Helper, S!Destroyer, S!Refresher
  <1>5. SessionDown'
    BY <1>2, <1>3 DEF SessionInv, SessionPhases, SessionDown, NotUp, SessionUp, S!TypeOK,
       S!Helper, S!Destroyer, S!Refresher
  <1>6. SessionUp'
    BY <1>2, <1>3 DEF SessionInv, SessionPhases, SessionDown, NotUp, SessionUp, S!TypeOK,
       S!Helper, S!Destroyer, S!Refresher
  <1> QED
    BY <1>2, <1>3, <1>4, <1>5, <1>6 DEF SessionInv

\* A refresh failed: destroy() is called.
LEMMA SessionRefreshFailed ==
    ASSUME SessionInv, S!RefreshFailed
    PROVE  SessionInv'
  <1> USE DEF S!RefreshFailed, S!Running, S!external, S!DoDestroy, S!Destroyed, S!DestroyThread
  <1>1. queue' = queue /\ callbacks' = callbacks /\ helper'.dispatcher = helper.dispatcher
    BY DEF SessionInv, S!TypeOK, S!Helper
  <1>2. SessionOnce' /\ Emitted' = Emitted /\ Queued' = Queued /\ ToldSet' = ToldSet
    BY <1>1, SameEffect DEF SessionInv
  <1>3. S!TypeOK'
    <2>1. helper' \in S!Helper
      BY DEF SessionInv, S!TypeOK, S!Helper
    <2>2. destroyer' \in S!Destroyer
      BY DEF SessionInv, S!TypeOK, S!Destroyer, S!Helper
    <2>3. refresher' \in S!Refresher
      BY DEF SessionInv, S!TypeOK, S!Refresher, S!Destroyer
    <2>4. failure' \in BOOLEAN /\ atRouter' \in BOOLEAN
      BY DEF SessionInv, S!TypeOK
    <2> QED
      BY <2>1, <2>2, <2>3, <2>4 DEF SessionInv, S!TypeOK
  <1>4. SessionPhases'
    BY <1>2, <1>3 DEF SessionInv, SessionPhases, SessionDown, NotUp, SessionUp, S!TypeOK,
       S!Helper, S!Destroyer, S!Refresher
  <1>5. SessionDown'
    BY <1>2, <1>3 DEF SessionInv, SessionPhases, SessionDown, NotUp, SessionUp, S!TypeOK,
       S!Helper, S!Destroyer, S!Refresher
  <1>6. SessionUp'
    BY <1>2, <1>3 DEF SessionInv, SessionPhases, SessionDown, NotUp, SessionUp, S!TypeOK,
       S!Helper, S!Destroyer, S!Refresher
  <1> QED
    BY <1>2, <1>3, <1>4, <1>5, <1>6 DEF SessionInv

\* destroyInternal() takes the router and the refresh thread from the helper.
LEMMA SessionDestroyInternal ==
    ASSUME SessionInv, S!DestroyInternal
    PROVE  SessionInv'
  <1> USE DEF S!DestroyInternal, S!Running, S!external
  <1>1. queue' = queue /\ callbacks' = callbacks /\ helper'.dispatcher = helper.dispatcher
    BY DEF SessionInv, S!TypeOK, S!Helper
  <1>2. SessionOnce' /\ Emitted' = Emitted /\ Queued' = Queued /\ ToldSet' = ToldSet
    BY <1>1, SameEffect DEF SessionInv
  <1>3. S!TypeOK'
    <2>1. helper' \in S!Helper
      BY DEF SessionInv, S!TypeOK, S!Helper
    <2>2. destroyer' \in S!Destroyer
      BY DEF SessionInv, S!TypeOK, S!Destroyer, S!Helper
    <2>3. refresher' \in S!Refresher
      BY DEF SessionInv, S!TypeOK, S!Refresher, S!Destroyer
    <2>4. failure' \in BOOLEAN /\ atRouter' \in BOOLEAN
      BY DEF SessionInv, S!TypeOK
    <2> QED
      BY <2>1, <2>2, <2>3, <2>4 DEF SessionInv, S!TypeOK
  <1>4. SessionPhases'
    BY <1>2, <1>3 DEF SessionInv, SessionPhases, SessionDown, NotUp, SessionUp, S!TypeOK,
       S!Helper, S!Destroyer, S!Refresher
  <1>5. SessionDown'
    BY <1>2, <1>3 DEF SessionInv, SessionPhases, SessionDown, NotUp, SessionUp, S!TypeOK,
       S!Helper, S!Destroyer, S!Refresher
  <1>6. SessionUp'
    BY <1>2, <1>3 DEF SessionInv, SessionPhases, SessionDown, NotUp, SessionUp, S!TypeOK,
       S!Helper, S!Destroyer, S!Refresher
  <1> QED
    BY <1>2, <1>3, <1>4, <1>5, <1>6 DEF SessionInv

\* The router destroys the session, or the call fails.
LEMMA SessionDestroySession ==
    ASSUME SessionInv, S!DestroySession
    PROVE  SessionInv'
  <1> USE DEF S!DestroySession, S!Running, S!external
  <1>1. queue' = queue /\ callbacks' = callbacks /\ helper'.dispatcher = helper.dispatcher
    BY DEF SessionInv, S!TypeOK, S!Helper
  <1>2. SessionOnce' /\ Emitted' = Emitted /\ Queued' = Queued /\ ToldSet' = ToldSet
    BY <1>1, SameEffect DEF SessionInv
  <1>3. S!TypeOK'
    <2>1. helper' \in S!Helper
      BY DEF SessionInv, S!TypeOK, S!Helper
    <2>2. destroyer' \in S!Destroyer
      BY DEF SessionInv, S!TypeOK, S!Destroyer, S!Helper
    <2>3. refresher' \in S!Refresher
      BY DEF SessionInv, S!TypeOK, S!Refresher, S!Destroyer
    <2>4. failure' \in BOOLEAN /\ atRouter' \in BOOLEAN
      BY DEF SessionInv, S!TypeOK
    <2> QED
      BY <2>1, <2>2, <2>3, <2>4 DEF SessionInv, S!TypeOK
  <1>4. SessionPhases'
    BY <1>2, <1>3 DEF SessionInv, SessionPhases, SessionDown, NotUp, SessionUp, S!TypeOK,
       S!Helper, S!Destroyer, S!Refresher
  <1>5. SessionDown'
    BY <1>2, <1>3 DEF SessionInv, SessionPhases, SessionDown, NotUp, SessionUp, S!TypeOK,
       S!Helper, S!Destroyer, S!Refresher
  <1>6. SessionUp'
    BY <1>2, <1>3 DEF SessionInv, SessionPhases, SessionDown, NotUp, SessionUp, S!TypeOK,
       S!Helper, S!Destroyer, S!Refresher
  <1> QED
    BY <1>2, <1>3, <1>4, <1>5, <1>6 DEF SessionInv

\* The refresh thread is told that it is done, and joined.
LEMMA SessionJoinRefresher ==
    ASSUME SessionInv, S!JoinRefresher
    PROVE  SessionInv'
  <1> USE DEF S!JoinRefresher, S!Running, S!external
  <1>1. queue' = queue /\ callbacks' = callbacks /\ helper'.dispatcher = helper.dispatcher
    BY DEF SessionInv, S!TypeOK, S!Helper
  <1>2. SessionOnce' /\ Emitted' = Emitted /\ Queued' = Queued /\ ToldSet' = ToldSet
    BY <1>1, SameEffect DEF SessionInv
  <1>3. S!TypeOK'
    <2>1. helper' \in S!Helper
      BY DEF SessionInv, S!TypeOK, S!Helper
    <2>2. destroyer' \in S!Destroyer
      BY DEF SessionInv, S!TypeOK, S!Destroyer, S!Helper
    <2>3. refresher' \in S!Refresher
      BY DEF SessionInv, S!TypeOK, S!Refresher, S!Destroyer
    <2>4. failure' \in BOOLEAN /\ atRouter' \in BOOLEAN
      BY DEF SessionInv, S!TypeOK
    <2> QED
      BY <2>1, <2>2, <2>3, <2>4 DEF SessionInv, S!TypeOK
  <1>4. SessionPhases'
    BY <1>2, <1>3 DEF SessionInv, SessionPhases, SessionDown, NotUp, SessionUp, S!TypeOK,
       S!Helper, S!Destroyer, S!Refresher
  <1>5. SessionDown'
    BY <1>2, <1>3 DEF SessionInv, SessionPhases, SessionDown, NotUp, SessionUp, S!TypeOK,
       S!Helper, S!Destroyer, S!Refresher
  <1>6. SessionUp'
    BY <1>2, <1>3 DEF SessionInv, SessionPhases, SessionDown, NotUp, SessionUp, S!TypeOK,
       S!Helper, S!Destroyer, S!Refresher
  <1> QED
    BY <1>2, <1>3, <1>4, <1>5, <1>6 DEF SessionInv

\* The communicator is destroyed when the refresh thread has ended.
LEMMA SessionDestroyCommunicator ==
    ASSUME SessionInv, S!DestroyCommunicator
    PROVE  SessionInv'
  <1> USE DEF S!DestroyCommunicator, S!Running, S!external
  <1>1. queue' = queue /\ callbacks' = callbacks /\ helper'.dispatcher = helper.dispatcher
    BY DEF SessionInv, S!TypeOK, S!Helper
  <1>2. SessionOnce' /\ Emitted' = Emitted /\ Queued' = Queued /\ ToldSet' = ToldSet
    BY <1>1, SameEffect DEF SessionInv
  <1>3. S!TypeOK'
    <2>1. helper' \in S!Helper
      BY DEF SessionInv, S!TypeOK, S!Helper
    <2>2. destroyer' \in S!Destroyer
      BY DEF SessionInv, S!TypeOK, S!Destroyer, S!Helper
    <2>3. refresher' \in S!Refresher
      BY DEF SessionInv, S!TypeOK, S!Refresher, S!Destroyer
    <2>4. failure' \in BOOLEAN /\ atRouter' \in BOOLEAN
      BY DEF SessionInv, S!TypeOK
    <2> QED
      BY <2>1, <2>2, <2>3, <2>4 DEF SessionInv, S!TypeOK
  <1>4. SessionPhases'
    BY <1>2, <1>3 DEF SessionInv, SessionPhases, SessionDown, NotUp, SessionUp, S!TypeOK,
       S!Helper, S!Destroyer, S!Refresher
  <1>5. SessionDown'
    BY <1>2, <1>3 DEF SessionInv, SessionPhases, SessionDown, NotUp, SessionUp, S!TypeOK,
       S!Helper, S!Destroyer, S!Refresher
  <1>6. SessionUp'
    BY <1>2, <1>3 DEF SessionInv, SessionPhases, SessionDown, NotUp, SessionUp, S!TypeOK,
       S!Helper, S!Destroyer, S!Refresher
  <1> QED
    BY <1>2, <1>3, <1>4, <1>5, <1>6 DEF SessionInv

\* The callback createdCommunicator(), which the ConnectThread waits for.
LEMMA SessionCreatedCommunicator ==
    ASSUME SessionInv, S!CreatedCommunicator
    PROVE  SessionInv'
  <1> USE DEF S!CreatedCommunicator, S!Running, S!external
  <1>1. helper' = helper /\ Emits("createdCommunicator")
    BY DEF Emits, S!Enqueue, S!Notify
  <1>2. "createdCommunicator" \in S!Callbacks /\ "createdCommunicator" \notin Emitted
    BY DEF SessionInv, SessionPhases, S!Callbacks
  <1>3. /\ SessionOnce' /\ Emitted' = Emitted \cup {"createdCommunicator"}
        /\ Queued' \subseteq Queued \cup {"createdCommunicator"} /\ ToldSet \subseteq ToldSet'
        /\ ~helper.dispatcher => Queued' = Queued
        /\ queue' \in Seq(S!Callbacks) /\ callbacks' \in Seq(S!Callbacks)
    BY <1>1, <1>2, EmitsEffect DEF SessionInv
  <1>4. S!TypeOK'
    <2>1. destroyer' \in S!Destroyer
      BY DEF SessionInv, S!TypeOK, S!Destroyer
    <2>2. threw' = threw
      BY DEF S!Enqueue
    <2> QED
      BY <1>3, <2>1, <2>2 DEF SessionInv, S!TypeOK
  <1>5. threw' = threw
    BY DEF S!Enqueue
  <1>6. SessionPhases'
    BY <1>1, <1>3, <1>4, <1>5 DEF SessionInv, SessionPhases, SessionDown, NotUp, SessionUp,
       S!TypeOK, S!Helper, S!Destroyer, S!Refresher
  <1>7. SessionDown'
    BY <1>1, <1>3, <1>4, <1>5 DEF SessionInv, SessionPhases, SessionDown, NotUp, SessionUp,
       S!TypeOK, S!Helper, S!Destroyer, S!Refresher
  <1>8. SessionUp'
    BY <1>1, <1>3, <1>4, <1>5 DEF SessionInv, SessionPhases, SessionDown, NotUp, SessionUp,
       S!TypeOK, S!Helper, S!Destroyer, S!Refresher
  <1> QED
    BY <1>3, <1>4, <1>6, <1>7, <1>8 DEF SessionInv

\* The callback connectFailed().
LEMMA SessionConnectFailedCallback ==
    ASSUME SessionInv, S!ConnectFailedCallback
    PROVE  SessionInv'
  <1> USE DEF S!ConnectFailedCallback, S!Running, S!external
  <1>1. helper' = helper /\ Emits("connectFailed")
    BY DEF Emits, S!Enqueue, S!Notify
  <1>2. "connectFailed" \in S!Callbacks /\ "connectFailed" \notin Emitted
    BY DEF SessionInv, SessionPhases, S!Callbacks
  <1>3. /\ SessionOnce' /\ Emitted' = Emitted \cup {"connectFailed"}
        /\ Queued' \subseteq Queued \cup {"connectFailed"} /\ ToldSet \subseteq ToldSet'
        /\ ~helper.dispatcher => Queued' = Queued
        /\ queue' \in Seq(S!Callbacks) /\ callbacks' \in Seq(S!Callbacks)
    BY <1>1, <1>2, EmitsEffect DEF SessionInv
  <1>4. S!TypeOK'
    <2>1. destroyer' \in S!Destroyer
      BY DEF SessionInv, S!TypeOK, S!Destroyer
    <2>2. threw' = threw
      BY DEF S!Enqueue
    <2> QED
      BY <1>3, <2>1, <2>2 DEF SessionInv, S!TypeOK
  <1>5. threw' = threw
    BY DEF S!Enqueue
  <1>6. SessionPhases'
    BY <1>1, <1>3, <1>4, <1>5 DEF SessionInv, SessionPhases, SessionDown, NotUp, SessionUp,
       S!TypeOK, S!Helper, S!Destroyer, S!Refresher
  <1>7. SessionDown'
    BY <1>1, <1>3, <1>4, <1>5 DEF SessionInv, SessionPhases, SessionDown, NotUp, SessionUp,
       S!TypeOK, S!Helper, S!Destroyer, S!Refresher
  <1>8. SessionUp'
    BY <1>1, <1>3, <1>4, <1>5 DEF SessionInv, SessionPhases, SessionDown, NotUp, SessionUp,
       S!TypeOK, S!Helper, S!Destroyer, S!Refresher
  <1> QED
    BY <1>3, <1>4, <1>6, <1>7, <1>8 DEF SessionInv

\* The callback disconnected(), the last step of destroyInternal().
LEMMA SessionDisconnected ==
    ASSUME SessionInv, S!Disconnected
    PROVE  SessionInv'
  <1> USE DEF S!Disconnected, S!Running, S!external
  <1>1. helper' = helper /\ Emits("disconnected")
    BY DEF Emits, S!Enqueue, S!Notify
  <1>2. "disconnected" \in S!Callbacks /\ "disconnected" \notin Emitted
    BY DEF SessionInv, SessionPhases, S!Callbacks
  <1>3. /\ SessionOnce' /\ Emitted' = Emitted \cup {"disconnected"}
        /\ Queued' \subseteq Queued \cup {"disconnected"} /\ ToldSet \subseteq ToldSet'
        /\ ~helper.dispatcher => Queued' = Queued
        /\ queue' \in Seq(S!Callbacks) /\ callbacks' \in Seq(S!Callbacks)
    BY <1>1, <1>2, EmitsEffect DEF SessionInv
  <1>4. S!TypeOK'
    <2>1. destroyer' \in S!Destroyer
      BY DEF SessionInv, S!TypeOK, S!Destroyer
    <2>2. threw' = threw
      BY DEF S!Enqueue
    <2> QED
      BY <1>3, <2>1, <2>2 DEF SessionInv, S!TypeOK
  <1>5. threw' = threw
    BY DEF S!Enqueue
  <1>6. SessionPhases'
    BY <1>1, <1>3, <1>4, <1>5 DEF SessionInv, SessionPhases, SessionDown, NotUp, SessionUp,
       S!TypeOK, S!Helper, S!Destroyer, S!Refresher
  <1>7. SessionDown'
    BY <1>1, <1>3, <1>4, <1>5 DEF SessionInv, SessionPhases, SessionDown, NotUp, SessionUp,
       S!TypeOK, S!Helper, S!Destroyer, S!Refresher
  <1>8. SessionUp'
    BY <1>1, <1>3, <1>4, <1>5 DEF SessionInv, SessionPhases, SessionDown, NotUp, SessionUp,
       S!TypeOK, S!Helper, S!Destroyer, S!Refresher
  <1> QED
    BY <1>3, <1>4, <1>6, <1>7, <1>8 DEF SessionInv

\* What Connected::run() does to the session, by cases.
Kept == helper' = helper /\ destroyer' = destroyer
Runs ==
    \/ (Kept \/ S!DoDestroy) /\ threw' = threw /\ connector' = "done"
    \/ Kept /\ threw' \in {"connected", "terminated"} /\ connector' \in {"failing", "done"}

\* What destroy() changes, whoever calls it.
LEMMA SessionDestroys ==
    ASSUME SessionInv, S!DoDestroy
    PROVE  /\ helper' \in S!Helper /\ destroyer' \in S!Destroyer
           /\ helper'.dispatcher = helper.dispatcher /\ ~helper'.connected /\ helper'.destroy
           /\ helper'.refreshThread = helper.refreshThread
           /\ destroyer' = destroyer \/ (destroyer.at = "none" /\ destroyer'.at = "begin")
  <1> USE DEF S!DoDestroy, S!Destroyed, S!DestroyThread
  <1>1. helper' \in S!Helper
    BY DEF SessionInv, S!TypeOK, S!Helper
  <1>2. destroyer' \in S!Destroyer
    BY DEF SessionInv, S!TypeOK, S!Destroyer
  <1> QED
    BY <1>1, <1>2 DEF SessionInv, SessionUp, S!TypeOK, S!Helper, S!Destroyer

\* The callback connected() ran, and the thread that ran it went on.
LEMMA SessionRuns ==
    ASSUME SessionInv, connector \in {"connected", "done"}, "connectFailed" \notin Emitted,
           threw \notin {"connected", "terminated"}, Runs,
           SessionOnce', Emitted' = Emitted \cup {"connected"}, Queued' \subseteq Queued,
           ToldSet' = ToldSet \cup {"connected"},
           queue' \in Seq(S!Callbacks), callbacks' \in Seq(S!Callbacks),
           UNCHANGED <<communicator, refresher, failure, atRouter>>
    PROVE  SessionInv'
  <1>1. /\ helper' \in S!Helper /\ destroyer' \in S!Destroyer
        /\ Kept \/ (/\ ~helper'.connected /\ helper'.destroy
                    /\ helper'.refreshThread = helper.refreshThread
                    /\ destroyer' = destroyer
                       \/ (destroyer.at = "none" /\ destroyer'.at = "begin"))
    <2>1. CASE Kept
      BY <2>1 DEF Kept, SessionInv, S!TypeOK
    <2>2. CASE S!DoDestroy
      BY <2>2, SessionDestroys
    <2> QED
      BY <2>1, <2>2 DEF Runs
  <1>2. \/ threw' = threw /\ connector' = "done"
        \/ threw' \in {"connected", "terminated"} /\ connector' \in {"failing", "done"}
    BY DEF Runs
  <1>3. S!TypeOK'
    BY <1>1, <1>2 DEF SessionInv, S!TypeOK
  <1>4. ~NotUp'
    BY <1>2, <1>3 DEF SessionInv, SessionPhases, NotUp, S!TypeOK
  <1>5. SessionPhases'
    BY <1>1, <1>2, <1>3 DEF SessionInv, SessionPhases, Kept, S!TypeOK, S!Helper, S!Destroyer,
       S!Refresher
  <1>6. SessionUp'
    BY <1>1, <1>2, <1>3 DEF SessionInv, SessionUp, Kept, S!TypeOK, S!Helper, S!Destroyer,
       S!Refresher
  <1> QED
    BY <1>3, <1>4, <1>5, <1>6 DEF SessionInv, SessionDown

\* The callback connected().
LEMMA SessionConnectedCallback ==
    ASSUME SessionInv, S!ConnectedCallback
    PROVE  SessionInv'
  <1> USE DEF S!ConnectedCallback, S!Running, S!external
  <1>1. /\ "connected" \in S!Callbacks /\ "connected" \notin Emitted
        /\ "connectFailed" \notin Emitted /\ connector = "connected"
        /\ threw \notin {"connected", "terminated"}
    BY DEF SessionInv, SessionPhases, S!Callbacks, Emitted
  <1>2. CASE helper.dispatcher
    <2>1. helper' = helper /\ Emits("connected") /\ destroyer' = destroyer /\ threw' = threw
      BY <1>2 DEF Emits, S!Enqueue
    <2>2. /\ SessionOnce' /\ Emitted' = Emitted \cup {"connected"}
          /\ Queued' \subseteq Queued \cup {"connected"} /\ ToldSet \subseteq ToldSet'
          /\ queue' \in Seq(S!Callbacks) /\ callbacks' \in Seq(S!Callbacks)
      BY <1>1, <2>1, EmitsEffect DEF SessionInv
    <2>3. connector' = "done"
      BY <1>2
    <2>4. S!TypeOK'
      BY <2>1, <2>2, <2>3 DEF SessionInv, S!TypeOK
    <2>5. SessionPhases' /\ SessionDown' /\ SessionUp'
      BY <1>1, <2>1, <2>2, <2>3, <2>4 DEF SessionInv, SessionPhases, SessionDown, NotUp,
         SessionUp, S!TypeOK, S!Helper, S!Destroyer, S!Refresher
    <2> QED
      BY <2>2, <2>4, <2>5 DEF SessionInv
  <1>3. CASE ~helper.dispatcher
    <2>1. Runs /\ callbacks' = Append(callbacks, "connected") /\ queue' = queue
      BY <1>3 DEF Runs, Kept, S!RunConnected, S!Notify
    <2>2. helper'.dispatcher = helper.dispatcher
      BY <2>1, SessionDestroys DEF Runs, Kept
    <2>3. Emits("connected")
      BY <2>1, <1>3 DEF Emits
    <2>4. /\ SessionOnce' /\ Emitted' = Emitted \cup {"connected"}
          /\ queue' \in Seq(S!Callbacks) /\ callbacks' \in Seq(S!Callbacks)
      BY <1>1, <2>2, <2>3, EmitsEffect DEF SessionInv
    <2>5. Queued' = Queued /\ ToldSet' = ToldSet \cup {"connected"}
      BY <2>1, <1>1, ValuesAppend DEF Queued, ToldSet, SessionInv, S!TypeOK
    <2> QED
      BY <1>1, <2>1, <2>4, <2>5, SessionRuns
  <1> QED
    BY <1>2, <1>3

\* The dispatcher runs a callback.
LEMMA SessionDispatch ==
    ASSUME SessionInv, S!Dispatch
    PROVE  SessionInv'
  <1> USE DEF S!Dispatch, S!Running, S!external
  <1>0. queue # <<>> /\ queue' = Tail(queue) /\ callbacks' = Append(callbacks, Head(queue))
    BY DEF S!RunConnected, S!Notify
  <1>1. CASE Head(queue) = "connected"
    <2>1. /\ connector' = connector
          /\ \/ (Kept \/ S!DoDestroy) /\ threw' = threw
             \/ Kept /\ threw' \in {"connected", "terminated"}
      BY <1>1 DEF Kept, S!RunConnected, S!Notify
    <2>2. helper'.dispatcher = helper.dispatcher
      BY <2>1, SessionDestroys DEF Kept
    <2>3. /\ SessionOnce' /\ Emitted' = Emitted /\ "connected" \in Queued
          /\ "connected" \notin ToldSet
          /\ Queued' = Queued \ {"connected"} /\ ToldSet' = ToldSet \cup {"connected"}
          /\ queue' \in Seq(S!Callbacks) /\ callbacks' \in Seq(S!Callbacks)
      BY <1>0, <1>1, <2>2, DeliversEffect DEF SessionInv
    <2>4. "connected" \in Emitted
      BY <2>3 DEF Emitted
    <2>5. threw \notin {"connected", "terminated"}
      BY <2>3 DEF SessionInv, SessionPhases
    <2>6. connector = "done" /\ "connectFailed" \notin Emitted
      BY <2>4, <2>5 DEF SessionInv, SessionPhases, SessionDown, NotUp
    <2>7. Runs
      BY <2>1, <2>6 DEF Runs
    <2>8. UNCHANGED <<communicator, refresher, failure, atRouter>>
      OBVIOUS
    <2>9. Emitted' = Emitted \cup {"connected"} /\ Queued' \subseteq Queued
      BY <2>3, <2>4
    <2> QED
      BY <2>3, <2>5, <2>6, <2>7, <2>8, <2>9, SessionRuns
  <1>2. CASE Head(queue) # "connected"
    <2>1. helper' = helper /\ destroyer' = destroyer
      BY <1>2
    <2>2. /\ SessionOnce' /\ Emitted' = Emitted /\ Head(queue) \in Queued
          /\ Head(queue) \notin ToldSet
          /\ Queued' = Queued \ {Head(queue)} /\ ToldSet' = ToldSet \cup {Head(queue)}
          /\ queue' \in Seq(S!Callbacks) /\ callbacks' \in Seq(S!Callbacks)
      BY <1>0, <2>1, DeliversEffect DEF SessionInv
    <2>3. CASE Head(queue) = "createdCommunicator"
      <3>1. \/ connector' = "connect" /\ threw' = threw
            \/ threw' = "created" /\ connector' = connector
        BY <2>3
      <3>2. connector = "waiting" /\ Head(queue) \in Emitted
        BY <2>2, <2>3 DEF SessionInv, SessionPhases, Emitted
      <3>3. S!TypeOK'
        BY <2>1, <2>2, <3>1 DEF SessionInv, S!TypeOK
      <3>4. threw \notin {"connected", "terminated", "created"}
        BY <2>2, <2>3, <3>2 DEF SessionInv, SessionPhases, SessionDown, NotUp, Emitted
      <3>5. SessionPhases'
        BY <2>1, <2>2, <2>3, <3>1, <3>2, <3>3, <3>4 DEF SessionInv, SessionPhases, SessionDown,
           NotUp, SessionUp, S!TypeOK, S!Helper, S!Destroyer, S!Refresher
      <3>6. SessionDown'
        BY <2>1, <2>2, <3>1, <3>2 DEF SessionInv, SessionDown, NotUp
      <3>7. SessionUp'
        BY <2>1, <3>1, <3>2, <3>4 DEF SessionInv, SessionUp, SessionPhases
      <3> QED
        BY <2>2, <3>3, <3>5, <3>6, <3>7 DEF SessionInv
    <2>4. CASE Head(queue) # "createdCommunicator"
      <3>1. connector' = connector /\ threw' = threw
        BY <1>2, <2>4
      <3>3. S!TypeOK'
        BY <2>1, <2>2, <3>1 DEF SessionInv, S!TypeOK
      <3>4. SessionPhases' /\ SessionDown' /\ SessionUp'
        BY <2>1, <2>2, <3>1, <3>3 DEF SessionInv, SessionPhases, SessionDown, NotUp, SessionUp,
           S!TypeOK, S!Helper, S!Destroyer, S!Refresher
      <3> QED
        BY <2>2, <3>3, <3>4 DEF SessionInv
    <2> QED
      BY <2>3, <2>4
  <1> QED
    BY <1>1, <1>2

\* A new session helper satisfies the invariant.
LEMMA SessionInit == ASSUME S!Init PROVE SessionInv
  <1>1. callbacks = <<>> /\ queue = <<>> /\ ToldSet = {} /\ Queued = {} /\ Emitted = {}
    BY ValuesEmpty DEF S!Init, ToldSet, Queued, Emitted
  <1>2. SessionOnce
    BY <1>1, ValuesEmpty DEF SessionOnce
  <1>3. S!TypeOK
    <2>1. helper \in S!Helper
      BY DEF S!Init, S!Helper
    <2>2. destroyer \in S!Destroyer /\ refresher \in S!Refresher
      BY DEF S!Init, S!Destroyer, S!Refresher
    <2>3. failure \in BOOLEAN /\ atRouter \in BOOLEAN
      BY DEF S!Init
    <2>4. queue \in Seq(S!Callbacks) /\ callbacks \in Seq(S!Callbacks)
      BY <1>1
    <2> QED
      BY <2>1, <2>2, <2>3, <2>4 DEF S!Init, S!TypeOK
  <1>4. SessionPhases /\ SessionDown /\ SessionUp
    BY <1>1 DEF S!Init, SessionPhases, SessionDown, NotUp, SessionUp
  <1> QED
    BY <1>2, <1>3, <1>4 DEF SessionInv

\* Every step of the session helper and its threads keeps the invariant.
LEMMA SessionStep == ASSUME SessionInv, S!Next PROVE SessionInv'
  BY SessionDestroy, SessionConnectImpl, SessionConnect, SessionConnected, SessionConnectFailed,
     SessionRefresh, SessionRefreshWakes, SessionRefreshFailed, SessionDestroyInternal,
     SessionDestroySession, SessionJoinRefresher, SessionDestroyCommunicator,
     SessionCreatedCommunicator, SessionConnectFailedCallback, SessionDisconnected,
     SessionConnectedCallback, SessionDispatch
     DEF S!Next, S!ConnectorStep, S!DestroyerStep

\* Steps of the other components do not touch the session helper.
LEMMA SessionStutters == ASSUME SessionInv, UNCHANGED sessionVars PROVE SessionInv'
  <1>1. SessionOnce' /\ Emitted' = Emitted /\ Queued' = Queued /\ ToldSet' = ToldSet
    BY SameEffect DEF SessionInv, sessionVars
  <1>2. S!TypeOK' /\ NotUp' = NotUp
    BY <1>1 DEF SessionInv, S!TypeOK, sessionVars, NotUp
  <1> QED
    BY <1>1, <1>2 DEF SessionInv, SessionPhases, SessionDown, SessionUp, sessionVars

\* SessionInv is an inductive invariant of the session helper.
THEOREM SessionInductive == Spec => []SessionInv
  <1>1. Init => SessionInv
    BY SessionInit DEF Init
  <1>2. SessionInv /\ [Next]_vars => SessionInv'
    BY SessionStep, SessionStutters DEF Next, vars
  <1> QED
    BY <1>1, <1>2, PTL DEF Spec

\* The invariant gives what the run checks: one end, reported when it has come.
LEMMA SessionInvEnd == ASSUME SessionInv PROVE S!OneEnd
  <1>1. \A c : S!Told(c) <=> c \in ToldSet
    BY DEF S!Told, S!Contains, ToldSet, Values
  <1>2. S!IsInjective(callbacks)
    <2>1. DOMAIN callbacks = 1 .. Len(callbacks)
      BY DEF SessionInv, S!TypeOK
    <2> QED
      BY <2>1 DEF SessionInv, SessionOnce, Once, S!IsInjective
  <1>3. \A c : c \in ToldSet => c \in Emitted
    BY DEF Emitted
  <1> QED
    BY <1>1, <1>2, <1>3 DEF S!OneEnd, SessionInv, SessionPhases, SessionDown, NotUp, SessionUp,
       S!TypeOK, S!Helper, S!Destroyer, S!Refresher

\* SessionHelperI: the application is told of each event once and of one end only, and when
\* it is told the communicator is destroyed and the refresh thread has ended; with a
\* dispatcher or without, in whatever phase destroy() comes.
THEOREM SessionIsExact == Spec => []SessionExact
  <1>1. SessionInv => SessionExact
    BY SessionInvEnd DEF SessionInv, SessionExact
  <1> QED
    BY <1>1, SessionInductive, PTL

-----------------------------------------------------------------------------
(* The record of the router *)

\* The proxies that the router added and the client has not recorded, and the users whose
\* answers evict a proxy.
Adding == {q \in Proxies : \E u \in Users : user[u].at = "reply" /\ user[u].proxy = q}
Evicting(q) == {u \in Users : user[u].at = "reply" /\ q \in user[u].reply}

\* 1 if q is in T.
Count(q, T) == IF q \in T THEN 1 ELSE 0

\* The routing table has no proxy twice.
RoutesOnce == Once(routes)
\* A proxy is not noted as evicted while it is in the local map.
Apart == \A q \in identities : evicted[q] = 0
\* Unless additions overlapped, a proxy that is being added is added once, and not in the map.
AddedAlone ==
    ~overlapped =>
        /\ \A u, v \in Users :
               (/\ user[u].at \in {"add", "reply"} /\ user[v].at \in {"add", "reply"}
                /\ user[u].proxy = user[v].proxy) => u = v
        /\ \A u \in Users : user[u].at \in {"add", "reply"} => user[u].proxy \notin identities
\* For every proxy: being in the local map, or about to be entered, is backed by the router,
\* by a note that it was evicted, or by an answer under way that evicts it.
Balance ==
    (losses = 0 /\ ~overlapped) =>
        \A q \in Proxies :
            Count(q, identities) + Count(q, Adding) <=
                Count(q, Values(routes)) + evicted[q] + Cardinality(Evicting(q))

\* The inductive invariant of Router.
RouterInv == R!RTypeOK /\ RoutesOnce /\ Apart /\ AddedAlone /\ Balance

\* A sequence without its i-th element.
LEMMA RemovedAt ==
    ASSUME NEW T, NEW s \in Seq(T), NEW i \in 1 .. Len(s)
    PROVE  /\ R!RemoveAt(s, i) \in Seq(T) /\ Len(R!RemoveAt(s, i)) = Len(s) - 1
           /\ \A k \in 1 .. Len(s) - 1 :
                  R!RemoveAt(s, i)[k] = IF k < i THEN s[k] ELSE s[k + 1]
  <1> DEFINE a == SubSeq(s, 1, i - 1)
             b == SubSeq(s, i + 1, Len(s))
  <1>1. a \in Seq(T) /\ Len(a) = i - 1 /\ \A k \in 1 .. i - 1 : a[k] = s[k]
    OBVIOUS
  <1>2. b \in Seq(T) /\ Len(b) = Len(s) - i /\ \A k \in 1 .. Len(s) - i : b[k] = s[k + i]
    OBVIOUS
  <1>3. R!RemoveAt(s, i) = a \o b
    BY DEF R!RemoveAt
  <1> HIDE DEF a, b
  <1>4. Len(a \o b) = Len(s) - 1 /\ a \o b \in Seq(T)
    <2>1. a \o b \in Seq(T) /\ Len(a \o b) = Len(a) + Len(b)
      BY <1>1, <1>2, ConcatProperties
    <2>2. (i - 1) + (Len(s) - i) = Len(s) - 1
      OBVIOUS
    <2> QED
      BY <2>1, <2>2, <1>1, <1>2
  <1>5. ASSUME NEW k \in 1 .. Len(s) - 1
        PROVE  (a \o b)[k] = IF k < i THEN s[k] ELSE s[k + 1]
    <2>1. CASE k < i
      BY <2>1, <1>1, <1>2
    <2>2. CASE ~(k < i)
      <3>1. k - (i - 1) \in 1 .. Len(s) - i /\ (k - (i - 1)) + i = k + 1
        BY <2>2
      <3>2. (a \o b)[k] = b[k - (i - 1)]
        BY <2>2, <1>1, <1>2, <3>1
      <3> QED
        BY <2>2, <3>1, <3>2, <1>2
    <2> QED
      BY <2>1, <2>2
  <1> QED
    BY <1>3, <1>4, <1>5

\* The routing table without a proxy.
LEMMA TakenOut ==
    ASSUME NEW T, NEW s \in Seq(T), Once(s), NEW p \in T
    PROVE  /\ R!Without(s, p) \in Seq(T) /\ Once(R!Without(s, p))
           /\ Values(R!Without(s, p)) = Values(s) \ {p} /\ Len(R!Without(s, p)) <= Len(s)
           /\ p \in Values(s) => Len(R!Without(s, p)) = Len(s) - 1
  <1>1. R!Contains(s, p) <=> p \in Values(s)
    BY DEF R!Contains, Values
  <1>2. CASE p \notin Values(s)
    BY <1>1, <1>2 DEF R!Without
  <1>3. CASE p \in Values(s)
    <2>1. PICK i \in 1 .. Len(s) : i = (CHOOSE j \in 1 .. Len(s) : s[j] = p) /\ s[i] = p
      BY <1>3 DEF Values
    <2>2. PICK t : t = R!Without(s, p)
      OBVIOUS
    <2>3. t = R!RemoveAt(s, i)
      BY <1>1, <1>3, <2>1, <2>2 DEF R!Without
    <2>4. /\ t \in Seq(T) /\ Len(t) = Len(s) - 1
          /\ \A k \in 1 .. Len(s) - 1 : t[k] = IF k < i THEN s[k] ELSE s[k + 1]
      BY <2>3, RemovedAt
    <2> DEFINE From(k) == IF k < i THEN k ELSE k + 1
    <2>5. \A k \in 1 .. Len(t) : From(k) \in 1 .. Len(s) /\ t[k] = s[From(k)] /\ From(k) # i
      BY <2>4
    <2>6. \A k, m \in 1 .. Len(t) : From(k) = From(m) => k = m
      OBVIOUS
    <2>7. \A j \in 1 .. Len(s) : j # i => \E k \in 1 .. Len(t) : From(k) = j
      <3> SUFFICES ASSUME NEW j \in 1 .. Len(s), j # i PROVE \E k \in 1 .. Len(t) : From(k) = j
        OBVIOUS
      <3>1. CASE j < i
        <4>1. j \in 1 .. Len(t) /\ From(j) = j
          BY <3>1, <2>4
        <4> QED
          BY <4>1
      <3>2. CASE ~(j < i)
        <4>1. j - 1 \in 1 .. Len(t) /\ From(j - 1) = j
          BY <3>2, <2>4
        <4> QED
          BY <4>1
      <3> QED
        BY <3>1, <3>2
    <2> HIDE DEF From
    <2>8. Once(t)
      BY <2>5, <2>6 DEF Once
    <2>9. Values(t) \subseteq Values(s) \ {p}
      BY <2>1, <2>5 DEF Values, Once
    <2>10. Values(s) \ {p} \subseteq Values(t)
      BY <2>1, <2>5, <2>7 DEF Values
    <2> QED
      BY <2>2, <2>4, <2>8, <2>9, <2>10
  <1> QED
    BY <1>2, <1>3

\* A proxy that is used becomes the last one of the routing table, and no other leaves it.
LEMMA UsedLast ==
    ASSUME NEW T, NEW s \in Seq(T), Once(s), NEW p \in T
    PROVE  /\ R!Used(s, p) \in Seq(T) /\ Once(R!Used(s, p)) /\ R!Used(s, p) # <<>>
           /\ Values(R!Used(s, p)) = Values(s) \cup {p} /\ Len(R!Used(s, p)) <= Len(s) + 1
           /\ p \in Values(s) => Len(R!Used(s, p)) = Len(s)
  <1>1. PICK w : w = R!Without(s, p)
    OBVIOUS
  <1>2. /\ w \in Seq(T) /\ Once(w) /\ Values(w) = Values(s) \ {p} /\ Len(w) <= Len(s)
        /\ p \in Values(s) => Len(w) = Len(s) - 1
    BY <1>1, TakenOut
  <1>3. /\ Values(Append(w, p)) = Values(w) \cup {p} /\ Once(Append(w, p))
    BY <1>2, ValuesAppend
  <1>4. Append(w, p) \in Seq(T) /\ Len(Append(w, p)) = Len(w) + 1 /\ Append(w, p) # <<>>
    BY <1>2
  <1>5. R!Used(s, p) = Append(w, p)
    BY <1>1 DEF R!Used
  <1>6. Len(s) \in Nat /\ Len(w) \in Nat
    BY <1>2
  <1> QED
    BY <1>2, <1>3, <1>4, <1>5, <1>6

\* There are finitely many answers under way.
LEMMA EvictingFinite ==
    ASSUME NEW q PROVE IsFiniteSet(Evicting(q)) /\ Cardinality(Evicting(q)) \in Nat
  <1>1. Evicting(q) \subseteq Users
    BY DEF Evicting
  <1> QED
    BY <1>1, FS_Subset, FS_CardinalityType, RouterAssumption

\* A step of a user that neither gets an answer nor processes one.
LEMMA RouterAside ==
    ASSUME RouterInv, NEW u \in Users, user[u].at # "reply",
           user' = [user EXCEPT ![u] = user'[u]], user'[u].at # "reply",
           evicted' = evicted, losses' = losses, R!RTypeOK', Once(routes'),
           Values(routes') = Values(routes), identities' \subseteq identities,
           overlapped => overlapped', AddedAlone'
    PROVE  RouterInv'
  <1>1. Adding' = Adding
    BY DEF Adding, RouterInv, R!RTypeOK
  <1>2. \A q \in Proxies : Evicting(q)' = Evicting(q)
    BY DEF Evicting, RouterInv, R!RTypeOK
  <1>3. \A q : Count(q, identities') <= Count(q, identities)
    BY DEF Count
  <1>4. \A q, T : Count(q, T) \in Nat
    BY DEF Count
  <1>5. Balance'
    <2> SUFFICES ASSUME losses = 0, ~overlapped, NEW q \in Proxies
                 PROVE  Count(q, identities') + Count(q, Adding') <=
                        Count(q, Values(routes')) + evicted'[q] + Cardinality(Evicting(q)')
      BY DEF Balance
    <2>1. Count(q, identities) + Count(q, Adding) <=
              Count(q, Values(routes)) + evicted[q] + Cardinality(Evicting(q))
      BY DEF Balance, RouterInv
    <2>2. evicted[q] \in Nat
      BY DEF RouterInv, R!RTypeOK
    <2> HIDE DEF RouterInv
    <2> QED
      BY <1>1, <1>2, <1>3, <1>4, <2>1, <2>2, EvictingFinite
  <1>6. Apart'
    BY DEF RouterInv, Apart
  <1> QED
    BY <1>5, <1>6 DEF RouterInv, RoutesOnce

\* A user begins an invocation.
LEMMA RouterBegin ==
    ASSUME RouterInv, NEW u \in Users, R!Begin(u)
    PROVE  RouterInv'
  <1> USE DEF R!Begin
  <1>1. PICK p \in Proxies :
            user' = [user EXCEPT ![u] = [at |-> "check", proxy |-> p, reply |-> {}]]
    OBVIOUS
  <1>2. /\ user'[u] = [at |-> "check", proxy |-> p, reply |-> {}]
        /\ user' = [user EXCEPT ![u] = user'[u]]
    BY <1>1 DEF RouterInv, R!RTypeOK
  <1>3. R!RTypeOK'
    BY <1>1 DEF RouterInv, R!RTypeOK
  <1>4. AddedAlone'
    BY <1>1 DEF RouterInv, R!RTypeOK, AddedAlone
  <1>5. /\ user[u].at # "reply" /\ user'[u].at # "reply" /\ Once(routes') /\ routes' = routes
        /\ Values(routes') = Values(routes) /\ identities' \subseteq identities
        /\ overlapped => overlapped'
    BY <1>2 DEF RouterInv, RoutesOnce
  <1> QED
    BY <1>2, <1>3, <1>4, <1>5, RouterAside

\* addProxy(): a proxy that is not in the local map is about to be added.
LEMMA RouterAddProxy ==
    ASSUME RouterInv, NEW u \in Users, R!AddProxy(u)
    PROVE  RouterInv'
  <1> USE DEF R!AddProxy, R!Goes
  <1> DEFINE p == user[u].proxy
             place == IF p \in identities THEN "invoke" ELSE "add"
  <1>1. /\ user'[u].at = place /\ user'[u].proxy = p /\ user' = [user EXCEPT ![u] = user'[u]]
        /\ \A v \in Users \ {u} : user'[v] = user[v]
    BY DEF RouterInv, R!RTypeOK
  <1>2. R!RTypeOK'
    BY DEF RouterInv, R!RTypeOK
  <1>3. AddedAlone'
    <2> SUFFICES ASSUME ~overlapped'
                 PROVE  /\ \A w, v \in Users :
                              (/\ user'[w].at \in {"add", "reply"}
                               /\ user'[v].at \in {"add", "reply"}
                               /\ user'[w].proxy = user'[v].proxy) => w = v
                        /\ \A w \in Users : user'[w].at \in {"add", "reply"}
                                => user'[w].proxy \notin identities
      BY DEF AddedAlone
    <2>1. ~overlapped /\ (p \notin identities => \A v \in Users \ {u} :
              ~(user[v].at \in {"add", "reply"} /\ user[v].proxy = p))
      OBVIOUS
    <2> QED
      BY <1>1, <2>1 DEF RouterInv, AddedAlone
  <1>4. overlapped => overlapped'
    OBVIOUS
  <1>5. /\ user[u].at # "reply" /\ user'[u].at # "reply" /\ Once(routes') /\ routes' = routes
        /\ Values(routes') = Values(routes) /\ identities' \subseteq identities
    BY <1>1 DEF RouterInv, RoutesOnce
  <1> QED
    BY <1>1, <1>2, <1>3, <1>4, <1>5, RouterAside

\* The router forwards the request, or clearCache() corrects the record.
LEMMA RouterInvoke ==
    ASSUME RouterInv, NEW u \in Users, R!Invoke(u)
    PROVE  RouterInv'
  <1> USE DEF R!Invoke, R!Goes
  <1> DEFINE p == user[u].proxy
  <1>0. p \in Proxies /\ routes \in Seq(Proxies) /\ Once(routes) /\ identities' \subseteq identities
    BY DEF RouterInv, R!RTypeOK, RoutesOnce
  <1>1. /\ user'[u].at \in {"done", "check"} /\ user'[u].proxy = p
        /\ user' = [user EXCEPT ![u] = user'[u]]
        /\ \A v \in Users \ {u} : user'[v] = user[v]
    BY DEF RouterInv, R!RTypeOK
  <1>2. /\ routes' \in Seq(Proxies) /\ Once(routes') /\ Values(routes') = Values(routes)
        /\ Len(routes') = Len(routes)
    <2>1. CASE R!Contains(routes, p)
      <3>1. p \in Values(routes) /\ routes' = R!Used(routes, p)
        BY <2>1 DEF R!Contains, Values
      <3>2. /\ routes' \in Seq(Proxies) /\ Once(routes')
            /\ Values(routes') = Values(routes) \cup {p} /\ Len(routes') = Len(routes)
        <4> HIDE DEF p
        <4>1. PICK t : t = R!Used(routes, p)
          OBVIOUS
        <4>2. /\ R!Used(routes, p) \in Seq(Proxies) /\ Once(R!Used(routes, p))
              /\ Values(R!Used(routes, p)) = Values(routes) \cup {p}
              /\ p \in Values(routes) => Len(R!Used(routes, p)) = Len(routes)
          BY ONLY <1>0, UsedLast
        <4> QED
          BY <4>1, <4>2, <3>1
      <3> QED
        BY <3>1, <3>2
    <2>2. CASE ~R!Contains(routes, p)
      BY <1>0, <2>2
    <2> QED
      BY <2>1, <2>2
  <1>3. R!RTypeOK'
    <2>1. user' \in [Users -> [at : {"idle", "check", "add", "reply", "invoke", "done", "failed"},
                               proxy : Proxies, reply : SUBSET Proxies]]
      <3>1. user \in [Users -> [at : {"idle", "check", "add", "reply", "invoke", "done", "failed"},
                                proxy : Proxies, reply : SUBSET Proxies]]
        BY DEF RouterInv, R!RTypeOK
      <3>2. PICK place \in {"done", "check"} : user' = [user EXCEPT ![u].at = place]
        OBVIOUS
      <3> QED
        BY ONLY <3>1, <3>2, u \in Users
    <2>2. /\ identities' \subseteq Proxies /\ evicted' \in [Proxies -> Nat]
          /\ losses' \in 0 .. MaxRouterLoss /\ overlapped' \in BOOLEAN /\ Len(routes) <= Capacity
      BY <1>0 DEF RouterInv, R!RTypeOK
    <2> QED
      BY <1>2, <2>1, <2>2 DEF R!RTypeOK
  <1>4. AddedAlone'
    <2>1. \A v \in Users : user'[v].at \in {"add", "reply"} => v # u /\ user'[v] = user[v]
      BY <1>1
    <2>2. overlapped' = overlapped
      OBVIOUS
    <2>3. AddedAlone /\ identities' \subseteq identities
      BY <1>0 DEF RouterInv
    <2> QED
      BY ONLY <2>1, <2>2, <2>3 DEF AddedAlone
  <1> QED
    BY <1>0, <1>1, <1>2, <1>3, <1>4, RouterAside DEF RouterInv

\* addProxies() fails: from then on the record may be wrong.
LEMMA RouterRouterFails ==
    ASSUME RouterInv, NEW u \in Users, R!RouterFails(u)
    PROVE  RouterInv'
  <1> USE DEF R!RouterFails
  <1>1. R!RTypeOK'
    <2>1. losses' \in 0 .. MaxRouterLoss
      BY RouterAssumption DEF RouterInv, R!RTypeOK
    <2>2. user' \in [Users -> [at : {"idle", "check", "add", "reply", "invoke", "done", "failed"},
                               proxy : Proxies, reply : SUBSET Proxies]]
      BY DEF RouterInv, R!RTypeOK
    <2> QED
      BY <2>1, <2>2 DEF RouterInv, R!RTypeOK
  <1>2. Balance'
    BY DEF RouterInv, R!RTypeOK, Balance
  <1>3. AddedAlone'
    BY DEF RouterInv, R!RTypeOK, AddedAlone
  <1> QED
    BY <1>1, <1>2, <1>3 DEF RouterInv, Apart, RoutesOnce

\* Router::addProxies() makes room for the proxy.
LEMMA MakesRoom ==
    ASSUME NEW t \in Seq(Proxies), Once(t), t # <<>>, Len(t) <= Capacity + 1, NEW over \in Nat,
           over = IF Len(t) > Capacity THEN Len(t) - Capacity ELSE 0
    PROVE  LET kept == SubSeq(t, over + 1, Len(t))
               gone == R!ToSet(SubSeq(t, 1, over))
           IN  /\ kept \in Seq(Proxies) /\ Once(kept) /\ Len(kept) <= Capacity
               /\ gone \subseteq Proxies /\ Values(kept) = Values(t) \ gone
  <1> DEFINE kept == SubSeq(t, over + 1, Len(t))
             front == SubSeq(t, 1, over)
             gone == R!ToSet(front)
  <1> SUFFICES /\ kept \in Seq(Proxies) /\ Once(kept) /\ Len(kept) <= Capacity
               /\ gone \subseteq Proxies /\ Values(kept) = Values(t) \ gone
    OBVIOUS
  <1> USE RouterAssumption
  <1>1. Len(t) \in Nat /\ Len(t) > 0
    OBVIOUS
  <1>2. CASE over = 0
    <2>1. kept = t /\ Len(t) <= Capacity
      <3>1. Len(t) <= Capacity
        BY <1>1, <1>2
      <3>2. kept \in Seq(Proxies) /\ Len(kept) = Len(t) /\ \A k \in 1 .. Len(t) : kept[k] = t[k]
        BY <1>1, <1>2
      <3>3. kept = t
        BY ONLY <3>2, t \in Seq(Proxies), SeqEqual
      <3> QED
        BY <3>1, <3>3
    <2>2. gone = {}
      BY <1>2 DEF R!ToSet
    <2> HIDE DEF kept, gone
    <2> QED
      BY <2>1, <2>2
  <1>3. CASE over = 1
    <2>1. Len(t) = Capacity + 1 /\ Len(Tail(t)) = Capacity /\ Tail(t) \in Seq(Proxies)
      BY <1>1, <1>3
    <2>2. kept = Tail(t)
      <3>0. kept = SubSeq(t, 2, Len(t))
        <4>1. over + 1 = 2
          BY <1>3
        <4> QED
          BY <4>1
      <3>1. kept \in Seq(Proxies) /\ Len(kept) = Len(t) - 1
            /\ \A k \in 1 .. Len(t) - 1 : kept[k] = t[k + 1]
        <4>1. \A i \in 2 .. Len(t) : t[i] \in Proxies
          OBVIOUS
        <4>2. /\ SubSeq(t, 2, Len(t)) \in Seq(Proxies)
              /\ Len(SubSeq(t, 2, Len(t))) = IF 2 <= Len(t) THEN Len(t) - 2 + 1 ELSE 0
              /\ \A i \in 1 .. Len(t) - 2 + 1 : SubSeq(t, 2, Len(t))[i] = t[2 + i - 1]
          BY ONLY <1>1, <4>1, SubSeqProperties
        <4>3. \A i \in 1 .. Len(t) - 1 : i \in 1 .. Len(t) - 2 + 1 /\ 2 + i - 1 = i + 1
          BY <1>1
        <4> HIDE DEF kept
        <4>4. Len(kept) = IF 2 <= Len(t) THEN Len(t) - 2 + 1 ELSE 0
          BY ONLY <3>0, <4>2
        <4>5. kept \in Seq(Proxies) /\ Len(kept) = Len(t) - 1
          <5>1. PICK n \in Nat : n = Len(t) /\ n > 0
            BY ONLY <1>1
          <5>2. (IF 2 <= n THEN n - 2 + 1 ELSE 0) = n - 1
            BY ONLY <5>1
          <5>3. kept \in Seq(Proxies)
            BY ONLY <3>0, <4>2
          <5> QED
            BY ONLY <4>4, <5>1, <5>2, <5>3
        <4>6. \A i \in 1 .. Len(t) - 1 : kept[i] = t[i + 1]
          BY ONLY <3>0, <4>2, <4>3
        <4> QED
          BY ONLY <4>5, <4>6
      <3>2. Len(Tail(t)) = Len(t) - 1 /\ \A k \in 1 .. Len(t) - 1 : Tail(t)[k] = t[k + 1]
        BY <1>1
      <3> HIDE DEF kept
      <3> QED
        BY ONLY <2>1, <3>1, <3>2, SeqEqual
    <2>3. gone = {Head(t)}
      <3>1. DOMAIN front = {1} /\ front[1] = t[1]
        BY <1>1, <1>3
      <3>2. gone = {front[i] : i \in DOMAIN front}
        BY ONLY DEF R!ToSet
      <3>3. Head(t) = t[1]
        BY ONLY t \in Seq(Proxies), t # <<>>
      <3> HIDE DEF front, gone
      <3> QED
        BY ONLY <3>1, <3>2, <3>3
    <2>4. /\ Values(t) = Values(Tail(t)) \cup {Head(t)} /\ Head(t) \in Proxies
          /\ Once(Tail(t)) /\ Head(t) \notin Values(Tail(t))
      BY ONLY t \in Seq(Proxies), t # <<>>, Once(t), ValuesTail
    <2> HIDE DEF kept, gone
    <2> QED
      BY <2>1, <2>2, <2>3, <2>4
  <1>4. over = 0 \/ over = 1
    BY <1>1
  <1> QED
    BY <1>2, <1>3, <1>4

\* The router adds the proxy, and its answer evicts others.
LEMMA RouterRouterAdds ==
    ASSUME RouterInv, NEW u \in Users, R!RouterAdds(u)
    PROVE  RouterInv'
  <1> DEFINE p == user[u].proxy
             t == R!Used(routes, p)
             over == IF Len(t) > Capacity THEN Len(t) - Capacity ELSE 0
             gone == R!ToSet(SubSeq(t, 1, over))
  <1>1. /\ user[u].at = "add" /\ routes' = SubSeq(t, over + 1, Len(t))
        /\ user' = [user EXCEPT ![u].at = "reply", ![u].reply = gone]
        /\ identities' = identities /\ evicted' = evicted /\ losses' = losses
        /\ overlapped' = overlapped
    BY DEF R!RouterAdds
  <1>2. p \in Proxies /\ routes \in Seq(Proxies) /\ Once(routes) /\ Len(routes) <= Capacity
    BY DEF RouterInv, R!RTypeOK, RoutesOnce
  <1>3. /\ t \in Seq(Proxies) /\ Once(t) /\ t # <<>> /\ Len(t) <= Len(routes) + 1
        /\ Values(t) = Values(routes) \cup {p}
    <2> HIDE DEF p
    <2> QED
      BY ONLY <1>2, UsedLast
  <1> HIDE DEF t
  <1>4. Len(t) <= Capacity + 1 /\ over \in Nat
    BY <1>2, <1>3, RouterAssumption
  <1>5. /\ routes' \in Seq(Proxies) /\ Once(routes') /\ Len(routes') <= Capacity
        /\ gone \subseteq Proxies /\ Values(routes') = Values(t) \ gone
    <2> PICK ov \in Nat : ov = over
      BY <1>4
    <2>1. ov = IF Len(t) > Capacity THEN Len(t) - Capacity ELSE 0
      OBVIOUS
    <2>2. routes' = SubSeq(t, ov + 1, Len(t)) /\ gone = R!ToSet(SubSeq(t, 1, ov))
      BY <1>1
    <2> HIDE DEF gone, over
    <2> QED
      BY ONLY <1>3, <1>4, <2>1, <2>2, ov \in Nat, MakesRoom
  <1> HIDE DEF gone, over
  <1>6. /\ user'[u].at = "reply" /\ user'[u].proxy = p /\ user'[u].reply = gone
        /\ \A v \in Users \ {u} : user'[v] = user[v]
    BY <1>1 DEF RouterInv, R!RTypeOK
  <1>7. R!RTypeOK'
    <2>1. user' \in [Users -> [at : {"idle", "check", "add", "reply", "invoke", "done", "failed"},
                               proxy : Proxies, reply : SUBSET Proxies]]
      BY <1>1, <1>5 DEF RouterInv, R!RTypeOK
    <2> QED
      BY <1>1, <1>5, <2>1 DEF RouterInv, R!RTypeOK
  <1>8. AddedAlone'
    <2>1. \A w \in Users : /\ user'[w].at \in {"add", "reply"} <=> user[w].at \in {"add", "reply"}
                           /\ user'[w].proxy = user[w].proxy
      BY <1>1, <1>6
    <2>2. ~overlapped => \A w, v \in Users :
              (/\ user'[w].at \in {"add", "reply"} /\ user'[v].at \in {"add", "reply"}
               /\ user'[w].proxy = user'[v].proxy) => w = v
      BY <2>1 DEF RouterInv, AddedAlone
    <2>3. ~overlapped => \A w \in Users : user'[w].at \in {"add", "reply"}
                                           => user'[w].proxy \notin identities
      BY <2>1 DEF RouterInv, AddedAlone
    <2> QED
      BY <1>1, <2>2, <2>3 DEF AddedAlone
  <1>9. Adding' = Adding \cup {p}
    BY <1>1, <1>2, <1>6 DEF Adding
  <1>10. \A q \in Proxies : Evicting(q)' = IF q \in gone THEN Evicting(q) \cup {u} ELSE Evicting(q)
    BY <1>1, <1>6 DEF Evicting
  <1>11. \A q \in Proxies : u \notin Evicting(q)
    BY <1>1 DEF Evicting
  <1>12. \A q \in Proxies :
             /\ Cardinality(Evicting(q)) \in Nat
             /\ Cardinality(Evicting(q)') = IF q \in gone THEN Cardinality(Evicting(q)) + 1
                                            ELSE Cardinality(Evicting(q))
    <2> TAKE q \in Proxies
    <2>1. IsFiniteSet(Evicting(q)) /\ Cardinality(Evicting(q)) \in Nat
      BY EvictingFinite
    <2>2. Cardinality(Evicting(q) \cup {u}) = Cardinality(Evicting(q)) + 1
      BY ONLY <2>1, <1>11, q \in Proxies, FS_AddElement
    <2> QED
      BY <1>10, <2>1, <2>2
  <1>13. Balance'
    <2> SUFFICES ASSUME losses = 0, ~overlapped, NEW q \in Proxies
                 PROVE  Count(q, identities) + Count(q, Adding') <=
                        Count(q, Values(routes')) + evicted[q] + Cardinality(Evicting(q)')
      BY <1>1 DEF Balance
    <2>1. Count(q, identities) + Count(q, Adding) <=
              Count(q, Values(routes)) + evicted[q] + Cardinality(Evicting(q))
      BY DEF Balance, RouterInv
    <2>2. evicted[q] \in Nat
      BY DEF RouterInv, R!RTypeOK
    <2>3. p \notin identities
      BY <1>1 DEF RouterInv, AddedAlone
    <2>4. Values(routes') = (Values(routes) \cup {p}) \ gone
      BY <1>3, <1>5
    <2>5. CASE q = p
      <3>1. Count(q, identities) = 0 /\ Count(q, Adding') = 1
        BY <2>3, <2>5, <1>9 DEF Count
      <3>2. Count(q, Values(routes')) = IF q \in gone THEN 0 ELSE 1
        BY <2>4, <2>5 DEF Count
      <3> QED
        BY ONLY <2>2, <3>1, <3>2, <1>12, q \in Proxies
    <2>6. CASE q # p
      <3>1. Count(q, Adding') = Count(q, Adding)
        BY <2>6, <1>9 DEF Count
      <3>2. /\ q \in gone => Count(q, Values(routes')) = 0
            /\ q \notin gone => Count(q, Values(routes')) = Count(q, Values(routes))
            /\ Count(q, Values(routes)) \in 0 .. 1
        BY <2>4, <2>6 DEF Count
      <3>3. Count(q, identities) \in Nat /\ Count(q, Adding) \in Nat
        BY DEF Count
      <3> QED
        BY ONLY <2>1, <2>2, <3>1, <3>2, <3>3, <1>12, q \in Proxies
    <2> QED
      BY <2>5, <2>6
  <1> QED
    BY <1>1, <1>5, <1>7, <1>8, <1>13 DEF RouterInv, Apart, RoutesOnce

\* addAndEvictProxies(): each proxy of the answer leaves the local map, or is noted as
\* evicted before it was added; either way the two sides of Balance lose the same.
LEMMA RouterAddAndEvictProxies ==
    ASSUME RouterInv, NEW u \in Users, R!AddAndEvictProxies(u)
    PROVE  RouterInv'
  <1> DEFINE p == user[u].proxy
             re == user[u].reply
             undone == evicted[p] > 0
             known == IF undone THEN identities ELSE identities \cup {p}
             left == IF undone THEN [evicted EXCEPT ![p] = @ - 1] ELSE evicted
  <1>1. /\ user[u].at = "reply" /\ identities' = known \ re
        /\ evicted' = [q \in Proxies |-> IF q \in re \ known THEN left[q] + 1 ELSE left[q]]
        /\ user' = [user EXCEPT ![u].at = "invoke", ![u].reply = {}]
        /\ routes' = routes /\ losses' = losses /\ overlapped' = overlapped
    BY DEF R!AddAndEvictProxies
  <1>2. /\ p \in Proxies /\ re \subseteq Proxies /\ evicted \in [Proxies -> Nat]
        /\ identities \subseteq Proxies
    BY DEF RouterInv, R!RTypeOK
  <1>3. /\ user'[u].at = "invoke" /\ user'[u].proxy = p
        /\ \A v \in Users \ {u} : user'[v] = user[v]
    BY <1>1 DEF RouterInv, R!RTypeOK
  <1>4. /\ \A q \in Proxies : left[q] = IF q = p /\ undone THEN evicted[q] - 1 ELSE evicted[q]
        /\ \A q \in Proxies : left[q] \in Nat /\ evicted[q] \in Nat
        /\ \A q \in Proxies : evicted'[q] = IF q \in re \ known THEN left[q] + 1 ELSE left[q]
    <2>1. \A q \in Proxies : left[q] = IF q = p /\ undone THEN evicted[q] - 1 ELSE evicted[q]
      BY <1>2
    <2>2. \A q \in Proxies : left[q] \in Nat /\ evicted[q] \in Nat
      BY <1>2, <2>1
    <2> HIDE DEF left, known, re
    <2> QED
      BY <1>1, <2>1, <2>2
  <1>5. known \subseteq Proxies
    BY <1>2
  <1>6. \A q \in Proxies : q \in known <=> (q \in identities \/ (q = p /\ ~undone))
    OBVIOUS
  <1> HIDE DEF known, left
  <1>7. R!RTypeOK'
    <2>1. user' \in [Users -> [at : {"idle", "check", "add", "reply", "invoke", "done", "failed"},
                               proxy : Proxies, reply : SUBSET Proxies]]
      BY <1>1 DEF RouterInv, R!RTypeOK
    <2>2. evicted' \in [Proxies -> Nat]
      BY <1>1, <1>4
    <2> QED
      BY <1>1, <1>5, <2>1, <2>2 DEF RouterInv, R!RTypeOK
  <1>8. Apart'
    <2> SUFFICES ASSUME NEW q \in identities' PROVE evicted'[q] = 0
      BY DEF Apart
    <2>1. q \in Proxies /\ q \in known /\ q \notin re
      BY <1>1, <1>5
    <2>2. q \in identities => evicted[q] = 0
      BY DEF RouterInv, Apart
    <2> QED
      BY <1>2, <1>4, <1>6, <2>1, <2>2
  <1>9. AddedAlone'
    <2>1. \A w \in Users : user'[w].at \in {"add", "reply"} => w # u /\ user'[w] = user[w]
      BY <1>3
    <2>2. ~overlapped => \A w, v \in Users :
              (/\ user'[w].at \in {"add", "reply"} /\ user'[v].at \in {"add", "reply"}
               /\ user'[w].proxy = user'[v].proxy) => w = v
      BY <2>1 DEF RouterInv, AddedAlone
    <2>3. ~overlapped =>
              \A w \in Users : user'[w].at \in {"add", "reply"} =>
                  user'[w].proxy \notin known /\ user'[w].proxy \in Proxies
      <3> SUFFICES ASSUME ~overlapped, NEW w \in Users, user'[w].at \in {"add", "reply"}
                   PROVE  user'[w].proxy \notin known /\ user'[w].proxy \in Proxies
        OBVIOUS
      <3>1. w # u /\ user'[w] = user[w] /\ user[w].proxy \in Proxies
        BY <2>1 DEF RouterInv, R!RTypeOK
      <3>2. user[w].proxy # p /\ user[w].proxy \notin identities
        BY <1>1, <3>1 DEF RouterInv, AddedAlone
      <3> QED
        BY <1>6, <3>1, <3>2
    <2>4. overlapped' = overlapped /\ identities' \subseteq known
      BY <1>1
    <2> QED
      BY <2>2, <2>3, <2>4 DEF AddedAlone
  <1>10. \A q \in Proxies : Evicting(q)' = Evicting(q) \ {u}
    BY <1>1, <1>3 DEF Evicting
  <1>11. \A q \in Proxies : u \in Evicting(q) <=> q \in re
    BY <1>1 DEF Evicting
  <1>12. \A q \in Proxies :
            /\ Cardinality(Evicting(q)) \in Nat
            /\ q \notin re => Cardinality(Evicting(q)') = Cardinality(Evicting(q))
            /\ q \in re => /\ Cardinality(Evicting(q)') = Cardinality(Evicting(q)) - 1
                           /\ Cardinality(Evicting(q)) > 0
    <2> TAKE q \in Proxies
    <2>1. IsFiniteSet(Evicting(q)) /\ Cardinality(Evicting(q)) \in Nat
      BY EvictingFinite
    <2>2. CASE q \in re
      <3>1. u \in Evicting(q)
        BY <1>11, <2>2
      <3>2. Cardinality(Evicting(q) \ {u}) = Cardinality(Evicting(q)) - 1
        BY ONLY <2>1, <3>1, FS_RemoveElement
      <3>3. Cardinality(Evicting(q)) # 0
        BY ONLY <2>1, <3>1, FS_EmptySet
      <3>4. Evicting(q)' = Evicting(q) \ {u}
        BY ONLY <1>10, q \in Proxies
      <3>5. Cardinality(Evicting(q)') = Cardinality(Evicting(q)) - 1
        BY ONLY <3>2, <3>4
      <3>6. Cardinality(Evicting(q)) > 0
        BY ONLY <2>1, <3>3
      <3> QED
        BY ONLY <2>1, <2>2, <3>5, <3>6
    <2>3. CASE q \notin re
      BY <1>10, <1>11, <2>1, <2>3
    <2> QED
      BY <2>2, <2>3
  <1> HIDE DEF re
  <1>13. Balance'
    <2> SUFFICES ASSUME losses = 0, ~overlapped, NEW q \in Proxies
                 PROVE  Count(q, identities') + Count(q, Adding') <=
                        Count(q, Values(routes)) + evicted'[q] + Cardinality(Evicting(q)')
      BY <1>1 DEF Balance
    <2>1. Count(q, identities) + Count(q, Adding) <=
              Count(q, Values(routes)) + evicted[q] + Cardinality(Evicting(q))
      BY DEF Balance, RouterInv
    <2>2. /\ p \notin identities
          /\ \A v \in Users \ {u} : ~(user[v].at = "reply" /\ user[v].proxy = p)
      BY <1>1 DEF RouterInv, AddedAlone
    <2>3. Adding' = Adding \ {p} /\ p \in Adding
      BY <1>1, <1>2, <1>3, <2>2 DEF Adding
    <2>4. \A T : Count(q, T) \in 0 .. 1 /\ (q \in T <=> Count(q, T) = 1)
      BY DEF Count
    <2>5. q \in identities' <=> q \in known /\ q \notin re
      BY <1>1
    <2>6. /\ Count(q, identities) \in 0 .. 1 /\ Count(q, identities') \in 0 .. 1
          /\ Count(q, Adding) \in 0 .. 1 /\ Count(q, Adding') \in 0 .. 1
          /\ Count(q, Values(routes)) \in 0 .. 1
          /\ q \in identities <=> Count(q, identities) = 1
          /\ q \in identities' <=> Count(q, identities') = 1
          /\ q \in Adding <=> Count(q, Adding) = 1
          /\ q \in Adding' <=> Count(q, Adding') = 1
      BY <2>4
    <2>7. CASE q = p
      <3>1. Count(q, identities) = 0 /\ Count(q, Adding) = 1 /\ Count(q, Adding') = 0
        BY <2>2, <2>3, <2>6, <2>7
      <3>2. CASE undone
        <4>1. q \notin known /\ left[q] = evicted[q] - 1 /\ evicted[q] > 0
          BY <1>4, <1>6, <2>2, <2>7, <3>2
        <4>2. Count(q, identities') = 0
          BY <2>5, <2>6, <4>1
        <4>3. evicted'[q] = IF q \in re THEN evicted[q] ELSE evicted[q] - 1
          BY <1>4, <4>1
        <4> QED
          BY ONLY <1>4, <1>12, <2>1, <2>6, <3>1, <4>1, <4>2, <4>3, q \in Proxies
      <3>3. CASE ~undone
        <4>1. q \in known /\ left[q] = evicted[q] /\ evicted[q] = 0
          BY <1>4, <1>6, <2>2, <2>7, <3>3
        <4>2. evicted'[q] = 0
          BY <1>4, <4>1
        <4>3. Count(q, identities') = IF q \in re THEN 0 ELSE 1
          BY <2>5, <2>6, <4>1
        <4> QED
          BY ONLY <1>4, <1>12, <2>1, <2>6, <3>1, <4>1, <4>2, <4>3, q \in Proxies
      <3> QED
        BY <3>2, <3>3
    <2>8. CASE q # p
      <3>1. Count(q, Adding') = Count(q, Adding)
        BY <2>3, <2>6, <2>8
      <3>2. left[q] = evicted[q] /\ (q \in known <=> q \in identities)
        BY <1>4, <1>6, <2>8
      <3>3. CASE q \in re
        <4>1. /\ Count(q, identities') = 0
              /\ evicted'[q] = IF q \in identities THEN evicted[q] ELSE evicted[q] + 1
          BY <1>4, <2>5, <2>6, <3>2, <3>3
        <4> QED
          BY ONLY <1>4, <1>12, <2>1, <2>6, <3>1, <3>3, <4>1, q \in Proxies
      <3>4. CASE q \notin re
        <4>1. Count(q, identities') = Count(q, identities) /\ evicted'[q] = evicted[q]
          BY <1>4, <2>5, <2>6, <3>2, <3>4
        <4> QED
          BY ONLY <1>4, <1>12, <2>1, <2>6, <3>1, <3>4, <4>1, q \in Proxies
      <3> QED
        BY <3>3, <3>4
    <2> QED
      BY <2>7, <2>8
  <1> QED
    BY <1>1, <1>7, <1>8, <1>9, <1>13 DEF RouterInv, RoutesOnce

\* Every step of a user keeps the invariant.
LEMMA RouterStep == ASSUME RouterInv, R!Next PROVE RouterInv'
  BY RouterBegin, RouterAddProxy, RouterRouterAdds, RouterAddAndEvictProxies, RouterInvoke,
     RouterRouterFails
     DEF R!Next, R!UserStep

\* Steps of the other components do not touch the router.
LEMMA RouterStutters == ASSUME RouterInv, UNCHANGED routerVars PROVE RouterInv'
  <1>1. R!RTypeOK' /\ RoutesOnce' /\ Apart' /\ AddedAlone'
    BY DEF RouterInv, R!RTypeOK, RoutesOnce, Apart, AddedAlone, routerVars
  <1>2. Adding' = Adding /\ \A q : Evicting(q)' = Evicting(q)
    BY DEF Adding, Evicting, routerVars
  <1> QED
    BY <1>1, <1>2 DEF RouterInv, Balance, routerVars

\* With an empty record the invariant is true.
LEMMA RouterInit == ASSUME R!Init PROVE RouterInv
  <1>1. R!RTypeOK
    <2>1. (CHOOSE p \in Proxies : TRUE) \in Proxies
      BY RouterAssumption
    <2>2. losses \in 0 .. MaxRouterLoss /\ routes \in Seq(Proxies) /\ Len(routes) <= Capacity
      BY RouterAssumption DEF R!Init
    <2>3. user \in [Users -> [at : {"idle", "check", "add", "reply", "invoke", "done", "failed"},
                              proxy : Proxies, reply : SUBSET Proxies]]
      BY <2>1 DEF R!Init
    <2> QED
      BY <2>2, <2>3 DEF R!Init, R!RTypeOK
  <1>2. \A u \in Users : user[u].at = "idle"
    BY DEF R!Init
  <1>3. RoutesOnce /\ Apart /\ AddedAlone
    BY <1>2, ValuesEmpty DEF R!Init, RoutesOnce, Apart, AddedAlone
  <1>4. Balance
    <2>1. Adding = {} /\ identities = {}
      BY <1>2 DEF R!Init, Adding
    <2>2. \A q \in Proxies : evicted[q] = 0 /\ Count(q, {}) = 0 /\ Count(q, Values(routes)) \in Nat
      BY DEF R!Init, Count
    <2>3. \A q \in Proxies : Cardinality(Evicting(q)) \in Nat
      BY EvictingFinite
    <2> QED
      BY <2>1, <2>2, <2>3 DEF Balance
  <1> QED
    BY <1>1, <1>3, <1>4 DEF RouterInv

\* RouterInv is an inductive invariant of the client's record of the router.
THEOREM RouterInductive == Spec => []RouterInv
  <1>1. Init => RouterInv
    BY RouterInit DEF Init
  <1>2. RouterInv /\ [Next]_vars => RouterInv'
    BY RouterStep, RouterStutters DEF Next, vars
  <1> QED
    BY <1>1, <1>2, PTL DEF Spec

\* When no answer is under way, Balance leaves no proxy that only the client believes in.
LEMMA RouterInvExact == ASSUME RouterInv PROVE R!RecordExact
  <1> SUFFICES ASSUME \A u \in Users : user[u].at # "reply", losses = 0, ~overlapped,
                      NEW q \in identities
               PROVE  q \in R!ToSet(routes)
    BY DEF R!RecordExact
  <1>1. q \in Proxies /\ evicted[q] = 0
    BY DEF RouterInv, R!RTypeOK, Apart
  <1>2. Evicting(q) = {} /\ Cardinality({}) = 0
    BY FS_EmptySet DEF Evicting
  <1>3. Count(q, identities) + Count(q, Adding) <=
            Count(q, Values(routes)) + evicted[q] + Cardinality(Evicting(q))
    BY <1>1 DEF RouterInv, Balance
  <1>4. Count(q, identities) = 1 /\ Count(q, Adding) \in Nat
    BY DEF Count
  <1>5. q \in Values(routes)
    BY <1>1, <1>2, <1>3, <1>4 DEF Count
  <1>6. DOMAIN routes = 1 .. Len(routes)
    BY DEF RouterInv, R!RTypeOK
  <1> QED
    BY <1>5, <1>6 DEF Values, R!ToSet

\* RouterInfo: whenever no answer is under way, every proxy of the local map is in the
\* router, in whatever order answers are processed, unless a call failed or two additions of
\* one proxy overlapped; for all proxies, users and capacities.
THEOREM RouterIsExact == Spec => []RouterExact
  <1>1. RouterInv => RouterExact
    BY RouterInvExact DEF RouterInv, RouterExact
  <1> QED
    BY <1>1, RouterInductive, PTL

-----------------------------------------------------------------------------
(* The request handler *)

\* What can be in the queue: one call.
Singles == {<<c>> : c \in Async \cup Batch}
\* The calls that entered, and those that went to the connection themselves.
Entry == [call : H!Calls, queued : BOOLEAN]
EnteredIn(en, c) == \E i \in 1 .. Len(en) : en[i].call = c
DirectIn(en, c) == \E i \in 1 .. Len(en) : en[i].call = c /\ ~en[i].queued

\* The queue rq, what the connection accepted and the calls in the order of their entry.
QueueOK(rq, ac, en) ==
    /\ rq \in Seq(Singles) /\ Once(rq) /\ ac \in Seq(H!Calls) /\ Once(ac) /\ en \in Seq(Entry)
    /\ \A i, j \in 1 .. Len(en) : en[i].call = en[j].call => i = j
    /\ \A c : <<c>> \in Values(rq) =>
           c \notin Values(ac) /\ \E i \in 1 .. Len(en) : en[i].call = c /\ en[i].queued
    /\ \A c \in Values(ac) : EnteredIn(en, c)

\* Unless the establishment failed, a queued call is accepted or in the queue, ...
NoneLost(rq, ac, en) ==
    \A i \in 1 .. Len(en) : en[i].queued =>
        en[i].call \in Values(ac) \/ <<en[i].call>> \in Values(rq)
\* ... the queue is in the order of entry, ...
InOrder(rq, en) ==
    \A k, l \in 1 .. Len(rq) : \A i, j \in 1 .. Len(en) :
        (k < l /\ rq[k] = <<en[i].call>> /\ rq[l] = <<en[j].call>>) => i < j
\* ... a call goes to the connection itself when all that were queued have been accepted, ...
DirectLast(ac, en) ==
    \A i, j \in 1 .. Len(en) :
        (i < j /\ en[i].queued /\ ~en[j].queued) => en[i].call \in Values(ac)
\* ... and is accepted after them.
Before(ac, x, y) == \E m, n \in 1 .. Len(ac) : m < n /\ ac[m] = x /\ ac[n] = y
AcceptedInOrder(ac, en) ==
    \A i, j \in 1 .. Len(en) :
        (i < j /\ en[i].queued /\ en[j].call \in Values(ac)) => Before(ac, en[i].call, en[j].call)

\* The queue, what is accepted and who entered.
Enqueued == Values(h.requests)
Accepted == Values(accepted)
Entered(c) == EnteredIn(entered, c)

\* The queue and the histories fit together, and are in order.
HandlerQueue == QueueOK(h.requests, accepted, entered)
HandlerOrder ==
    /\ h.exception = "none" => NoneLost(h.requests, accepted, entered)
    /\ InOrder(h.requests, entered) /\ DirectLast(accepted, entered)
    /\ AcceptedInOrder(accepted, entered)

\* What a call has been told, by where it is.
HandlerCalls ==
    /\ \A c \in H!Calls : caller[c] \in {"idle", "try", "wait", "marshal"} =>
           ~Entered(c) /\ told[c] = "nothing"
    /\ \A c \in H!Calls : caller[c] = "direct" =>
           c \notin Accepted /\ DirectIn(entered, c)
    /\ \A c \in Async : told[c] = "queued" => <<c>> \in Enqueued
    /\ \A c \in H!Calls : <<c>> \in Enqueued => told[c] = "queued"
    /\ \A c \in Accepted : told[c] \in {"accepted", "queued"}

\* The members of the handler, by where the establishing thread is.
HandlerPhases ==
    /\ est \in {"connecting", "routing", "flush", "wait"} =>
           ~h.flushing /\ ~h.initialized /\ h.exception = "none" /\ ~replaced
    /\ est = "send" => h.flushing /\ ~h.initialized /\ h.exception = "none" /\ ~replaced
    /\ est = "install" => h.flushing /\ ~h.initialized /\ ~replaced
    /\ est = "end" => h.flushing /\ ~h.initialized
    /\ est = "done" => (h.initialized <=> h.exception = "none")
    /\ (est \in {"install", "end", "done"} /\ h.exception = "none") => h.requests = <<>>
    /\ (est \in {"end", "done"} /\ h.exception = "none" /\ h.updateHandler) => replaced
    /\ replaced => h.exception = "none"
    /\ failItem => h.exception # "none"
    /\ main = "this" => h.updateHandler
    /\ main = "connection" => h.initialized

\* A batch stream that was returned with requests in it is full for ever.
Full(stream, size) == stream # <<>> => ~AutoFlush /\ Len(stream) + size > MaxBatch

\* One caller at most has the batch stream, and none while the queue is sent.
HandlerBatch ==
    /\ \A c, d \in H!Calls : (caller[c] = "marshal" /\ caller[d] = "marshal") => c = d
    /\ \A c \in H!Calls : caller[c] = "marshal" =>
           c \in Batch /\ h.batchInProgress /\ Full(lent[c], h.batchSize)
    /\ h.flushing => ~h.batchInProgress
    /\ Full(h.batchStream, h.batchSize)

\* The inductive invariant of ConnectRequestHandler.
HandlerInv ==
    H!TypeOK /\ HandlerQueue /\ HandlerOrder /\ HandlerCalls /\ HandlerPhases /\ HandlerBatch

\* A sequence and one more element.
LEMMA Appended ==
    ASSUME NEW T, NEW s \in Seq(T), NEW x \in T, NEW t, t = Append(s, x)
    PROVE  /\ t \in Seq(T) /\ Len(t) = Len(s) + 1 /\ Len(s) \in Nat
           /\ \A i \in 1 .. Len(s) : i \in 1 .. Len(t) /\ t[i] = s[i]
           /\ t[Len(s) + 1] = x /\ Len(s) + 1 \in 1 .. Len(t)
           /\ \A i \in 1 .. Len(t) : i \in 1 .. Len(s) \/ i = Len(s) + 1
  <1>1. t \in Seq(T) /\ Len(t) = Len(s) + 1 /\ Len(s) \in Nat
    OBVIOUS
  <1>2. (\A i \in 1 .. Len(s) : t[i] = s[i]) /\ t[Len(s) + 1] = x
    OBVIOUS
  <1>3. /\ \A i \in 1 .. Len(s) : i \in 1 .. Len(t)
        /\ Len(s) + 1 \in 1 .. Len(t)
        /\ \A i \in 1 .. Len(t) : i \in 1 .. Len(s) \/ i = Len(s) + 1
    BY <1>1
  <1> QED
    BY <1>1, <1>2, <1>3

\* A call is accepted after all that were queued before it.
LEMMA AcceptsLast ==
    ASSUME NEW ac \in Seq(H!Calls), NEW c \in H!Calls, c \notin Values(ac),
           NEW en, AcceptedInOrder(ac, en),
           \A i, j \in 1 .. Len(en) : (i < j /\ en[i].queued /\ en[j].call = c) =>
               en[i].call \in Values(ac)
    PROVE  AcceptedInOrder(Append(ac, c), en)
  <1>0. PICK a2 : a2 = Append(ac, c)
    OBVIOUS
  <1>1. /\ Len(a2) = Len(ac) + 1 /\ Len(ac) \in Nat
        /\ \A i \in 1 .. Len(ac) : i \in 1 .. Len(a2) /\ a2[i] = ac[i]
        /\ a2[Len(ac) + 1] = c /\ Len(ac) + 1 \in 1 .. Len(a2)
    BY ONLY <1>0, ac \in Seq(H!Calls), c \in H!Calls, Appended
  <1>v. Values(a2) = Values(ac) \cup {c}
    BY <1>0, ValuesAppend
  <1>2. ASSUME NEW x, NEW y, Before(ac, x, y) PROVE Before(a2, x, y)
    BY <1>1, <1>2 DEF Before
  <1>3. ASSUME NEW x \in Values(ac) PROVE Before(a2, x, c)
    <2>1. PICK m \in 1 .. Len(ac) : ac[m] = x
      BY DEF Values
    <2>2. m < Len(ac) + 1
      BY <1>1
    <2> QED
      BY <1>1, <2>1, <2>2 DEF Before
  <1>4. AcceptedInOrder(a2, en)
    <2> SUFFICES ASSUME NEW i \in 1 .. Len(en), NEW j \in 1 .. Len(en),
                        i < j, en[i].queued, en[j].call \in Values(a2)
                 PROVE  Before(a2, en[i].call, en[j].call)
      BY DEF AcceptedInOrder
    <2>1. CASE en[j].call = c
      BY <1>3, <2>1
    <2>2. CASE en[j].call \in Values(ac)
      BY <1>2, <2>2 DEF AcceptedInOrder
    <2> QED
      BY <1>v, <2>1, <2>2
  <1> QED
    BY <1>0, <1>4

\* Two messages of one call are equal when their calls are.
LEMMA SingleEqual == ASSUME NEW x, NEW y PROVE <<x>> = <<y>> <=> x = y
  OBVIOUS

\* A call is queued.
LEMMA EntersQueue ==
    ASSUME NEW rq, NEW ac, NEW en, NEW c \in Async \cup Batch, QueueOK(rq, ac, en),
           NoneLost(rq, ac, en), InOrder(rq, en), DirectLast(ac, en), AcceptedInOrder(ac, en),
           ~EnteredIn(en, c), NEW e, e = [call |-> c, queued |-> TRUE]
    PROVE  /\ QueueOK(Append(rq, <<c>>), ac, Append(en, e))
           /\ NoneLost(Append(rq, <<c>>), ac, Append(en, e))
           /\ InOrder(Append(rq, <<c>>), Append(en, e)) /\ DirectLast(ac, Append(en, e))
           /\ AcceptedInOrder(ac, Append(en, e))
           /\ Values(Append(rq, <<c>>)) = Values(rq) \cup {<<c>>}
           /\ \A x : EnteredIn(Append(en, e), x) <=> EnteredIn(en, x) \/ x = c
           /\ \A x : DirectIn(en, x) => DirectIn(Append(en, e), x)
  <1>0. /\ <<c>> \in Singles /\ c \in H!Calls /\ e \in Entry /\ e.call = c /\ e.queued
        /\ rq \in Seq(Singles) /\ en \in Seq(Entry)
    BY DEF Singles, Entry, H!Calls, QueueOK
  <1>r. PICK r2 : r2 = Append(rq, <<c>>)
    OBVIOUS
  <1>1. /\ r2 \in Seq(Singles) /\ Len(r2) = Len(rq) + 1 /\ Len(rq) \in Nat
        /\ \A i \in 1 .. Len(rq) : i \in 1 .. Len(r2) /\ r2[i] = rq[i]
        /\ r2[Len(rq) + 1] = <<c>> /\ Len(rq) + 1 \in 1 .. Len(r2)
        /\ \A i \in 1 .. Len(r2) : i \in 1 .. Len(rq) \/ i = Len(rq) + 1
    BY ONLY <1>0, <1>r, Appended
  <1>v. /\ Values(r2) = Values(rq) \cup {<<c>>}
        /\ (Once(rq) /\ <<c>> \notin Values(rq)) => Once(r2)
    BY <1>0, <1>r, ValuesAppend
  <1>2. PICK n \in Nat : n = Len(en)
    BY <1>0
  <1>e. PICK e2 : e2 = Append(en, e)
    OBVIOUS
  <1>3.        /\ e2 \in Seq(Entry) /\ Len(e2) = n + 1
               /\ \A i \in 1 .. n : i \in 1 .. n + 1 /\ e2[i] = en[i]
               /\ e2[n + 1] = e /\ n + 1 \in 1 .. n + 1
               /\ \A i \in 1 .. n + 1 : i \in 1 .. n \/ i = n + 1
    <2>1. /\ e2 \in Seq(Entry) /\ Len(e2) = Len(en) + 1
          /\ \A i \in 1 .. Len(en) : i \in 1 .. Len(e2) /\ e2[i] = en[i]
          /\ e2[Len(en) + 1] = e /\ Len(en) + 1 \in 1 .. Len(e2)
          /\ \A i \in 1 .. Len(e2) : i \in 1 .. Len(en) \/ i = Len(en) + 1
      BY ONLY <1>0, <1>e, Appended
    <2> QED
      BY ONLY <1>2, <2>1
  <1>4. \A i \in 1 .. n : en[i].call # c
    BY <1>2 DEF EnteredIn
  <1>5. <<c>> \notin Values(rq) /\ c \notin Values(ac)
    BY DEF QueueOK, EnteredIn
  <1>6. \A x : EnteredIn(e2, x) <=> EnteredIn(en, x) \/ x = c
    BY <1>0, <1>2, <1>3 DEF EnteredIn
  <1>7. QueueOK(r2, ac, e2)
    <2>1. \A i, j \in 1 .. Len(e2) : e2[i].call = e2[j].call => i = j
      BY <1>0, <1>2, <1>3, <1>4 DEF QueueOK
    <2>2. ASSUME NEW x, <<x>> \in Values(r2)
          PROVE  x \notin Values(ac) /\ \E i \in 1 .. Len(e2) : e2[i].call = x /\ e2[i].queued
      <3>1. CASE <<x>> = <<c>>
        <4>1. x = c
          BY <3>1, SingleEqual
        <4> QED
          BY <1>0, <1>3, <1>5, <4>1
      <3>2. CASE <<x>> \in Values(rq)
        <4>1. x \notin Values(ac)
          BY <3>2 DEF QueueOK
        <4>2. PICK i \in 1 .. n : en[i].call = x /\ en[i].queued
          BY <1>2, <3>2 DEF QueueOK
        <4>3. i \in 1 .. Len(e2) /\ e2[i] = en[i]
          BY <1>3
        <4> QED
          BY <4>1, <4>2, <4>3
      <3> QED
        BY <1>v, <2>2, <3>1, <3>2
    <2>3. Once(r2)
      BY <1>v, <1>5 DEF QueueOK
    <2>4. \A x \in Values(ac) : EnteredIn(e2, x)
      BY <1>6 DEF QueueOK
    <2>5. ac \in Seq(H!Calls) /\ Once(ac) /\ e2 \in Seq(Entry) /\ r2 \in Seq(Singles)
      BY <1>1, <1>3 DEF QueueOK
    <2> QED
      BY <2>1, <2>2, <2>3, <2>4, <2>5 DEF QueueOK
  <1>8. NoneLost(r2, ac, e2)
    <2> SUFFICES ASSUME NEW i \in 1 .. Len(e2), e2[i].queued
                 PROVE  e2[i].call \in Values(ac) \/ <<e2[i].call>> \in Values(r2)
      BY DEF NoneLost
    <2>1. CASE i = n + 1
      BY <1>0, <1>v, <1>3, <2>1
    <2>2. CASE i \in 1 .. n
      BY <1>v, <1>2, <1>3, <2>2 DEF NoneLost
    <2> QED
      BY <1>3, <2>1, <2>2
  <1>9. InOrder(r2, e2)
    <2> SUFFICES ASSUME NEW k \in 1 .. Len(r2), NEW l \in 1 .. Len(r2), NEW i \in 1 .. Len(e2),
                        NEW j \in 1 .. Len(e2), k < l, r2[k] = <<e2[i].call>>,
                        r2[l] = <<e2[j].call>>
                 PROVE  i < j
      BY DEF InOrder
    <2>1. k \in 1 .. Len(rq) /\ r2[k] = rq[k]
      BY <1>1
    <2>2. rq[k] # <<c>>
      BY <1>5, <2>1 DEF Values
    <2>3. i \in 1 .. n /\ e2[i] = en[i]
      BY <1>0, <1>3, <2>1, <2>2
    <2>4. CASE l \in 1 .. Len(rq)
      <3>1. rq[l] # <<c>> /\ r2[l] = rq[l]
        BY <1>1, <1>5, <2>4 DEF Values
      <3>2. j \in 1 .. n /\ e2[j] = en[j]
        BY <1>0, <1>3, <3>1
      <3> QED
        BY <1>2, <2>1, <2>3, <2>4, <3>1, <3>2 DEF InOrder
    <2>5. CASE l = Len(rq) + 1
      <3>1. e2[j].call = c
        BY <1>1, <2>5, SingleEqual
      <3>2. j = n + 1
        BY <1>3, <1>4, <3>1
      <3> QED
        BY <2>3, <3>2
    <2> QED
      BY <1>1, <2>4, <2>5
  <1>10. DirectLast(ac, e2)
    <2> SUFFICES ASSUME NEW i \in 1 .. Len(e2), NEW j \in 1 .. Len(e2), i < j, e2[i].queued,
                        ~e2[j].queued
                 PROVE  e2[i].call \in Values(ac)
      BY DEF DirectLast
    <2>0. j # n + 1
      BY <1>0, <1>3
    <2>1. j \in 1 .. n /\ i \in 1 .. n
      BY <1>3, <2>0
    <2> QED
      BY <1>2, <1>3, <2>1 DEF DirectLast
  <1>11. AcceptedInOrder(ac, e2)
    <2> SUFFICES ASSUME NEW i \in 1 .. Len(e2), NEW j \in 1 .. Len(e2), i < j, e2[i].queued,
                        e2[j].call \in Values(ac)
                 PROVE  Before(ac, e2[i].call, e2[j].call)
      BY DEF AcceptedInOrder
    <2>1. j \in 1 .. n /\ i \in 1 .. n
      BY <1>0, <1>3, <1>5
    <2> QED
      BY <1>2, <1>3, <2>1 DEF AcceptedInOrder
  <1>12. \A x : DirectIn(en, x) => DirectIn(e2, x)
    BY <1>2, <1>3 DEF DirectIn
  <1> QED
    BY <1>r, <1>e, <1>v, <1>6, <1>12, <1>7, <1>8, <1>9, <1>10, <1>11

\* A call goes to the connection itself.
LEMMA EntersDirect ==
    ASSUME NEW ac, NEW en, NEW c \in H!Calls, QueueOK(<<>>, ac, en),
           NoneLost(<<>>, ac, en), DirectLast(ac, en), AcceptedInOrder(ac, en),
           ~EnteredIn(en, c), NEW e, e = [call |-> c, queued |-> FALSE]
    PROVE  /\ QueueOK(<<>>, ac, Append(en, e))
           /\ NoneLost(<<>>, ac, Append(en, e)) /\ DirectLast(ac, Append(en, e))
           /\ AcceptedInOrder(ac, Append(en, e))
           /\ \A x : EnteredIn(Append(en, e), x) <=> EnteredIn(en, x) \/ x = c
           /\ DirectIn(Append(en, e), c) /\ \A x : DirectIn(en, x) => DirectIn(Append(en, e), x)
  <1>0. /\ e \in Entry /\ e.call = c /\ ~e.queued /\ en \in Seq(Entry)
    BY DEF Entry, QueueOK
  <1>2. PICK n \in Nat : n = Len(en)
    BY <1>0
  <1>e. PICK e2 : e2 = Append(en, e)
    OBVIOUS
  <1>3.        /\ e2 \in Seq(Entry) /\ Len(e2) = n + 1
               /\ \A i \in 1 .. n : i \in 1 .. n + 1 /\ e2[i] = en[i]
               /\ e2[n + 1] = e /\ n + 1 \in 1 .. n + 1
               /\ \A i \in 1 .. n + 1 : i \in 1 .. n \/ i = n + 1
    <2>1. /\ e2 \in Seq(Entry) /\ Len(e2) = Len(en) + 1
          /\ \A i \in 1 .. Len(en) : i \in 1 .. Len(e2) /\ e2[i] = en[i]
          /\ e2[Len(en) + 1] = e /\ Len(en) + 1 \in 1 .. Len(e2)
          /\ \A i \in 1 .. Len(e2) : i \in 1 .. Len(en) \/ i = Len(en) + 1
      BY ONLY <1>0, <1>e, Appended
    <2> QED
      BY ONLY <1>2, <2>1
  <1>4. \A i \in 1 .. n : en[i].call # c
    BY <1>2 DEF EnteredIn
  <1>5. c \notin Values(ac) /\ Values(<<>>) = {}
    BY ValuesEmpty DEF QueueOK, EnteredIn
  <1>6. \A x : EnteredIn(e2, x) <=> EnteredIn(en, x) \/ x = c
    BY <1>0, <1>2, <1>3 DEF EnteredIn
  <1>7. QueueOK(<<>>, ac, e2)
    <2>0. \A i, j \in 1 .. n : en[i].call = en[j].call => i = j
      BY <1>2 DEF QueueOK
    <2>1. \A i, j \in 1 .. Len(e2) : e2[i].call = e2[j].call => i = j
      <3> SUFFICES ASSUME NEW i \in 1 .. n + 1, NEW j \in 1 .. n + 1, e2[i].call = e2[j].call
                   PROVE  i = j
        BY <1>3
      <3>1. CASE i \in 1 .. n /\ j \in 1 .. n
        BY ONLY <1>3, <2>0, <3>1, e2[i].call = e2[j].call
      <3>2. CASE i \in 1 .. n /\ j = n + 1
        BY ONLY <1>0, <1>3, <1>4, <3>2, e2[i].call = e2[j].call
      <3>3. CASE j \in 1 .. n /\ i = n + 1
        BY ONLY <1>0, <1>3, <1>4, <3>3, e2[i].call = e2[j].call
      <3> QED
        BY ONLY <1>3, <3>1, <3>2, <3>3, i \in 1 .. n + 1, j \in 1 .. n + 1
    <2>4. \A x \in Values(ac) : EnteredIn(e2, x)
      BY <1>6 DEF QueueOK
    <2>5. ac \in Seq(H!Calls) /\ Once(ac) /\ e2 \in Seq(Entry)
      BY <1>3 DEF QueueOK
    <2> QED
      BY <1>5, <2>1, <2>4, <2>5, ValuesEmpty DEF QueueOK
  <1>8. NoneLost(<<>>, ac, e2)
    <2> SUFFICES ASSUME NEW i \in 1 .. Len(e2), e2[i].queued
                 PROVE  e2[i].call \in Values(ac)
      BY DEF NoneLost
    <2>1. i \in 1 .. n
      BY <1>0, <1>3
    <2> QED
      BY <1>2, <1>3, <1>5, <2>1 DEF NoneLost
  <1>10. DirectLast(ac, e2)
    <2> SUFFICES ASSUME NEW i \in 1 .. Len(e2), NEW j \in 1 .. Len(e2), i < j, e2[i].queued,
                        ~e2[j].queued
                 PROVE  e2[i].call \in Values(ac)
      BY DEF DirectLast
    <2> QED
      BY <1>5, <1>8 DEF NoneLost
  <1>11. AcceptedInOrder(ac, e2)
    <2> SUFFICES ASSUME NEW i \in 1 .. Len(e2), NEW j \in 1 .. Len(e2), i < j, e2[i].queued,
                        e2[j].call \in Values(ac)
                 PROVE  Before(ac, e2[i].call, e2[j].call)
      BY DEF AcceptedInOrder
    <2>1. j \in 1 .. n /\ i \in 1 .. n
      BY <1>0, <1>3, <1>5
    <2> QED
      BY <1>2, <1>3, <2>1 DEF AcceptedInOrder
  <1>12. DirectIn(e2, c)
    BY <1>0, <1>3 DEF DirectIn
  <1>13. \A x : DirectIn(en, x) => DirectIn(e2, x)
    BY <1>2, <1>3 DEF DirectIn
  <1> QED
    BY <1>e, <1>6, <1>7, <1>8, <1>10, <1>11, <1>12, <1>13

\* The connection accepts a call that came to it directly.
LEMMA AcceptsDirect ==
    ASSUME NEW rq, NEW ac, NEW en, NEW c \in H!Calls, QueueOK(rq, ac, en),
           DirectLast(ac, en), AcceptedInOrder(ac, en), c \notin Values(ac),
           DirectIn(en, c)
    PROVE  /\ QueueOK(rq, Append(ac, c), en) /\ DirectLast(Append(ac, c), en)
           /\ AcceptedInOrder(Append(ac, c), en)
           /\ NoneLost(rq, ac, en) => NoneLost(rq, Append(ac, c), en)
           /\ Values(Append(ac, c)) = Values(ac) \cup {c}
  <1>1. PICK a2 : a2 = Append(ac, c)
    OBVIOUS
  <1>2. a2 \in Seq(H!Calls) /\ Values(a2) = Values(ac) \cup {c} /\ Once(a2)
    <2>1. ac \in Seq(H!Calls) /\ Once(ac)
      BY DEF QueueOK
    <2>2. a2 \in Seq(H!Calls)
      BY <1>1, <2>1
    <2> QED
      BY <1>1, <2>1, <2>2, ValuesAppend
  <1>3. PICK j0 \in 1 .. Len(en) : en[j0].call = c /\ ~en[j0].queued
    BY DEF DirectIn
  <1>4. \A i, j \in 1 .. Len(en) : (i < j /\ en[i].queued /\ en[j].call = c) =>
            en[i].call \in Values(ac)
    BY <1>3 DEF QueueOK, DirectLast
  <1>5. AcceptedInOrder(a2, en)
    <2>1. ac \in Seq(H!Calls)
      BY DEF QueueOK
    <2> QED
      BY <1>1, <1>4, <2>1, AcceptsLast
  <1>6. <<c>> \notin Values(rq)
    BY <1>3 DEF QueueOK
  <1>7. QueueOK(rq, a2, en)
    <2>1. ASSUME NEW x, <<x>> \in Values(rq) PROVE x \notin Values(a2)
      BY <1>2, <1>6, <2>1, SingleEqual DEF QueueOK
    <2>2. \A x \in Values(a2) : EnteredIn(en, x)
      BY <1>2, <1>3 DEF QueueOK, EnteredIn
    <2> QED
      BY <1>2, <2>1, <2>2 DEF QueueOK
  <1>8. DirectLast(a2, en)
    BY <1>2 DEF DirectLast
  <1>9. NoneLost(rq, ac, en) => NoneLost(rq, a2, en)
    BY <1>2 DEF NoneLost
  <1> QED
    BY <1>1, <1>2, <1>5, <1>7, <1>8, <1>9

\* The first call of the queue is accepted.
LEMMA FlushesFirst ==
    ASSUME NEW rq, NEW ac, NEW en, QueueOK(rq, ac, en), NoneLost(rq, ac, en), InOrder(rq, en),
           DirectLast(ac, en), AcceptedInOrder(ac, en), rq # <<>>
    PROVE  \E c \in Async \cup Batch :
               /\ Head(rq) = <<c>> /\ <<c>> \in Values(rq)
               /\ QueueOK(Tail(rq), Append(ac, c), en) /\ NoneLost(Tail(rq), Append(ac, c), en)
               /\ InOrder(Tail(rq), en) /\ DirectLast(Append(ac, c), en)
               /\ AcceptedInOrder(Append(ac, c), en)
               /\ Values(Append(ac, c)) = Values(ac) \cup {c}
               /\ Values(Tail(rq)) = Values(rq) \ {<<c>>}
  <1>1. rq \in Seq(Singles) /\ Once(rq) /\ ac \in Seq(H!Calls) /\ Once(ac)
    BY DEF QueueOK
  <1>2. PICK r2 : r2 = Tail(rq)
    OBVIOUS
  <1>3. /\ Values(rq) = Values(r2) \cup {Head(rq)} /\ Head(rq) \in Singles
        /\ r2 \in Seq(Singles) /\ Once(r2) /\ Head(rq) \notin Values(r2)
    BY <1>1, <1>2, ValuesTail
  <1>4. PICK c \in Async \cup Batch : Head(rq) = <<c>>
    BY <1>3 DEF Singles
  <1>5. c \in H!Calls /\ <<c>> \in Values(rq) /\ Values(r2) = Values(rq) \ {<<c>>}
    BY <1>3, <1>4 DEF H!Calls
  <1>6. c \notin Values(ac)
    BY <1>5 DEF QueueOK
  <1>7. PICK a2 : a2 = Append(ac, c)
    OBVIOUS
  <1>8. a2 \in Seq(H!Calls) /\ Values(a2) = Values(ac) \cup {c} /\ Once(a2)
    <2>1. a2 \in Seq(H!Calls)
      BY <1>1, <1>5, <1>7
    <2> QED
      BY <1>1, <1>5, <1>6, <1>7, <2>1, ValuesAppend
  <1>9. Len(rq) \in Nat /\ Len(rq) > 0 /\ rq[1] = <<c>> /\ Len(r2) = Len(rq) - 1
        /\ \A k \in 1 .. Len(r2) : r2[k] = rq[k + 1] /\ k + 1 \in 1 .. Len(rq)
    BY <1>1, <1>2, <1>4
  <1>10. \A i, j \in 1 .. Len(en) : (i < j /\ en[i].queued /\ en[j].call = c) =>
            en[i].call \in Values(ac)
    <2> SUFFICES ASSUME NEW i \in 1 .. Len(en), NEW j \in 1 .. Len(en), i < j, en[i].queued,
                        en[j].call = c, en[i].call \notin Values(ac)
                 PROVE  FALSE
      OBVIOUS
    <2>1. <<en[i].call>> \in Values(rq)
      BY DEF NoneLost
    <2>2. PICK k \in 1 .. Len(rq) : rq[k] = <<en[i].call>>
      BY <2>1 DEF Values
    <2>3. i \in Nat /\ j \in Nat
      OBVIOUS
    <2>4. CASE k = 1
      <3>1. en[i].call = c
        BY <1>9, <2>2, <2>4, SingleEqual
      <3> QED
        BY <2>3, <3>1 DEF QueueOK
    <2>5. CASE k # 1
      <3>1. 1 \in 1 .. Len(rq) /\ 1 < k /\ rq[1] = <<en[j].call>>
        BY <1>9, <2>5
      <3>2. j < i
        BY <2>2, <3>1 DEF InOrder
      <3> QED
        BY <2>3, <3>2
    <2> QED
      BY <2>4, <2>5
  <1>11. AcceptedInOrder(a2, en)
    BY <1>1, <1>5, <1>6, <1>7, <1>10, AcceptsLast
  <1>12. QueueOK(r2, a2, en)
    <2>1. ASSUME NEW x, <<x>> \in Values(r2) PROVE x \notin Values(a2)
      BY <1>5, <1>8, <2>1, SingleEqual DEF QueueOK
    <2>2. \A x \in Values(a2) : EnteredIn(en, x)
      BY <1>5, <1>8 DEF QueueOK, EnteredIn
    <2>3. \A x : <<x>> \in Values(r2) => \E i \in 1 .. Len(en) : en[i].call = x /\ en[i].queued
      BY <1>5 DEF QueueOK
    <2> QED
      BY <1>3, <1>8, <2>1, <2>2, <2>3 DEF QueueOK
  <1>13. NoneLost(r2, a2, en)
    BY <1>5, <1>8, SingleEqual DEF NoneLost
  <1>14. InOrder(r2, en)
    <2> SUFFICES ASSUME NEW k \in 1 .. Len(r2), NEW l \in 1 .. Len(r2), NEW i \in 1 .. Len(en),
                        NEW j \in 1 .. Len(en), k < l, r2[k] = <<en[i].call>>,
                        r2[l] = <<en[j].call>>
                 PROVE  i < j
      BY DEF InOrder
    <2>1. /\ k + 1 \in 1 .. Len(rq) /\ l + 1 \in 1 .. Len(rq) /\ k + 1 < l + 1
          /\ rq[k + 1] = <<en[i].call>> /\ rq[l + 1] = <<en[j].call>>
      BY <1>9
    <2> QED
      BY <2>1 DEF InOrder
  <1>15. DirectLast(a2, en)
    BY <1>8 DEF DirectLast
  <1> QED
    BY <1>2, <1>4, <1>5, <1>7, <1>8, <1>11, <1>12, <1>13, <1>14, <1>15

\* The queue is given up.
LEMMA FlushesNone ==
    ASSUME NEW rq, NEW ac, NEW en, QueueOK(rq, ac, en)
    PROVE  QueueOK(<<>>, ac, en) /\ InOrder(<<>>, en)
  BY ValuesEmpty DEF QueueOK, InOrder

\* Steps that change neither the queue nor the histories.
LEMMA HandlerSameData ==
    ASSUME HandlerQueue, HandlerOrder, h'.requests = h.requests, accepted' = accepted,
           entered' = entered, h'.exception = h.exception \/ h'.exception # "none"
    PROVE  /\ HandlerQueue' /\ HandlerOrder' /\ Enqueued' = Enqueued /\ Accepted' = Accepted
           /\ \A c : /\ Entered(c)' <=> Entered(c)
                     /\ DirectIn(entered', c) <=> DirectIn(entered, c)
  <1>1. HandlerQueue'
    BY DEF HandlerQueue
  <1>2. HandlerOrder'
    BY DEF HandlerOrder
  <1> QED
    BY <1>1, <1>2 DEF Enqueued, Accepted, Entered

\* A call waits in the monitor.
LEMMA HandlerWaits ==
    ASSUME HandlerInv, NEW c \in H!Calls, caller[c] = "try", H!Waits(c)
    PROVE  HandlerInv'
  <1> USE DEF H!Waits, H!Goes, H!world, H!history
  <1>1. /\ HandlerQueue' /\ HandlerOrder' /\ Enqueued' = Enqueued /\ Accepted' = Accepted
        /\ \A x : /\ Entered(x)' <=> Entered(x)
                  /\ DirectIn(entered', x) <=> DirectIn(entered, x)
    BY HandlerSameData DEF HandlerInv
  <1>2. H!TypeOK'
    BY DEF HandlerInv, H!TypeOK
  <1>3. /\ caller' = [caller EXCEPT ![c] = "wait"]
        /\ caller \in [H!Calls -> {"idle", "try", "wait", "direct", "marshal", "done"}]
    BY DEF HandlerInv, H!TypeOK
  <1>4. HandlerCalls'
    BY <1>1, <1>3 DEF HandlerInv, HandlerCalls
  <1>5. HandlerPhases'
    BY DEF HandlerInv, HandlerPhases
  <1>6. HandlerBatch'
    BY <1>3 DEF HandlerInv, HandlerBatch
  <1> QED
    BY <1>1, <1>2, <1>4, <1>5, <1>6 DEF HandlerInv

\* A call ends with the exception of the establishment.
LEMMA HandlerThrows ==
    ASSUME HandlerInv, NEW c \in H!Calls, caller[c] \in {"try", "marshal"}, H!Throws(c)
    PROVE  HandlerInv'
  <1> USE DEF H!Throws, H!Goes, H!IsTold, H!world
  <1>1. /\ HandlerQueue' /\ HandlerOrder' /\ Enqueued' = Enqueued /\ Accepted' = Accepted
        /\ \A x : /\ Entered(x)' <=> Entered(x)
                  /\ DirectIn(entered', x) <=> DirectIn(entered, x)
    BY HandlerSameData DEF HandlerInv
  <1>2. H!TypeOK'
    BY DEF HandlerInv, H!TypeOK
  <1>3. /\ caller' = [caller EXCEPT ![c] = "done"] /\ told' = [told EXCEPT ![c] = "thrown"]
        /\ caller \in [H!Calls -> {"idle", "try", "wait", "direct", "marshal", "done"}]
        /\ told \in [H!Calls -> {"nothing", "queued", "accepted", "failed", "thrown"}]
    BY DEF HandlerInv, H!TypeOK
  <1>4. HandlerCalls'
    <2>1. ~Entered(c) /\ <<c>> \notin Enqueued /\ c \notin Accepted
      BY DEF HandlerInv, HandlerCalls, HandlerQueue, QueueOK, Enqueued, Accepted, Entered,
         EnteredIn
    <2>2. \A x \in H!Calls : x # c => told'[x] = told[x] /\ caller'[x] = caller[x]
      BY <1>3
    <2>3. told'[c] = "thrown" /\ caller'[c] = "done"
      BY <1>3
    <2>4. Accepted \subseteq H!Calls
      BY DEF HandlerInv, H!TypeOK, Accepted, Values
    <2>5. Async \subseteq H!Calls
      BY DEF H!Calls
    <2> QED
      BY <1>1, <2>1, <2>2, <2>3, <2>4, <2>5 DEF HandlerInv, HandlerCalls
  <1>5. HandlerPhases'
    BY DEF HandlerInv, HandlerPhases
  <1>6. HandlerBatch'
    BY <1>3 DEF HandlerInv, HandlerBatch
  <1> QED
    BY <1>1, <1>2, <1>4, <1>5, <1>6 DEF HandlerInv

\* One call enters the handler.
LEMMA OneEntry ==
    ASSUME NEW c \in H!Calls, NEW q \in BOOLEAN, H!TypeOK, H!Enters(<<c>>, q)
    PROVE  entered' = Append(entered, [call |-> c, queued |-> q])
  <1>1. [i \in DOMAIN <<c>> |-> [call |-> <<c>>[i], queued |-> q]] = <<[call |-> c, queued |-> q]>>
    OBVIOUS
  <1>2. entered \in Seq(Entry) /\ [call |-> c, queued |-> q] \in Entry
    BY DEF H!TypeOK, Entry
  <1>3. entered' = entered \o <<[call |-> c, queued |-> q]>>
    BY <1>1 DEF H!Enters
  <1> QED
    BY <1>2, <1>3

\* A call goes to the connection when the queue has been sent.
LEMMA HandlerGoesDirect ==
    ASSUME HandlerInv, NEW c \in H!Calls, caller[c] \in {"idle", "try"}, H!GoesDirect(c),
           main = "connection" \/ replaced \/ h.initialized
    PROVE  HandlerInv'
  <1> USE DEF H!GoesDirect, H!Goes, H!world
  <1>1. h.exception = "none" /\ h.requests = <<>>
    BY DEF HandlerInv, HandlerPhases, H!TypeOK
  <1>2. entered' = Append(entered, [call |-> c, queued |-> FALSE])
    BY OneEntry DEF HandlerInv
  <1>3. ~EnteredIn(entered, c)
    BY DEF HandlerInv, HandlerCalls, Entered
  <1>4. /\ QueueOK(<<>>, accepted, entered) /\ NoneLost(<<>>, accepted, entered)
        /\ DirectLast(accepted, entered) /\ AcceptedInOrder(accepted, entered)
        /\ InOrder(<<>>, entered)
    BY <1>1 DEF HandlerInv, HandlerQueue, HandlerOrder
  <1>5. /\ QueueOK(<<>>, accepted, entered') /\ NoneLost(<<>>, accepted, entered')
        /\ DirectLast(accepted, entered') /\ AcceptedInOrder(accepted, entered')
        /\ \A x : EnteredIn(entered', x) <=> EnteredIn(entered, x) \/ x = c
        /\ DirectIn(entered', c) /\ \A x : DirectIn(entered, x) => DirectIn(entered', x)
    BY <1>2, <1>3, <1>4, EntersDirect
  <1>6. InOrder(<<>>, entered')
    BY DEF InOrder
  <1>7. h' = h /\ accepted' = accepted /\ told' = told
    OBVIOUS
  <1>8. HandlerQueue' /\ HandlerOrder'
    BY <1>1, <1>5, <1>6, <1>7 DEF HandlerQueue, HandlerOrder
  <1>9. H!TypeOK'
    <2>1. entered' \in Seq([call : H!Calls, queued : BOOLEAN])
      BY <1>5 DEF QueueOK, Entry
    <2> QED
      BY <2>1 DEF HandlerInv, H!TypeOK
  <1>10. /\ caller' = [caller EXCEPT ![c] = "direct"]
         /\ caller \in [H!Calls -> {"idle", "try", "wait", "direct", "marshal", "done"}]
    BY DEF HandlerInv, H!TypeOK
  <1>11. HandlerCalls'
    <2>1. Enqueued' = Enqueued /\ Accepted' = Accepted
      BY <1>7 DEF Enqueued, Accepted
    <2>2. c \notin Accepted
      BY <1>3, <1>4 DEF QueueOK, Accepted
    <2>3. \A x : Entered(x)' <=> Entered(x) \/ x = c
      BY <1>5 DEF Entered
    <2>4. \A x \in H!Calls : x # c => caller'[x] = caller[x]
      BY <1>10
    <2>5. caller'[c] = "direct"
      BY <1>10
    <2> QED
      BY <1>5, <1>7, <2>1, <2>2, <2>3, <2>4, <2>5 DEF HandlerInv, HandlerCalls
  <1>12. HandlerPhases'
    BY DEF HandlerInv, HandlerPhases
  <1>13. HandlerBatch'
    BY <1>10 DEF HandlerInv, HandlerBatch
  <1> QED
    BY <1>8, <1>9, <1>11, <1>12, <1>13 DEF HandlerInv

\* An asynchronous call is queued.
LEMMA HandlerQueues ==
    ASSUME HandlerInv, NEW c \in Async, caller[c] = "try", H!NotInitialized, H!Queue(c)
    PROVE  HandlerInv'
  <1> USE DEF H!Queue, H!Goes, H!world, H!IsTold
  <1>0. c \in H!Calls /\ h \in H!Handler
    BY DEF H!Calls, HandlerInv, H!TypeOK
  <1>1. /\ h.exception = "none" /\ h'.requests = Append(h.requests, <<c>>)
        /\ h'.initialized = h.initialized /\ h'.flushing = h.flushing
        /\ h'.exception = h.exception /\ h'.batchInProgress = h.batchInProgress
        /\ h'.batchStream = h.batchStream /\ h'.batchSize = h.batchSize
        /\ h'.updateHandler = h.updateHandler
    BY <1>0 DEF H!NotInitialized, H!Handler
  <1>2. entered' = Append(entered, [call |-> c, queued |-> TRUE])
    BY <1>0, OneEntry DEF HandlerInv
  <1>3. ~EnteredIn(entered, c)
    BY <1>0 DEF HandlerInv, HandlerCalls, Entered
  <1>4. /\ QueueOK(h.requests, accepted, entered) /\ NoneLost(h.requests, accepted, entered)
        /\ DirectLast(accepted, entered) /\ AcceptedInOrder(accepted, entered)
        /\ InOrder(h.requests, entered)
    BY <1>1 DEF HandlerInv, HandlerQueue, HandlerOrder
  <1>5. /\ QueueOK(h'.requests, accepted, entered') /\ NoneLost(h'.requests, accepted, entered')
        /\ InOrder(h'.requests, entered')
        /\ DirectLast(accepted, entered') /\ AcceptedInOrder(accepted, entered')
        /\ Values(h'.requests) = Values(h.requests) \cup {<<c>>}
        /\ \A x : EnteredIn(entered', x) <=> EnteredIn(entered, x) \/ x = c
        /\ \A x : DirectIn(entered, x) => DirectIn(entered', x)
    BY <1>1, <1>2, <1>3, <1>4, EntersQueue
  <1>7. accepted' = accepted
    OBVIOUS
  <1>8. HandlerQueue' /\ HandlerOrder'
    BY <1>5, <1>7 DEF HandlerQueue, HandlerOrder
  <1>9. H!TypeOK'
    <2>1. entered' \in Seq([call : H!Calls, queued : BOOLEAN])
      BY <1>5 DEF QueueOK, Entry
    <2>2. h' \in H!Handler
      <3>1. h.requests \in Seq(Seq(H!Calls)) /\ <<c>> \in Seq(H!Calls)
        BY <1>0 DEF H!Handler
      <3>2. Append(h.requests, <<c>>) \in Seq(Seq(H!Calls))
        BY <3>1
      <3> QED
        BY <1>0, <3>2 DEF H!Handler
    <2> QED
      BY <1>0, <2>1, <2>2 DEF HandlerInv, H!TypeOK
  <1>10. /\ caller' = [caller EXCEPT ![c] = "done"] /\ told' = [told EXCEPT ![c] = "queued"]
         /\ caller \in [H!Calls -> {"idle", "try", "wait", "direct", "marshal", "done"}]
         /\ told \in [H!Calls -> {"nothing", "queued", "accepted", "failed", "thrown"}]
    BY DEF HandlerInv, H!TypeOK
  <1>11. HandlerCalls'
    <2>1. Enqueued' = Enqueued \cup {<<c>>} /\ Accepted' = Accepted
      BY <1>5, <1>7 DEF Enqueued, Accepted
    <2>2. c \notin Accepted /\ Accepted \subseteq H!Calls /\ Async \subseteq H!Calls
      BY <1>3, <1>4 DEF QueueOK, Accepted, Values, H!Calls
    <2>3. \A x : Entered(x)' <=> Entered(x) \/ x = c
      BY <1>5 DEF Entered
    <2>4. \A x \in H!Calls : x # c => caller'[x] = caller[x] /\ told'[x] = told[x]
      BY <1>10
    <2>5. caller'[c] = "done" /\ told'[c] = "queued"
      BY <1>0, <1>10
    <2>6. \A x : <<x>> \in Enqueued' <=> (<<x>> \in Enqueued \/ x = c)
      BY <2>1, SingleEqual
    <2> HIDE DEF H!Queue
    <2> QED
      BY <1>0, <1>5, <2>1, <2>2, <2>3, <2>4, <2>5, <2>6 DEF HandlerInv, HandlerCalls
  <1>12. HandlerPhases'
    <2>1. est \in {"connecting", "routing", "flush", "wait"}
      BY DEF HandlerInv, HandlerPhases, H!NotInitialized, H!TypeOK
    <2> QED
      BY <1>1, <2>1 DEF HandlerInv, HandlerPhases
  <1>13. HandlerBatch'
    BY <1>1, <1>10 DEF HandlerInv, HandlerBatch
  <1> QED
    BY <1>8, <1>9, <1>11, <1>12, <1>13 DEF HandlerInv

\* Threads move, and the data of the calls stay what they are.
LEMMA HandlerMoves ==
    ASSUME HandlerInv, h'.requests = h.requests,
           h'.exception = h.exception \/ h'.exception # "none",
           UNCHANGED <<accepted, entered, told>>,
           \A c \in H!Calls :
               \/ caller'[c] = caller[c]
               \/ /\ caller[c] \in {"idle", "try", "wait", "marshal"}
                  /\ caller'[c] \in {"try", "wait", "marshal", "done"}
    PROVE  HandlerQueue' /\ HandlerOrder' /\ HandlerCalls'
  <1>1. /\ HandlerQueue' /\ HandlerOrder' /\ Enqueued' = Enqueued /\ Accepted' = Accepted
        /\ \A x : /\ Entered(x)' <=> Entered(x)
                  /\ DirectIn(entered', x) <=> DirectIn(entered, x)
    BY HandlerSameData DEF HandlerInv
  <1>2. HandlerCalls'
    BY <1>1 DEF HandlerInv, HandlerCalls
  <1> QED
    BY <1>1, <1>2

\* notifyAll() moves the threads that wait, and no others.
LEMMA Awakens ==
    ASSUME HandlerInv, NEW c \in H!Calls
    PROVE  /\ H!Awake(caller)[c] = caller[c] \/ (caller[c] = "wait" /\ H!Awake(caller)[c] = "try")
           /\ H!Awake(caller) \in [H!Calls -> {"idle", "try", "wait", "direct", "marshal", "done"}]
  BY DEF HandlerInv, H!TypeOK, H!Awake

\* connect(): the proxy gets the connection, this handler or an exception.
LEMMA HandlerConnect ==
    ASSUME HandlerInv, H!Connect
    PROVE  HandlerInv'
  <1> USE DEF H!Connect, H!world, H!history
  <1>0. h \in H!Handler
    BY DEF HandlerInv, H!TypeOK
  <1>1. /\ h'.requests = h.requests
        /\ h'.initialized = h.initialized /\ h'.flushing = h.flushing
        /\ h'.exception = h.exception /\ h'.batchInProgress = h.batchInProgress
        /\ h'.batchStream = h.batchStream /\ h'.batchSize = h.batchSize
        /\ h'.updateHandler = (h.updateHandler \/ H!NotInitialized)
    BY <1>0 DEF H!Handler
  <1>2. HandlerQueue' /\ HandlerOrder' /\ HandlerCalls'
    BY <1>1, HandlerMoves
  <1>3. \/ main' \in {"wait", "threw"}
        \/ main' = "connection" /\ h.initialized
        \/ main' = "this" /\ H!NotInitialized
    OBVIOUS
  <1>4. H!TypeOK'
    <2>1. h' \in H!Handler
      BY <1>0 DEF H!Handler, H!NotInitialized
    <2> QED
      BY <1>3, <2>1 DEF HandlerInv, H!TypeOK
  <1>5. HandlerPhases'
    <2>1. H!NotInitialized => est \in {"connecting", "routing", "flush", "wait"}
      BY DEF HandlerInv, HandlerPhases, H!NotInitialized, H!TypeOK
    <2> QED
      BY <1>1, <1>3, <2>1 DEF HandlerInv, HandlerPhases
  <1>6. HandlerBatch'
    BY <1>1 DEF HandlerInv, HandlerBatch
  <1> QED
    BY <1>2, <1>4, <1>5, <1>6 DEF HandlerInv

\* A call takes the handler that the proxy has.
LEMMA HandlerBegin ==
    ASSUME HandlerInv, NEW c \in H!Calls, H!Begin(c)
    PROVE  HandlerInv'
  <1> USE DEF H!Begin
  <1>1. CASE (main = "connection" \/ replaced) /\ H!GoesDirect(c)
    BY <1>1, HandlerGoesDirect
  <1>2. CASE main = "this" /\ ~replaced /\ H!Goes(c, "try")
             /\ UNCHANGED <<h, lent, H!world, H!history>>
    <2> USE <1>2 DEF H!Goes, H!world, H!history
    <2>1. /\ caller' = [caller EXCEPT ![c] = "try"]
          /\ caller \in [H!Calls -> {"idle", "try", "wait", "direct", "marshal", "done"}]
      BY DEF HandlerInv, H!TypeOK
    <2>2. HandlerQueue' /\ HandlerOrder' /\ HandlerCalls'
      BY <2>1, HandlerMoves
    <2>3. H!TypeOK'
      BY DEF HandlerInv, H!TypeOK
    <2>4. HandlerPhases'
      BY DEF HandlerInv, HandlerPhases
    <2>5. HandlerBatch'
      BY <2>1 DEF HandlerInv, HandlerBatch
    <2> QED
      BY <2>2, <2>3, <2>4, <2>5 DEF HandlerInv
  <1> QED
    BY <1>1, <1>2

\* sendAsyncRequest() and flushAsyncBatchRequests().
LEMMA HandlerSendAsync ==
    ASSUME HandlerInv, NEW c \in H!Calls, H!SendAsyncRequest(c)
    PROVE  HandlerInv'
  BY HandlerWaits, HandlerThrows, HandlerGoesDirect, HandlerQueues DEF H!SendAsyncRequest

\* sendRequest() and flushBatchRequests().
LEMMA HandlerSend ==
    ASSUME HandlerInv, NEW c \in H!Calls, H!SendRequest(c)
    PROVE  HandlerInv'
  BY HandlerWaits, HandlerThrows, HandlerGoesDirect DEF H!SendRequest

\* The batch stream is lent to one caller.
LEMMA HandlerLends ==
    ASSUME HandlerInv, NEW c \in Batch, caller[c] = "try", ~h.batchInProgress,
           H!NotInitialized, H!Lend(c)
    PROVE  HandlerInv'
  <1> USE DEF H!Lend, H!Goes, H!world, H!history
  <1>0. h \in H!Handler /\ c \in H!Calls
    BY DEF HandlerInv, H!TypeOK, H!Calls
  <1>1. /\ h'.requests = h.requests
        /\ h'.initialized = h.initialized /\ h'.flushing = h.flushing
        /\ h'.exception = h.exception /\ h'.batchInProgress
        /\ h'.batchStream = <<>> /\ h'.batchSize = h.batchSize
        /\ h'.updateHandler = h.updateHandler
    BY <1>0 DEF H!Handler
  <1>2. /\ caller' = [caller EXCEPT ![c] = "marshal"] /\ lent' = [lent EXCEPT ![c] = h.batchStream]
        /\ caller \in [H!Calls -> {"idle", "try", "wait", "direct", "marshal", "done"}]
        /\ lent \in [Batch -> Seq(Batch)] /\ h.batchStream \in Seq(Batch)
    BY <1>0 DEF HandlerInv, H!TypeOK, H!Handler
  <1>3. HandlerQueue' /\ HandlerOrder' /\ HandlerCalls'
    BY <1>1, <1>2, HandlerMoves
  <1>4. H!TypeOK'
    <2>1. h' \in H!Handler
      <3>1. <<>> \in Seq(Batch)
        OBVIOUS
      <3> QED
        BY <1>0, <3>1 DEF H!Handler
    <2>2. lent' \in [Batch -> Seq(Batch)]
      BY <1>2
    <2> QED
      BY <2>1, <2>2 DEF HandlerInv, H!TypeOK
  <1>5. HandlerPhases'
    BY <1>1 DEF HandlerInv, HandlerPhases
  <1>6. HandlerBatch'
    <2>1. \A d \in H!Calls : caller'[d] = "marshal" => d = c
      BY <1>2 DEF HandlerInv, HandlerBatch
    <2>2. lent'[c] = h.batchStream
      BY <1>2
    <2>3. ~h'.flushing /\ Full(h'.batchStream, h'.batchSize) /\ Full(lent'[c], h'.batchSize)
      BY <1>1, <2>2 DEF H!NotInitialized, HandlerInv, HandlerBatch, Full
    <2> QED
      BY <1>1, <2>1, <2>3 DEF HandlerBatch
  <1> QED
    BY <1>3, <1>4, <1>5, <1>6 DEF HandlerInv

\* prepareBatchRequest().
LEMMA HandlerPrepare ==
    ASSUME HandlerInv, NEW c \in H!Calls, H!PrepareBatchRequest(c)
    PROVE  HandlerInv'
  BY HandlerWaits, HandlerThrows, HandlerGoesDirect, HandlerLends DEF H!PrepareBatchRequest

\* The stream is returned: the threads that wait are notified.
LEMMA HandlerReturns ==
    ASSUME HandlerInv, NEW c \in Batch, caller[c] = "marshal", H!NotInitialized,
           H!StreamReturned(c), UNCHANGED <<replaced, failItem, up>>,
           h' \in H!Handler, h'.initialized = h.initialized, h'.flushing = h.flushing,
           h'.exception = h.exception, ~h'.batchInProgress, h'.updateHandler = h.updateHandler,
           Full(h'.batchStream, h'.batchSize), accepted' = accepted,
           entered' \in Seq(Entry),
           told' \in [H!Calls -> {"nothing", "queued", "accepted", "failed", "thrown"}]
    PROVE  /\ H!TypeOK' /\ HandlerPhases' /\ HandlerBatch' /\ caller'[c] = "done"
           /\ \A d \in H!Calls : d # c =>
                  caller'[d] = caller[d] \/ (caller[d] = "wait" /\ caller'[d] = "try")
  <1> USE DEF H!StreamReturned
  <1>0. c \in H!Calls
    BY DEF H!Calls
  <1>1. /\ caller' \in [H!Calls -> {"idle", "try", "wait", "direct", "marshal", "done"}]
        /\ caller'[c] = "done"
        /\ \A d \in H!Calls : d # c =>
                  caller'[d] = caller[d] \/ (caller[d] = "wait" /\ caller'[d] = "try")
    BY <1>0, Awakens
  <1>2. /\ lent' \in [Batch -> Seq(Batch)]
        /\ main' \in {"try", "wait", "this", "connection", "threw"}
        /\ est' \in {"connecting", "routing", "flush", "wait", "send", "install", "end", "done"}
    <2>1. <<>> \in Seq(Batch)
      OBVIOUS
    <2> QED
      BY <2>1 DEF HandlerInv, H!TypeOK, H!AwakeMain
  <1>3. H!TypeOK'
    BY <1>1, <1>2 DEF HandlerInv, H!TypeOK, Entry
  <1>4. HandlerPhases'
    <2>1. /\ est \in {"connecting", "routing", "flush", "wait"}
          /\ est' \in {"connecting", "routing", "flush"}
      BY DEF HandlerInv, HandlerPhases, H!NotInitialized, H!TypeOK
    <2>2. main' = "this" => main = "this"
      BY DEF H!AwakeMain
    <2>3. main' = "connection" => main = "connection"
      BY DEF H!AwakeMain
    <2> QED
      BY <2>1, <2>2, <2>3 DEF HandlerInv, HandlerPhases
  <1>5. HandlerBatch'
    <2>1. \A d \in H!Calls : caller'[d] # "marshal"
      BY <1>0, <1>1 DEF HandlerInv, HandlerBatch
    <2> QED
      BY <2>1 DEF HandlerBatch
  <1> QED
    BY <1>1, <1>3, <1>4, <1>5

\* A call that prepared a batch request ends with an exception.
LEMMA HandlerGivesUp ==
    ASSUME HandlerInv, NEW c \in H!Calls, caller[c] \in {"try", "marshal"},
           h'.requests = h.requests, h'.exception = h.exception,
           told' = [told EXCEPT ![c] = "thrown"], UNCHANGED <<accepted, entered>>,
           H!TypeOK', HandlerPhases', HandlerBatch', caller'[c] = "done",
           \A d \in H!Calls : d # c =>
               caller'[d] = caller[d] \/ (caller[d] = "wait" /\ caller'[d] = "try")
    PROVE  HandlerInv'
  <1>1. /\ HandlerQueue' /\ HandlerOrder' /\ Enqueued' = Enqueued /\ Accepted' = Accepted
        /\ \A x : /\ Entered(x)' <=> Entered(x)
                  /\ DirectIn(entered', x) <=> DirectIn(entered, x)
    BY HandlerSameData DEF HandlerInv
  <1>2. ~Entered(c) /\ <<c>> \notin Enqueued /\ c \notin Accepted
    BY DEF HandlerInv, HandlerCalls, HandlerQueue, QueueOK, Enqueued, Accepted, Entered, EnteredIn
  <1>3. told'[c] = "thrown" /\ \A x \in H!Calls : x # c => told'[x] = told[x]
    BY DEF HandlerInv, H!TypeOK
  <1>4. Accepted \subseteq H!Calls /\ Async \subseteq H!Calls
    BY DEF HandlerInv, H!TypeOK, Accepted, Values, H!Calls
  <1>5. HandlerCalls'
    BY <1>1, <1>2, <1>3, <1>4 DEF HandlerInv, HandlerCalls
  <1> QED
    BY <1>1, <1>5 DEF HandlerInv

\* finishBatchRequest(): a stream that is queued holds one request, because a stream that
\* was given back with requests in it stays too long to be queued (Full).
LEMMA HandlerTakesBack ==
    ASSUME HandlerInv, NEW c \in Batch, caller[c] = "marshal", H!NotInitialized,
           H!TakeBack(c), H!StreamReturned(c), UNCHANGED <<H!world, accepted>>
    PROVE  HandlerInv'
  <1> USE DEF H!world
  <1> DEFINE stream == Append(lent[c], c)
  <1>0. /\ h \in H!Handler /\ c \in H!Calls /\ lent[c] \in Seq(Batch) /\ MaxBatch \in Nat
        /\ AutoFlush \in BOOLEAN /\ h.batchSize \in Nat /\ h.exception = "none"
        /\ told \in [H!Calls -> {"nothing", "queued", "accepted", "failed", "thrown"}]
        /\ entered \in Seq(Entry)
    BY HandlerAssumption DEF HandlerInv, H!TypeOK, H!Calls, H!Handler, H!NotInitialized, Entry
  <1>1. stream \in Seq(Batch) /\ Len(stream) = Len(lent[c]) + 1 /\ Len(lent[c]) \in Nat
    BY <1>0
  <1>2. Full(lent[c], h.batchSize)
    BY <1>0 DEF HandlerInv, HandlerBatch
  <1>3. ~EnteredIn(entered, c) /\ told[c] = "nothing"
    BY <1>0 DEF HandlerInv, HandlerCalls, Entered
  <1>4. CASE AutoFlush \/ Len(stream) + h.batchSize <= MaxBatch
    <2>1. lent[c] = <<>>
      BY <1>0, <1>1, <1>2, <1>4 DEF Full
    <2>2. stream = <<c>>
      BY <2>1
    <2>3. /\ h' = [[h EXCEPT !.batchInProgress = FALSE, !.batchStream = stream]
                       EXCEPT !.batchStream = <<>>, !.batchSize = @ + Len(stream),
                              !.requests = Append(@, stream)]
          /\ H!Enters(stream, TRUE) /\ H!IsTold(c, "queued")
      BY <1>4 DEF H!TakeBack
    <2>4. /\ h'.requests = Append(h.requests, <<c>>)
          /\ h'.initialized = h.initialized /\ h'.flushing = h.flushing
          /\ h'.exception = h.exception /\ ~h'.batchInProgress
          /\ h'.batchStream = <<>> /\ h'.updateHandler = h.updateHandler
      BY <1>0, <2>2, <2>3 DEF H!Handler
    <2>5. h' \in H!Handler
      <3>1. Append(h.requests, stream) \in Seq(Seq(H!Calls))
        <4>1. h.requests \in Seq(Seq(H!Calls)) /\ <<c>> \in Seq(H!Calls)
          BY <1>0 DEF H!Handler
        <4> QED
          BY <2>2, <4>1
      <3>2. h.batchSize + Len(stream) \in Nat /\ <<>> \in Seq(Batch)
        BY <1>0, <1>1
      <3> HIDE DEF stream
      <3> QED
        BY <1>0, <2>3, <3>1, <3>2 DEF H!Handler
    <2>6. entered' = Append(entered, [call |-> c, queued |-> TRUE])
      BY <1>0, <2>2, <2>3, OneEntry DEF HandlerInv
    <2>7. /\ QueueOK(h.requests, accepted, entered) /\ NoneLost(h.requests, accepted, entered)
          /\ DirectLast(accepted, entered) /\ AcceptedInOrder(accepted, entered)
          /\ InOrder(h.requests, entered)
      BY <1>0 DEF HandlerInv, HandlerQueue, HandlerOrder
    <2>8. /\ QueueOK(h'.requests, accepted, entered') /\ NoneLost(h'.requests, accepted, entered')
          /\ InOrder(h'.requests, entered')
          /\ DirectLast(accepted, entered') /\ AcceptedInOrder(accepted, entered')
          /\ Values(h'.requests) = Values(h.requests) \cup {<<c>>}
          /\ \A x : EnteredIn(entered', x) <=> EnteredIn(entered, x) \/ x = c
          /\ \A x : DirectIn(entered, x) => DirectIn(entered', x)
      BY <1>3, <2>4, <2>6, <2>7, EntersQueue
    <2>9. HandlerQueue' /\ HandlerOrder'
      BY <2>8 DEF HandlerQueue, HandlerOrder
    <2>10. told' = [told EXCEPT ![c] = "queued"]
      BY <2>3 DEF H!IsTold
    <2>11. /\ H!TypeOK' /\ HandlerPhases' /\ HandlerBatch' /\ caller'[c] = "done"
           /\ \A d \in H!Calls : d # c =>
                  caller'[d] = caller[d] \/ (caller[d] = "wait" /\ caller'[d] = "try")
      <3>1. Full(h'.batchStream, h'.batchSize)
        BY <2>4 DEF Full
      <3>2. entered' \in Seq(Entry)
        BY <2>8 DEF QueueOK
      <3> QED
        BY <1>0, <2>4, <2>5, <2>10, <3>1, <3>2, HandlerReturns
    <2>12. HandlerCalls'
      <3>1. Enqueued' = Enqueued \cup {<<c>>} /\ Accepted' = Accepted
        BY <2>8 DEF Enqueued, Accepted
      <3>2. c \notin Accepted /\ Accepted \subseteq H!Calls /\ Async \subseteq H!Calls
        BY <1>3, <2>7 DEF QueueOK, Accepted, Values, H!Calls
      <3>3. \A x : Entered(x)' <=> Entered(x) \/ x = c
        BY <2>8 DEF Entered
      <3>4. \A x \in H!Calls : x # c => told'[x] = told[x]
        BY <1>0, <2>10
      <3>5. told'[c] = "queued"
        BY <1>0, <2>10
      <3>6. \A x : <<x>> \in Enqueued' <=> (<<x>> \in Enqueued \/ x = c)
        BY <3>1, SingleEqual
      <3>7. \A x : Entered(x) <=> EnteredIn(entered, x)
        BY DEF Entered
      <3> QED
        BY <1>0, <2>8, <2>11, <3>1, <3>2, <3>3, <3>4, <3>5, <3>6 DEF HandlerInv, HandlerCalls
    <2> QED
      BY <2>9, <2>11, <2>12 DEF HandlerInv
  <1>5. CASE ~(AutoFlush \/ Len(stream) + h.batchSize <= MaxBatch)
    <2>1. /\ h' = [h EXCEPT !.batchInProgress = FALSE, !.batchStream = stream]
          /\ told' = [told EXCEPT ![c] = "thrown"] /\ entered' = entered
      BY <1>5 DEF H!TakeBack, H!IsTold
    <2>2. /\ h'.requests = h.requests
          /\ h'.initialized = h.initialized /\ h'.flushing = h.flushing
          /\ h'.exception = h.exception /\ ~h'.batchInProgress
          /\ h'.batchStream = stream /\ h'.updateHandler = h.updateHandler
          /\ h'.batchSize = h.batchSize /\ h' \in H!Handler
      <3> HIDE DEF stream
      <3> QED
        BY <1>0, <1>1, <2>1 DEF H!Handler
    <2>3. Full(h'.batchStream, h'.batchSize)
      BY <1>0, <1>1, <1>5, <2>2 DEF Full
    <2>4. /\ H!TypeOK' /\ HandlerPhases' /\ HandlerBatch' /\ caller'[c] = "done"
          /\ \A d \in H!Calls : d # c =>
                  caller'[d] = caller[d] \/ (caller[d] = "wait" /\ caller'[d] = "try")
      BY <1>0, <2>1, <2>2, <2>3, HandlerReturns
    <2> QED
      BY <1>0, <2>1, <2>2, <2>4, HandlerGivesUp
  <1> QED
    BY <1>4, <1>5

\* finishBatchRequest(), or the exception of the establishment.
LEMMA HandlerFinish ==
    ASSUME HandlerInv, NEW c \in H!Calls, H!FinishBatchRequest(c)
    PROVE  HandlerInv'
  BY HandlerThrows, HandlerTakesBack DEF H!FinishBatchRequest

\* abortBatchRequest().
LEMMA HandlerAbort ==
    ASSUME HandlerInv, NEW c \in H!Calls, H!AbortBatchRequest(c)
    PROVE  HandlerInv'
  <1> USE DEF H!AbortBatchRequest
  <1>1. CASE H!InitializedThrows /\ H!Throws(c)
    BY <1>1, HandlerThrows
  <1>2. CASE H!NotInitialized /\ ~(H!InitializedThrows /\ H!Throws(c))
    <2> USE <1>2 DEF H!world
    <2>0. c \in Batch /\ h \in H!Handler
      BY DEF HandlerInv, H!TypeOK
    <2>1. h' = [h EXCEPT !.batchInProgress = FALSE, !.batchStream = <<>>, !.batchSize = 0]
      OBVIOUS
    <2>2. /\ h'.requests = h.requests
          /\ h'.initialized = h.initialized /\ h'.flushing = h.flushing
          /\ h'.exception = h.exception /\ ~h'.batchInProgress
          /\ h'.batchStream = <<>> /\ h'.updateHandler = h.updateHandler
      BY <2>0, <2>1 DEF H!Handler
    <2>3. h' \in H!Handler
      <3>1. <<>> \in Seq(Batch)
        OBVIOUS
      <3> QED
        BY <2>0, <2>1, <3>1 DEF H!Handler
    <2>4. told' = [told EXCEPT ![c] = "thrown"] /\ H!StreamReturned(c)
      BY DEF H!IsTold
    <2>5. /\ H!TypeOK' /\ HandlerPhases' /\ HandlerBatch' /\ caller'[c] = "done"
          /\ \A d \in H!Calls : d # c =>
                  caller'[d] = caller[d] \/ (caller[d] = "wait" /\ caller'[d] = "try")
      <3>1. Full(h'.batchStream, h'.batchSize)
        BY <2>2 DEF Full
      <3>2. /\ entered' \in Seq(Entry)
            /\ told' \in [H!Calls -> {"nothing", "queued", "accepted", "failed", "thrown"}]
        BY <2>4 DEF HandlerInv, H!TypeOK, Entry
      <3> QED
        BY <2>0, <2>2, <2>3, <2>4, <3>1, <3>2, HandlerReturns
    <2> QED
      BY <2>2, <2>4, <2>5, HandlerGivesUp
  <1> QED
    BY <1>1, <1>2

\* The connection accepts a call, or throws.
LEMMA HandlerDirect ==
    ASSUME HandlerInv, NEW c \in H!Calls, H!Direct(c)
    PROVE  HandlerInv'
  <1> USE DEF H!Direct, H!Goes, H!IsTold, H!world
  <1>0. /\ caller' = [caller EXCEPT ![c] = "done"]
        /\ caller \in [H!Calls -> {"idle", "try", "wait", "direct", "marshal", "done"}]
        /\ told \in [H!Calls -> {"nothing", "queued", "accepted", "failed", "thrown"}]
        /\ c \notin Accepted /\ DirectIn(entered, c) /\ h' = h /\ entered' = entered
    BY DEF HandlerInv, H!TypeOK, HandlerCalls
  <1>1. /\ caller'[c] = "done" /\ \A d \in H!Calls : d # c => caller'[d] = caller[d]
        /\ \A d \in H!Calls : d # c => told'[d] = told[d]
    BY <1>0
  <1>2. HandlerPhases'
    BY DEF HandlerInv, HandlerPhases
  <1>3. HandlerBatch'
    BY <1>0, <1>1 DEF HandlerInv, HandlerBatch
  <1>4. c \notin Accepted /\ <<c>> \notin Enqueued
    <2>1. \A i, j \in 1 .. Len(entered) : entered[i].call = entered[j].call => i = j
      BY DEF HandlerInv, HandlerQueue, QueueOK
    <2> QED
      BY <1>0, <2>1 DEF HandlerInv, HandlerQueue, QueueOK, Enqueued, DirectIn
  <1>5. Accepted \subseteq H!Calls /\ Async \subseteq H!Calls
    BY DEF HandlerInv, H!TypeOK, Accepted, Values, H!Calls
  <1>6. CASE up
    <2>1. accepted' = Append(accepted, c) /\ told' = [told EXCEPT ![c] = "accepted"]
      BY <1>6
    <2>2. /\ QueueOK(h.requests, accepted', entered) /\ DirectLast(accepted', entered)
          /\ AcceptedInOrder(accepted', entered)
          /\ NoneLost(h.requests, accepted, entered) => NoneLost(h.requests, accepted', entered)
          /\ Values(accepted') = Values(accepted) \cup {c}
      BY <1>0, <2>1, AcceptsDirect DEF HandlerInv, HandlerQueue, HandlerOrder, Accepted
    <2>3. HandlerQueue' /\ HandlerOrder'
      BY <1>0, <2>2 DEF HandlerInv, HandlerQueue, HandlerOrder
    <2>4. H!TypeOK'
      BY <1>0, <2>1, <2>2 DEF HandlerInv, H!TypeOK, QueueOK
    <2>5. Enqueued' = Enqueued /\ Accepted' = Accepted \cup {c} /\ told'[c] = "accepted"
      BY <1>0, <2>1, <2>2 DEF Enqueued, Accepted
    <2>6. \A x : Entered(x)' <=> Entered(x)
      BY <1>0 DEF Entered
    <2>7. HandlerCalls'
      <3>1. \A x \in H!Calls : <<x>> \in Enqueued => x # c
        BY <1>4
      <3> HIDE DEF H!Direct, H!IsTold, H!Goes
      <3> QED
        BY <1>0, <1>1, <1>4, <1>5, <2>5, <2>6, <3>1 DEF HandlerInv, HandlerCalls
    <2> QED
      BY <1>2, <1>3, <2>3, <2>4, <2>7 DEF HandlerInv
  <1>7. CASE ~up
    <2>1. accepted' = accepted /\ told' = [told EXCEPT ![c] = "thrown"]
      BY <1>7
    <2>2. /\ HandlerQueue' /\ HandlerOrder' /\ Enqueued' = Enqueued /\ Accepted' = Accepted
          /\ \A x : Entered(x)' <=> Entered(x)
      BY <1>0, <2>1, HandlerSameData DEF HandlerInv
    <2>3. H!TypeOK'
      BY <1>0, <2>1 DEF HandlerInv, H!TypeOK
    <2>4. told'[c] = "thrown"
      BY <1>0, <2>1
    <2>5. HandlerCalls'
      BY <1>0, <1>1, <1>4, <1>5, <2>2, <2>4 DEF HandlerInv, HandlerCalls
    <2> QED
      BY <1>2, <1>3, <2>2, <2>3, <2>5 DEF HandlerInv
  <1> QED
    BY <1>6, <1>7

\* A step of the establishing thread that changes no call.
LEMMA HandlerEst ==
    ASSUME HandlerInv, h' \in H!Handler, h'.requests = h.requests,
           h'.exception = h.exception \/ h'.exception # "none",
           h'.batchInProgress = h.batchInProgress, h'.batchStream = h.batchStream,
           h'.batchSize = h.batchSize, h'.updateHandler = h.updateHandler,
           h'.flushing => ~h.batchInProgress,
           caller' = caller \/ caller' = H!Awake(caller),
           main' = main \/ H!AwakeMain,
           est' \in {"connecting", "routing", "flush", "wait", "send", "install", "end", "done"},
           replaced' \in BOOLEAN, failItem' \in BOOLEAN, up' \in BOOLEAN,
           UNCHANGED <<lent, accepted, entered, told>>
    PROVE  /\ H!TypeOK' /\ HandlerQueue' /\ HandlerOrder' /\ HandlerCalls' /\ HandlerBatch'
           /\ main' = "this" => main = "this"
           /\ main' = "connection" => main = "connection"
  <1>1. \A c \in H!Calls :
            caller'[c] = caller[c] \/ (caller[c] = "wait" /\ caller'[c] = "try")
    BY Awakens
  <1>2. HandlerQueue' /\ HandlerOrder' /\ HandlerCalls'
    BY <1>1, HandlerMoves
  <1>3. caller' \in [H!Calls -> {"idle", "try", "wait", "direct", "marshal", "done"}]
    BY DEF HandlerInv, H!TypeOK, H!Awake
  <1>4. H!TypeOK'
    BY <1>3 DEF HandlerInv, H!TypeOK, H!AwakeMain
  <1>5. HandlerBatch'
    BY <1>1 DEF HandlerInv, HandlerBatch
  <1> QED
    BY <1>2, <1>4, <1>5 DEF H!AwakeMain

\* setConnection().
LEMMA HandlerSetConnection ==
    ASSUME HandlerInv, H!SetConnection
    PROVE  HandlerInv'
  <1> USE DEF H!SetConnection, H!world, H!history
  <1>1. /\ H!TypeOK' /\ HandlerQueue' /\ HandlerOrder' /\ HandlerCalls' /\ HandlerBatch'
    BY HandlerEst DEF HandlerInv, H!TypeOK, HandlerBatch
  <1>2. HandlerPhases'
    BY DEF HandlerInv, HandlerPhases
  <1> QED
    BY <1>1, <1>2 DEF HandlerInv

\* addedProxy().
LEMMA HandlerAddedProxy ==
    ASSUME HandlerInv, H!AddedProxy
    PROVE  HandlerInv'
  <1> USE DEF H!AddedProxy, H!world, H!history
  <1>1. /\ H!TypeOK' /\ HandlerQueue' /\ HandlerOrder' /\ HandlerCalls' /\ HandlerBatch'
    BY HandlerEst DEF HandlerInv, H!TypeOK, HandlerBatch
  <1>2. HandlerPhases'
    BY DEF HandlerInv, HandlerPhases
  <1> QED
    BY <1>1, <1>2 DEF HandlerInv

\* setException(): the queue is left to flushRequestsWithException().
LEMMA HandlerSetException ==
    ASSUME HandlerInv, H!SetException
    PROVE  HandlerInv'
  <1> USE DEF H!SetException, H!history
  <1>0. h \in H!Handler
    BY DEF HandlerInv, H!TypeOK
  <1>1. /\ h'.requests = h.requests /\ h'.initialized = h.initialized
        /\ h'.flushing = h.flushing /\ h'.exception = "local"
        /\ h'.batchInProgress = h.batchInProgress
        /\ h'.batchStream = h.batchStream /\ h'.batchSize = h.batchSize
        /\ h'.updateHandler = h.updateHandler /\ h' \in H!Handler
    BY <1>0 DEF H!Handler
  <1>2. /\ H!TypeOK' /\ HandlerQueue' /\ HandlerOrder' /\ HandlerCalls' /\ HandlerBatch'
        /\ main' = "this" => main = "this"
        /\ main' = "connection" => main = "connection"
    BY <1>1, HandlerEst DEF HandlerInv, H!TypeOK, HandlerBatch
  <1>3. HandlerPhases'
    BY <1>1, <1>2 DEF HandlerInv, HandlerPhases
  <1> QED
    BY <1>2, <1>3 DEF HandlerInv

\* flushRequests() begins, or waits for a batch request.
LEMMA HandlerFlushBegin ==
    ASSUME HandlerInv, H!FlushBegin
    PROVE  HandlerInv'
  <1> USE DEF H!FlushBegin, H!world, H!history
  <1>0. h \in H!Handler
    BY DEF HandlerInv, H!TypeOK
  <1>1. /\ h'.requests = h.requests /\ h'.initialized = h.initialized
        /\ h'.flushing = ~h.batchInProgress /\ h'.exception = h.exception
        /\ h'.batchInProgress = h.batchInProgress
        /\ h'.batchStream = h.batchStream /\ h'.batchSize = h.batchSize
        /\ h'.updateHandler = h.updateHandler /\ h' \in H!Handler
    BY <1>0 DEF H!Handler
  <1>2. /\ H!TypeOK' /\ HandlerQueue' /\ HandlerOrder' /\ HandlerCalls' /\ HandlerBatch'
    BY <1>1, HandlerEst DEF HandlerInv, H!TypeOK, HandlerBatch
  <1>3. HandlerPhases'
    BY <1>1, <1>2 DEF HandlerInv, HandlerPhases
  <1> QED
    BY <1>2, <1>3 DEF HandlerInv

\* The connection throws while the queue is sent.
LEMMA HandlerFlushFails ==
    ASSUME HandlerInv, H!FlushFails
    PROVE  HandlerInv'
  <1> USE DEF H!FlushFails, H!history
  <1>0. h \in H!Handler
    BY DEF HandlerInv, H!TypeOK
  <1>1. /\ h'.requests = h.requests /\ h'.initialized = h.initialized
        /\ h'.flushing = h.flushing /\ h'.exception \in {"local", "wrapper"}
        /\ h'.batchInProgress = h.batchInProgress
        /\ h'.batchStream = h.batchStream /\ h'.batchSize = h.batchSize
        /\ h'.updateHandler = h.updateHandler /\ h' \in H!Handler
    BY <1>0 DEF H!Handler
  <1>2. /\ H!TypeOK' /\ HandlerQueue' /\ HandlerOrder' /\ HandlerCalls' /\ HandlerBatch'
    BY <1>1, HandlerEst DEF HandlerInv, H!TypeOK, HandlerBatch
  <1>3. HandlerPhases'
    BY <1>1, <1>2 DEF HandlerInv, HandlerPhases
  <1> QED
    BY <1>2, <1>3 DEF HandlerInv

\* The queue is empty.
LEMMA HandlerFlushAll ==
    ASSUME HandlerInv, H!FlushAll
    PROVE  HandlerInv'
  <1> USE DEF H!FlushAll, H!world, H!history
  <1>1. /\ H!TypeOK' /\ HandlerQueue' /\ HandlerOrder' /\ HandlerCalls' /\ HandlerBatch'
    BY HandlerEst DEF HandlerInv, H!TypeOK, HandlerBatch
  <1>2. HandlerPhases'
    BY DEF HandlerInv, HandlerPhases
  <1> QED
    BY <1>1, <1>2 DEF HandlerInv

\* The proxy gets the connection as its handler.
LEMMA HandlerInstall ==
    ASSUME HandlerInv, H!Install
    PROVE  HandlerInv'
  <1> USE DEF H!Install, H!history
  <1>0. h.updateHandler \in BOOLEAN
    BY DEF HandlerInv, H!TypeOK, H!Handler
  <1>1. /\ H!TypeOK' /\ HandlerQueue' /\ HandlerOrder' /\ HandlerCalls' /\ HandlerBatch'
    BY <1>0, HandlerEst DEF HandlerInv, H!TypeOK, HandlerBatch
  <1>2. HandlerPhases'
    BY <1>0 DEF HandlerInv, HandlerPhases
  <1> QED
    BY <1>1, <1>2 DEF HandlerInv

\* flushRequests() ends: the handler is initialized.
LEMMA HandlerFlushEnd ==
    ASSUME HandlerInv, H!FlushEnd
    PROVE  HandlerInv'
  <1> USE DEF H!FlushEnd, H!world, H!history
  <1>0. h \in H!Handler
    BY DEF HandlerInv, H!TypeOK
  <1>1. /\ h'.requests = h.requests /\ h'.exception = h.exception
        /\ h'.initialized = (h.exception = "none" \/ h.initialized)
        /\ h'.flushing => h.flushing
        /\ h'.batchInProgress = h.batchInProgress
        /\ h'.batchStream = h.batchStream /\ h'.batchSize = h.batchSize
        /\ h'.updateHandler = h.updateHandler /\ h' \in H!Handler
    BY <1>0 DEF H!Handler
  <1>2. /\ H!TypeOK' /\ HandlerQueue' /\ HandlerOrder' /\ HandlerCalls' /\ HandlerBatch'
        /\ main' = "this" => main = "this"
        /\ main' = "connection" => main = "connection"
    BY <1>1, HandlerEst DEF HandlerInv, H!TypeOK, HandlerBatch
  <1>3. HandlerPhases'
    BY <1>1, <1>2 DEF HandlerInv, HandlerPhases
  <1> QED
    BY <1>2, <1>3 DEF HandlerInv

\* The connection fails.
LEMMA HandlerConnectionFails ==
    ASSUME HandlerInv, H!ConnectionFails
    PROVE  HandlerInv'
  <1> USE DEF H!ConnectionFails, H!threads, H!history
  <1>1. /\ H!TypeOK' /\ HandlerQueue' /\ HandlerOrder' /\ HandlerCalls' /\ HandlerBatch'
    BY HandlerEst DEF HandlerInv, H!TypeOK, HandlerBatch
  <1>2. HandlerPhases'
    BY DEF HandlerInv, HandlerPhases
  <1> QED
    BY <1>1, <1>2 DEF HandlerInv

\* The calls of a message of one call.
LEMMA SingleSet == ASSUME NEW c PROVE H!ToSet(<<c>>) = {c}
  BY DEF H!ToSet

\* The first call of the queue is sent: it is the oldest that is not accepted.
LEMMA HandlerFlushOne ==
    ASSUME HandlerInv, H!FlushOne
    PROVE  HandlerInv'
  <1> USE DEF H!FlushOne, H!threads, H!world
  <1>0. h \in H!Handler /\ h.exception = "none" /\ accepted \in Seq(H!Calls)
    BY DEF HandlerInv, H!TypeOK, HandlerPhases
  <1>1. /\ h'.requests = Tail(h.requests) /\ h'.initialized = h.initialized
        /\ h'.flushing = h.flushing /\ h'.exception = h.exception
        /\ h'.batchInProgress = h.batchInProgress
        /\ h'.batchStream = h.batchStream /\ h'.batchSize = h.batchSize
        /\ h'.updateHandler = h.updateHandler
    BY <1>0 DEF H!Handler
  <1>2. PICK c \in Async \cup Batch :
               /\ Head(h.requests) = <<c>> /\ <<c>> \in Values(h.requests)
               /\ QueueOK(Tail(h.requests), Append(accepted, c), entered)
               /\ NoneLost(Tail(h.requests), Append(accepted, c), entered)
               /\ InOrder(Tail(h.requests), entered) /\ DirectLast(Append(accepted, c), entered)
               /\ AcceptedInOrder(Append(accepted, c), entered)
               /\ Values(Append(accepted, c)) = Values(accepted) \cup {c}
               /\ Values(Tail(h.requests)) = Values(h.requests) \ {<<c>>}
    BY <1>0, FlushesFirst DEF HandlerInv, HandlerQueue, HandlerOrder
  <1>3. c \in H!Calls /\ Async \cap Batch = {}
    BY HandlerAssumption DEF H!Calls
  <1>4. accepted' = Append(accepted, c)
    <2>1. accepted' = accepted \o <<c>>
      BY <1>2
    <2> QED
      BY ONLY <1>0, <1>3, <2>1
  <1>5. told' = [x \in H!Calls |-> IF x = c /\ x \notin Batch THEN "accepted" ELSE told[x]]
    <2>1. H!ToSet(Head(h.requests)) = {c}
      BY <1>2, SingleSet
    <2>2. \A x : x \in {c} \ Batch <=> x = c /\ x \notin Batch
      OBVIOUS
    <2> QED
      BY <2>1, <2>2 DEF H!Tell
  <1>6. /\ told[c] = "queued"
        /\ told \in [H!Calls -> {"nothing", "queued", "accepted", "failed", "thrown"}]
    BY <1>2, <1>3 DEF HandlerInv, HandlerCalls, Enqueued, H!TypeOK
  <1>7. told' \in [H!Calls -> {"nothing", "queued", "accepted", "failed", "thrown"}]
    BY <1>5, <1>6
  <1>8. HandlerQueue' /\ HandlerOrder'
    BY <1>1, <1>2, <1>4 DEF HandlerQueue, HandlerOrder
  <1>9. H!TypeOK'
    <2>1. h' \in H!Handler
      <3>1. h.requests \in Seq(Seq(H!Calls)) /\ h.requests # <<>>
        BY <1>0 DEF H!Handler
      <3>2. Tail(h.requests) \in Seq(Seq(H!Calls))
        BY <3>1
      <3> QED
        BY <1>0, <3>2 DEF H!Handler
    <2>2. accepted' \in Seq(H!Calls)
      BY <1>2, <1>4 DEF QueueOK
    <2> QED
      BY <1>7, <2>1, <2>2 DEF HandlerInv, H!TypeOK
  <1>10. HandlerCalls'
    <2>1. Enqueued' = Enqueued \ {<<c>>} /\ Accepted' = Accepted \cup {c}
      BY <1>1, <1>2, <1>4 DEF Enqueued, Accepted
    <2>2. \A x : <<x>> \in Enqueued' <=> (<<x>> \in Enqueued /\ x # c)
      BY <2>1, SingleEqual
    <2>3. Accepted \subseteq H!Calls /\ Async \subseteq H!Calls
      BY DEF HandlerInv, H!TypeOK, Accepted, Values, H!Calls
    <2>4. c \notin Batch => told'[c] = "accepted"
      BY <1>3, <1>5
    <2>5. c \in Batch => told'[c] = "queued"
      BY <1>3, <1>5, <1>6
    <2>6. \A x \in H!Calls : x # c => told'[x] = told[x]
      BY <1>5
    <2>7. \A x : Entered(x)' <=> Entered(x)
      BY DEF Entered
    <2>8. caller'[c] \notin {"idle", "try", "wait", "marshal"}
      BY <1>3, <1>6 DEF HandlerInv, HandlerCalls
    <2>9. caller'[c] # "direct"
      <3>1. PICK i \in 1 .. Len(entered) : entered[i].call = c /\ entered[i].queued
        BY <1>2 DEF HandlerInv, HandlerQueue, QueueOK
      <3>2. ~DirectIn(entered, c)
        BY <3>1 DEF HandlerInv, HandlerQueue, QueueOK, DirectIn
      <3> QED
        BY <1>3, <3>2 DEF HandlerInv, HandlerCalls
    <2>10. \A x \in Async : told'[x] = "queued" => <<x>> \in Enqueued'
      BY <1>3, <2>2, <2>3, <2>4, <2>6 DEF HandlerInv, HandlerCalls
    <2>11. \A x \in H!Calls : <<x>> \in Enqueued' => told'[x] = "queued"
      BY <2>2, <2>6 DEF HandlerInv, HandlerCalls
    <2>12. \A x \in Accepted' : told'[x] \in {"accepted", "queued"}
      BY <2>1, <2>3, <2>4, <2>5, <2>6 DEF HandlerInv, HandlerCalls
    <2>13. \A x \in H!Calls : caller'[x] \in {"idle", "try", "wait", "marshal"} =>
               ~Entered(x)' /\ told'[x] = "nothing"
      BY <2>6, <2>7, <2>8 DEF HandlerInv, HandlerCalls
    <2>14. \A x \in H!Calls : caller'[x] = "direct" => x \notin Accepted' /\ DirectIn(entered', x)
      BY <2>1, <2>9 DEF HandlerInv, HandlerCalls
    <2> QED
      BY <2>10, <2>11, <2>12, <2>13, <2>14 DEF HandlerCalls
  <1>11. HandlerPhases'
    BY <1>1 DEF HandlerInv, HandlerPhases
  <1>12. HandlerBatch'
    BY <1>1 DEF HandlerInv, HandlerBatch
  <1> QED
    BY <1>8, <1>9, <1>10, <1>11, <1>12 DEF HandlerInv

\* The calls in the queue.
LEMMA QueuedCalls ==
    ASSUME HandlerInv, NEW c
    PROVE  c \in H!InQueue <=> <<c>> \in Enqueued
  <1>1. h.requests \in Seq(Singles) /\ DOMAIN h.requests = 1 .. Len(h.requests)
    BY DEF HandlerInv, HandlerQueue, QueueOK
  <1>2. H!ToSet(h.requests) = Enqueued
    BY <1>1 DEF H!ToSet, Enqueued, Values
  <1>3. ASSUME NEW r \in Enqueued
        PROVE  c \in H!ToSet(r) <=> r = <<c>>
    <2>1. PICK d : r = <<d>>
      BY <1>1, <1>3 DEF Enqueued, Values, Singles
    <2> QED
      BY <2>1, SingleSet, SingleEqual
  <1>4. c \in H!InQueue <=> \E r \in Enqueued : c \in H!ToSet(r)
    BY <1>2 DEF H!InQueue
  <1> QED
    BY <1>3, <1>4

\* flushRequestsWithException(): every call in the queue is told.
LEMMA HandlerGivesUpQueue ==
    ASSUME HandlerInv, H!FlushRequestsWithException
    PROVE  HandlerInv'
  <1> USE DEF H!FlushRequestsWithException, H!threads
  <1>0. h \in H!Handler /\ h.exception # "none"
    BY DEF HandlerInv, H!TypeOK, HandlerPhases
  <1>1. /\ h'.requests = <<>> /\ h'.initialized = h.initialized
        /\ h'.flushing = h.flushing /\ h'.exception = h.exception
        /\ h'.batchInProgress = h.batchInProgress
        /\ h'.batchStream = h.batchStream /\ h'.batchSize = h.batchSize
        /\ h'.updateHandler = h.updateHandler
    BY <1>0 DEF H!Handler
  <1>2. QueueOK(<<>>, accepted, entered) /\ InOrder(<<>>, entered)
    BY FlushesNone DEF HandlerInv, HandlerQueue
  <1>3. HandlerQueue' /\ HandlerOrder'
    BY <1>0, <1>1, <1>2 DEF HandlerInv, HandlerQueue, HandlerOrder
  <1>4. /\ told \in [H!Calls -> {"nothing", "queued", "accepted", "failed", "thrown"}]
        /\ told' = [x \in H!Calls |-> IF x \in H!InQueue \ Batch THEN "failed" ELSE told[x]]
    BY DEF HandlerInv, H!TypeOK, H!Tell
  <1>5. \A x \in H!Calls :
            told'[x] = IF <<x>> \in Enqueued /\ x \notin Batch THEN "failed" ELSE told[x]
    BY <1>4, QueuedCalls
  <1>6. H!TypeOK'
    <2>1. h' \in H!Handler
      <3>1. <<>> \in Seq(Seq(H!Calls))
        OBVIOUS
      <3> QED
        BY <1>0, <3>1 DEF H!Handler
    <2>2. told' \in [H!Calls -> {"nothing", "queued", "accepted", "failed", "thrown"}]
      BY <1>4
    <2> QED
      BY <2>1, <2>2 DEF HandlerInv, H!TypeOK
  <1>7. HandlerCalls'
    <2>1. Enqueued' = {} /\ Accepted' = Accepted /\ \A x : Entered(x)' <=> Entered(x)
      BY <1>1, ValuesEmpty DEF Enqueued, Accepted, Entered
    <2>2. /\ Accepted \subseteq H!Calls /\ Async \subseteq H!Calls /\ Async \cap Batch = {}
          /\ \A x \in Accepted : <<x>> \notin Enqueued
      <3>1. Accepted \subseteq H!Calls
        BY DEF HandlerInv, H!TypeOK, Accepted, Values
      <3>2. \A x \in Accepted : <<x>> \notin Enqueued
        BY DEF HandlerInv, HandlerQueue, QueueOK, Accepted, Enqueued
      <3> QED
        BY <3>1, <3>2, HandlerAssumption DEF H!Calls
    <2>3. \A x \in H!Calls : <<x>> \in Enqueued => told[x] = "queued"
      BY DEF HandlerInv, HandlerCalls
    <2>4. \A x \in H!Calls : caller'[x] \in {"idle", "try", "wait", "marshal"} =>
               ~Entered(x)' /\ told'[x] = "nothing"
      BY <1>5, <2>1, <2>3 DEF HandlerInv, HandlerCalls
    <2>5. \A x \in Async : told'[x] # "queued"
      BY <1>5, <2>2 DEF HandlerInv, HandlerCalls
    <2>6. \A x \in Accepted' : told'[x] \in {"accepted", "queued"}
      BY <1>5, <2>1, <2>2 DEF HandlerInv, HandlerCalls
    <2>7. \A x \in H!Calls : caller'[x] = "direct" => x \notin Accepted' /\ DirectIn(entered', x)
      BY <2>1 DEF HandlerInv, HandlerCalls
    <2> QED
      BY <2>1, <2>4, <2>5, <2>6, <2>7 DEF HandlerCalls
  <1>8. HandlerPhases'
    BY <1>1 DEF HandlerInv, HandlerPhases
  <1>9. HandlerBatch'
    BY <1>1 DEF HandlerInv, HandlerBatch
  <1> QED
    BY <1>3, <1>6, <1>7, <1>8, <1>9 DEF HandlerInv

\* A new handler satisfies the invariant.
LEMMA HandlerInit == ASSUME H!Init PROVE HandlerInv
  <1> USE DEF H!Init
  <1>1. /\ h.requests = <<>> /\ h.exception = "none" /\ h.batchStream = <<>>
        /\ ~h.flushing /\ ~h.initialized /\ ~h.batchInProgress /\ accepted = <<>> /\ entered = <<>>
    OBVIOUS
  <1>2. H!TypeOK
    <2>1. h \in H!Handler
      <3>1. <<>> \in Seq(Seq(H!Calls)) /\ <<>> \in Seq(Batch)
        OBVIOUS
      <3> QED
        BY <3>1 DEF H!Handler
    <2>2. /\ caller \in [H!Calls -> {"idle", "try", "wait", "direct", "marshal", "done"}]
          /\ told \in [H!Calls -> {"nothing", "queued", "accepted", "failed", "thrown"}]
          /\ lent \in [Batch -> Seq(Batch)]
      <3>1. <<>> \in Seq(Batch)
        OBVIOUS
      <3> QED
        BY <3>1
    <2>3. accepted \in Seq(H!Calls) /\ entered \in Seq([call : H!Calls, queued : BOOLEAN])
      BY <1>1
    <2> QED
      BY <2>1, <2>2, <2>3 DEF H!TypeOK
  <1>3. HandlerQueue /\ HandlerOrder
    <2>1. Len(<<>>) = 0 /\ 1 .. 0 = {}
      OBVIOUS
    <2>2. /\ <<>> \in Seq(Singles) /\ <<>> \in Seq(H!Calls) /\ <<>> \in Seq(Entry)
          /\ Values(<<>>) = {}
      BY ValuesEmpty
    <2>3. QueueOK(<<>>, <<>>, <<>>)
      BY <2>1, <2>2 DEF QueueOK, Once
    <2>4. NoneLost(<<>>, <<>>, <<>>) /\ InOrder(<<>>, <<>>) /\ DirectLast(<<>>, <<>>)
          /\ AcceptedInOrder(<<>>, <<>>)
      BY <2>1 DEF NoneLost, InOrder, DirectLast, AcceptedInOrder
    <2> QED
      BY <1>1, <2>3, <2>4 DEF HandlerQueue, HandlerOrder
  <1>4. HandlerCalls
    <2>1. Enqueued = {} /\ Accepted = {} /\ \A c : ~Entered(c)
      BY <1>1, ValuesEmpty DEF Enqueued, Accepted, Entered, EnteredIn
    <2>2. Async \subseteq H!Calls
      BY DEF H!Calls
    <2> QED
      BY <2>1, <2>2 DEF HandlerCalls
  <1>5. HandlerPhases
    BY <1>1 DEF HandlerPhases
  <1>6. HandlerBatch
    BY <1>1 DEF HandlerBatch, Full
  <1> QED
    BY <1>2, <1>3, <1>4, <1>5, <1>6 DEF HandlerInv

\* Every step of the handler and its callers keeps the invariant.
LEMMA HandlerStep == ASSUME HandlerInv, H!Next PROVE HandlerInv'
  BY HandlerConnect, HandlerBegin, HandlerSendAsync, HandlerSend, HandlerPrepare, HandlerFinish,
     HandlerAbort, HandlerDirect, HandlerSetConnection, HandlerAddedProxy, HandlerSetException,
     HandlerFlushBegin, HandlerFlushOne, HandlerFlushFails, HandlerFlushAll, HandlerInstall,
     HandlerFlushEnd, HandlerGivesUpQueue, HandlerConnectionFails
     DEF H!Next, H!CallerStep, H!EstStep

\* Steps of the other components do not touch the handler.
LEMMA HandlerStutters == ASSUME HandlerInv, UNCHANGED handlerVars PROVE HandlerInv'
  <1> USE DEF handlerVars
  <1>1. /\ H!TypeOK' /\ HandlerQueue' /\ HandlerOrder' /\ HandlerCalls' /\ HandlerBatch'
    BY HandlerEst DEF HandlerInv, H!TypeOK, HandlerBatch
  <1>2. HandlerPhases'
    BY DEF HandlerInv, HandlerPhases
  <1> QED
    BY <1>1, <1>2 DEF HandlerInv

\* HandlerInv is an inductive invariant of the request handler.
THEOREM HandlerInductive == Spec => []HandlerInv
  <1>1. Init => HandlerInv
    BY HandlerInit DEF Init
  <1>2. HandlerInv /\ [Next]_vars => HandlerInv'
    BY HandlerStep, HandlerStutters DEF Next, vars
  <1> QED
    BY <1>1, <1>2, PTL DEF Spec

\* The invariant gives the order of what is accepted.
LEMMA HandlerKeepsOrder == ASSUME HandlerInv PROVE H!OrderKept
  <1>1. /\ DOMAIN entered = 1 .. Len(entered) /\ DOMAIN accepted = 1 .. Len(accepted)
    BY DEF HandlerInv, H!TypeOK
  <1>2. \A c : H!Contains(accepted, c) => c \in Values(accepted)
    BY DEF H!Contains, Values
  <1>3. AcceptedInOrder(accepted, entered)
    BY DEF HandlerInv, HandlerOrder
  <1> QED
    BY <1>1, <1>2, <1>3 DEF H!OrderKept, AcceptedInOrder, Before

\* The invariant gives that nothing is queued, accepted or told twice.
LEMMA HandlerQueuesOnce == ASSUME HandlerInv PROVE H!QueuedOnce
  <1>1. /\ DOMAIN h.requests = 1 .. Len(h.requests) /\ DOMAIN accepted = 1 .. Len(accepted)
        /\ h.requests \in Seq(Singles) /\ Once(h.requests) /\ Once(accepted)
    BY DEF HandlerInv, HandlerQueue, QueueOK
  <1>2. \A c \in Async : told[c] = "queued" <=> c \in H!InQueue
    <2>1. Async \subseteq H!Calls
      BY DEF H!Calls
    <2> QED
      BY <2>1, QueuedCalls DEF HandlerInv, HandlerCalls
  <1>3. ASSUME NEW i \in DOMAIN h.requests, NEW j \in DOMAIN h.requests, i # j
        PROVE  H!ToSet(h.requests[i]) \cap H!ToSet(h.requests[j]) = {}
    <2>1. h.requests[i] \in Singles /\ h.requests[j] \in Singles
      BY <1>1
    <2>2. PICK c, d : h.requests[i] = <<c>> /\ h.requests[j] = <<d>>
      BY <2>1 DEF Singles
    <2>3. c # d
      BY <1>1, <1>3, <2>2 DEF Once
    <2> QED
      BY <2>2, <2>3, SingleSet
  <1>4. ASSUME NEW r \in H!ToSet(h.requests) PROVE H!IsInjective(r)
    <2>1. PICK c : r = <<c>>
      BY <1>1 DEF H!ToSet, Singles
    <2> QED
      BY <2>1 DEF H!IsInjective
  <1>5. H!IsInjective(accepted)
    BY <1>1 DEF H!IsInjective, Once
  <1>6. H!ToSet(accepted) = Accepted
    BY <1>1 DEF H!ToSet, Accepted, Values
  <1>7. H!InQueue \cap H!ToSet(accepted) = {}
    <2>1. \A c : <<c>> \in Enqueued => c \notin Accepted
      BY DEF HandlerInv, HandlerQueue, QueueOK, Enqueued, Accepted
    <2> QED
      BY <1>6, <2>1, QueuedCalls
  <1>8. \A c \in H!Calls : H!Contains(accepted, c) => told[c] \in {"accepted", "queued"}
    <2>1. \A c : H!Contains(accepted, c) => c \in Accepted
      BY DEF H!Contains, Values, Accepted
    <2> QED
      BY <2>1 DEF HandlerInv, HandlerCalls
  <1> QED
    BY <1>2, <1>3, <1>4, <1>5, <1>7, <1>8 DEF H!QueuedOnce

\* ConnectRequestHandler: the connection gets requests in the order in which the handler
\* took them, each once; the proxy stops using the handler; the batch stream is lent once and
\* comes back before the queue is sent; for all sets of calls and sizes of a batch.
THEOREM HandlerIsExact == Spec => []HandlerExact
  <1>1. HandlerInv => H!TypeOK /\ H!OrderKept /\ H!QueuedOnce
    BY HandlerKeepsOrder, HandlerQueuesOnce DEF HandlerInv
  <1>2. HandlerInv => H!HandlerReplaced
    BY DEF HandlerInv, HandlerPhases, H!HandlerReplaced
  <1>3. HandlerInv => H!LentOnce
    <2>1. Batch \subseteq H!Calls
      BY DEF H!Calls
    <2> QED
      BY <2>1 DEF HandlerInv, HandlerPhases, HandlerBatch, H!LentOnce, H!TypeOK
  <1>4. HandlerInv => HandlerExact
    BY <1>1, <1>2, <1>3 DEF HandlerExact
  <1> QED
    BY <1>4, HandlerInductive, PTL
=============================================================================
