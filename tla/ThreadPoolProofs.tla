-------------------------- MODULE ThreadPoolProofs --------------------------
(***************************************************************************)
(* Proofs about ThreadPool, for all numbers of threads and handlers and    *)
(* all sizes of the pool.  The invariant is stated on pool records, as the *)
(* critical sections are: a thread that enters the monitor has its turn,   *)
(* and a turn keeps the invariant if it holds of the other threads when    *)
(* the turn begins (the predicates ...But).                                *)
(***************************************************************************)
EXTENDS ThreadPool, FiniteSetTheorems, TLAPS

\* notify(): others may have been woken up.
Woken(p, q) ==
    \A u \in Threads : q.at[u] = p.at[u] \/ (p.at[u] = "waiting" /\ q.at[u] = "awake")

\* The same of all threads but t, which keep their handlers.
WokenBut(p, q, t) ==
    \A u \in Threads : u # t =>
        /\ q.handler[u] = p.handler[u]
        /\ q.at[u] = p.at[u] \/ (p.at[u] = "waiting" /\ q.at[u] = "awake")

\* What a thread's turn leaves alone.
Rest(p, q) ==
    /\ q.destroyed = p.destroyed /\ q.threads = p.threads
    /\ q.inUse = p.inUse /\ q.disabled = p.disabled

\* The work to be done is the same.
Work(p, q) ==
    q.inUseIO = p.inUseIO /\ q.handlers = p.handlers /\ q.handler = p.handler

\* notify() wakes up at most some thread that waits.
LEMMA NotifiedCases ==
    ASSUME NEW p \in PoolRecord, NEW q \in Notified(p)
    PROVE  /\ q \in PoolRecord /\ Rest(p, q) /\ Work(p, q) /\ Woken(p, q)
           /\ q.leader = p.leader /\ q.promote = p.promote
<1>1. CASE q = p
  BY <1>1 DEF Rest, Work, Woken
<1>2. ASSUME NEW t \in Threads, p.at[t] = "waiting", q = [p EXCEPT !.at[t] = "awake"]
      PROVE  /\ q \in PoolRecord /\ Rest(p, q) /\ Work(p, q) /\ Woken(p, q)
             /\ q.leader = p.leader /\ q.promote = p.promote
  BY <1>2 DEF PoolRecord, Places, Rest, Work, Woken
<1> QED BY <1>1, <1>2 DEF Notified

\* promoteFollower() of t: the leadership is on offer and t is not the leader.
LEMMA PromoteCases ==
    ASSUME NEW p \in PoolRecord, NEW t \in Threads, NEW q \in PromoteFollower(p, t)
    PROVE  /\ q \in PoolRecord /\ Rest(p, q) /\ Work(p, q) /\ Woken(p, q)
           /\ q.leader = p.leader \ {t} /\ q.promote
<1> DEFINE r == [p EXCEPT !.promote = TRUE, !.leader = @ \ {t}]
<1>1. r \in PoolRecord /\ Rest(p, r) /\ Work(p, r) /\ r.at = p.at /\ r.promote /\ r.leader = p.leader \ {t}
  BY DEF PoolRecord, Rest, Work
<1>2. q \in Notified(r) \/ q = r
  BY DEF PromoteFollower
<1> HIDE DEF r
<1>3. CASE q = r
  BY <1>1, <1>3 DEF Woken
<1>4. CASE q \in Notified(r)
  BY <1>1, <1>4, NotifiedCases DEF Woken, Rest, Work
<1> QED BY <1>2, <1>3, <1>4

\* The leader takes a handler, gives its leadership up or goes on to select.
LEMMA GetNextCases ==
    ASSUME NEW p \in PoolRecord, NEW t \in Threads, NEW q \in GetNext(p, t)
    PROVE  /\ q \in PoolRecord /\ Rest(p, q) /\ WokenBut(p, q, t)
           /\ \/ /\ p.handlers # <<>> /\ q.handlers = Tail(p.handlers)
                 /\ q.handler[t] = Head(p.handlers) /\ q.at[t] = "io"
                 /\ q.inUseIO = IF SizeMax > 1 THEN p.inUseIO + 1 ELSE p.inUseIO
                 /\ \/ q.leader = p.leader /\ q.promote = p.promote
                    \/ q.leader = p.leader \ {t} /\ q.promote
              \/ /\ p.handlers = <<>> /\ q.handlers = <<>>
                 /\ q.handler[t] = None /\ q.at[t] = "idle"
                 /\ q.inUseIO = p.inUseIO /\ q.leader = p.leader \ {t} /\ q.promote
              \/ /\ p.handlers = <<>> /\ q.handlers = <<>> /\ p.inUseIO = 0
                 /\ q.handler[t] = None /\ q.at[t] = "select"
                 /\ q.inUseIO = p.inUseIO /\ q.leader = p.leader /\ q.promote = p.promote
<1>1. CASE p.handlers # <<>>
  <2> DEFINE h == Head(p.handlers)
             hs == Tail(p.handlers)
             n == IF SizeMax > 1 THEN p.inUseIO + 1 ELSE p.inUseIO
             r == [p EXCEPT !.handler[t] = h, !.handlers = hs, !.at[t] = "io", !.inUseIO = n]
  <2>1. h \in Sources /\ hs \in Seq(Sources) /\ n \in Nat
    BY <1>1 DEF PoolRecord
  <2>2. q = r \/ q \in PromoteFollower(r, t)
    BY <1>1 DEF GetNext
  <2> HIDE DEF h, hs, n
  <2>3. r \in PoolRecord
    BY <2>1 DEF PoolRecord, Places
  <2>4. /\ Rest(p, r) /\ WokenBut(p, r, t) /\ r.handlers = hs
        /\ r.handler[t] = h /\ r.at[t] = "io" /\ r.inUseIO = n
        /\ r.leader = p.leader /\ r.promote = p.promote
    BY DEF PoolRecord, Rest, WokenBut
  <2> HIDE DEF r
  <2>5. CASE q = r
    BY <1>1, <2>3, <2>4, <2>5 DEF h, hs, n
  <2>6. CASE q \in PromoteFollower(r, t)
    <3>1. /\ q \in PoolRecord /\ Rest(r, q) /\ Work(r, q) /\ Woken(r, q)
          /\ q.leader = r.leader \ {t} /\ q.promote
      BY <2>3, <2>6, PromoteCases
    <3>2. Rest(p, q) /\ WokenBut(p, q, t) /\ q.at[t] = "io"
      BY <2>4, <3>1 DEF Rest, Work, Woken, WokenBut
    <3> QED BY <1>1, <2>4, <3>1, <3>2 DEF Work, h, hs, n
  <2> QED BY <2>2, <2>5, <2>6
<1>2. CASE p.handlers = <<>> /\ p.inUseIO > 0
  <2> DEFINE r == [p EXCEPT !.handler[t] = None, !.at[t] = "idle"]
  <2>1. r \in PoolRecord
    BY DEF PoolRecord, Places
  <2>2. /\ Rest(p, r) /\ WokenBut(p, r, t) /\ r.handlers = <<>>
        /\ r.handler[t] = None /\ r.at[t] = "idle" /\ r.inUseIO = p.inUseIO
        /\ r.leader = p.leader /\ r.promote = p.promote
    BY <1>2 DEF PoolRecord, Rest, WokenBut
  <2>3. q \in PromoteFollower(r, t)
    BY <1>2 DEF GetNext
  <2> HIDE DEF r
  <2>4. /\ q \in PoolRecord /\ Rest(r, q) /\ Work(r, q) /\ Woken(r, q)
        /\ q.leader = r.leader \ {t} /\ q.promote
    BY <2>1, <2>3, PromoteCases
  <2>5. Rest(p, q) /\ WokenBut(p, q, t) /\ q.at[t] = "idle"
    BY <2>2, <2>4 DEF Rest, Work, Woken, WokenBut
  <2> QED BY <1>2, <2>2, <2>4, <2>5 DEF Work
<1>3. CASE p.handlers = <<>> /\ ~(p.inUseIO > 0)
  <2>1. q = [p EXCEPT !.handler[t] = None, !.at[t] = "select"]
    BY <1>3 DEF GetNext
  <2>2. q \in PoolRecord
    BY <2>1 DEF PoolRecord, Places
  <2>3. p.inUseIO = 0
    BY <1>3 DEF PoolRecord
  <2> QED BY <1>3, <2>1, <2>2, <2>3 DEF PoolRecord, Rest, WokenBut
<1> QED BY <1>1, <1>2, <1>3

\* The threads that are at one of these places.
In(p, places) == {t \in Threads : p.at[t] \in places}

\* There is one leadership: on offer, or held by a thread.
OneLeadership(p) ==
    \/ p.promote /\ p.leader = {}
    \/ ~p.promote /\ \E t \in Threads : p.leader = {t}

\* What a thread does when it is in the monitor again.
Turn(p, q, t) ==
    /\ q \in PoolRecord /\ Rest(p, q) /\ WokenBut(p, q, t) /\ OneLeadership(q)
    /\ \/ /\ p.handlers # <<>> /\ q.handlers = Tail(p.handlers)
          /\ q.handler[t] = Head(p.handlers) /\ q.at[t] = "io"
          /\ q.inUseIO = IF SizeMax > 1 THEN p.inUseIO + 1 ELSE p.inUseIO
          /\ p.leader \subseteq {t} /\ q.leader \subseteq {t}
          /\ t \in p.leader \/ p.inUseIO # SizeIO
       \/ /\ q.handlers = p.handlers /\ q.handler[t] = None
          /\ q.at[t] \in {"idle", "waiting"}
          /\ q.inUseIO = p.inUseIO /\ q.leader = p.leader \ {t}
       \/ /\ p.handlers = <<>> /\ q.handlers = <<>> /\ q.handler[t] = None
          /\ q.at[t] = "select" /\ p.inUseIO = 0 /\ q.inUseIO = 0
          /\ p.leader \subseteq {t} /\ q.leader = {t}

\* The critical section of run(), for the leader.
LEMMA GetNextTurn ==
    ASSUME NEW p \in PoolRecord, NEW t \in Threads, p.leader = {t}, ~p.promote,
           NEW q \in GetNext(p, t)
    PROVE  Turn(p, q, t)
<1>1. p.leader \ {t} = {}
  OBVIOUS
<1> QED
  BY <1>1, GetNextCases DEF Turn, OneLeadership

\* The critical section of run(), for a thread that follows.
LEMMA FollowTurn ==
    ASSUME NEW p \in PoolRecord, NEW t \in Threads, OneLeadership(p), t \notin p.leader,
           NEW q \in Follow(p, t)
    PROVE  Turn(p, q, t)
<1> DEFINE r == [p EXCEPT !.handler[t] = None]
<1>1. /\ r \in PoolRecord /\ Rest(p, r) /\ r.at = p.at /\ r.leader = p.leader
      /\ r.promote = p.promote /\ r.handlers = p.handlers /\ r.inUseIO = p.inUseIO
      /\ r.handler[t] = None /\ \A u \in Threads : u # t => r.handler[u] = p.handler[u]
  BY DEF PoolRecord, Rest
<1>2. CASE CanLead(r)
  <2> DEFINE l == [r EXCEPT !.promote = FALSE, !.leader = r.leader \cup {t}]
  <2>1. q \in GetNext(l, t)
    BY <1>2 DEF Follow
  <2>2. p.promote /\ p.leader = {} /\ p.inUseIO # SizeIO
    BY <1>1, <1>2 DEF CanLead, OneLeadership
  <2> HIDE DEF r
  <2>3. /\ l \in PoolRecord /\ Rest(r, l) /\ l.at = r.at /\ l.leader = {t} /\ ~l.promote
        /\ l.handlers = r.handlers /\ l.inUseIO = r.inUseIO /\ l.handler = r.handler
    BY <1>1, <2>2 DEF PoolRecord, Rest
  <2> HIDE DEF l
  <2>4. Turn(l, q, t)
    BY <2>1, <2>3, GetNextTurn
  <2>5. Rest(p, q) /\ WokenBut(p, q, t)
    BY <1>1, <2>3, <2>4 DEF Turn, Rest, WokenBut
  <2> QED
    BY <1>1, <2>2, <2>3, <2>4, <2>5 DEF Turn
<1>3. CASE ~CanLead(r)
  <2>1. q = [r EXCEPT !.at[t] = "waiting"]
    BY <1>3 DEF Follow
  <2> HIDE DEF r
  <2>2. /\ q \in PoolRecord /\ Rest(r, q) /\ q.leader = r.leader /\ q.promote = r.promote
        /\ q.handlers = r.handlers /\ q.inUseIO = r.inUseIO /\ q.handler = r.handler
        /\ q.at[t] = "waiting" /\ \A u \in Threads : u # t => q.at[u] = r.at[u]
    BY <1>1, <2>1 DEF PoolRecord, Rest, Places
  <2>3. Rest(p, q) /\ WokenBut(p, q, t) /\ OneLeadership(q) /\ q.leader = p.leader \ {t}
    BY <1>1, <2>2 DEF Rest, WokenBut, OneLeadership
  <2> QED
    BY <1>1, <2>2, <2>3 DEF Turn
<1> QED
  BY <1>2, <1>3

\* The critical section of run(), for a thread that has worked.
LEMMA LeadOrFollowTurn ==
    ASSUME NEW p \in PoolRecord, NEW t \in Threads, OneLeadership(p),
           NEW q \in LeadOrFollow(p, t)
    PROVE  Turn(p, q, t)
<1>1. CASE t \in p.leader
  <2>1. p.leader = {t} /\ ~p.promote
    BY <1>1 DEF OneLeadership
  <2> QED
    BY <1>1, <2>1, GetNextTurn DEF LeadOrFollow
<1>2. CASE t \notin p.leader
  BY <1>2, FollowTurn DEF LeadOrFollow
<1> QED
  BY <1>1, <1>2

-----------------------------------------------------------------------------
(* Leadership *)

\* What a leader may be doing.
Leads(p, u) ==
    p.at[u] \in {"select", "selected", "io"} \/ (SizeMax = 1 /\ p.at[u] \in {"user", "done"})

\* Only the leader selects, and only when no thread performs IO.
Selects(p, u) ==
    p.at[u] \in {"select", "selected"} =>
        u \in p.leader /\ p.inUseIO = 0 /\ p.handlers = <<>>

\* There is one leadership, and it is used.
Leadership(p) ==
    /\ OneLeadership(p)
    /\ \A u \in p.leader : Leads(p, u)
    /\ \A u \in Threads : Selects(p, u)

\* The same, whatever t is doing.
LeadershipBut(p, t) ==
    /\ OneLeadership(p)
    /\ \A u \in p.leader : u # t => Leads(p, u)
    /\ \A u \in Threads : u # t => Selects(p, u)

\* There is one leadership after the turn of a thread.
LEMMA TurnLeadership ==
    ASSUME NEW p \in PoolRecord, NEW q, NEW t \in Threads, LeadershipBut(p, t), Turn(p, q, t)
    PROVE  Leadership(q)
<1>1. \A u \in Threads : u # t =>
        /\ p.at[u] \in {"select", "selected"} <=> q.at[u] \in {"select", "selected"}
        /\ Leads(p, u) => Leads(q, u)
  BY DEF Turn, WokenBut, Leads
<1>2. p.leader \in SUBSET Threads /\ q.leader \in SUBSET Threads
  BY DEF Turn, PoolRecord
<1>3. CASE q.at[t] = "io"
  BY <1>1, <1>2, <1>3 DEF Turn, LeadershipBut, Leadership, Leads, Selects
<1>4. CASE q.at[t] \in {"idle", "waiting"}
  BY <1>1, <1>2, <1>4 DEF Turn, LeadershipBut, Leadership, Leads, Selects
<1>5. CASE q.at[t] = "select"
  BY <1>1, <1>2, <1>5 DEF Turn, LeadershipBut, Leadership, Leads, Selects
<1> QED
  BY <1>3, <1>4, <1>5 DEF Turn

-----------------------------------------------------------------------------
(* Counting *)

\* The places of the threads that are not in the pool.
Outside == {"none", "shrunk"}

\* The threads of the pool, and how many there may be.
Bounds(p) ==
    /\ p.threads = {t \in Threads : p.at[t] \notin Outside}
    /\ SizeMax > 1 => p.inUseIO <= SizeIO /\ Cardinality(p.threads) \in 1 .. SizeMax
    /\ SizeMax = 1 =>
        /\ p.inUseIO = 0
        /\ \A t, u \in Threads : p.at[t] # "none" /\ p.at[u] # "none" => t = u

\* _inUseIO and _inUse count the threads in message().
Counts(p) ==
    /\ Bounds(p)
    /\ SizeMax > 1 =>
        /\ p.inUseIO = Cardinality(In(p, {"io"}))
        /\ p.inUse = Cardinality(In(p, {"user", "done"}))

\* The same, when t has been counted out; if it leads there is room for it.
CountsBut(p, t) ==
    /\ Bounds(p) /\ p.at[t] \notin Outside
    /\ SizeMax > 1 =>
        /\ p.inUseIO = Cardinality(In(p, {"io"}) \ {t})
        /\ p.inUse = Cardinality(In(p, {"user", "done"}) \ {t})
        /\ t \in p.leader => p.inUseIO < SizeIO

\* The threads at some places are finitely many.
LEMMA InFinite ==
    ASSUME NEW p, NEW places
    PROVE  IsFiniteSet(In(p, places)) /\ Cardinality(In(p, places)) \in Nat
<1>1. In(p, places) \in SUBSET Threads
  BY DEF In
<1>2. IsFiniteSet(In(p, places))
  BY <1>1, FS_Subset, ThreadPoolAssumption
<1> QED
  BY <1>2, FS_CardinalityType

\* The counters are exact after the turn of a thread that had been counted out.
LEMMA TurnCounts ==
    ASSUME NEW p \in PoolRecord, NEW q, NEW t \in Threads, CountsBut(p, t), Turn(p, q, t)
    PROVE  Counts(q)
<1> USE ThreadPoolAssumption
<1>1. q \in PoolRecord /\ q.threads = p.threads /\ q.inUse = p.inUse /\ q.at[t] \notin Outside
      /\ q.at[t] \notin {"user", "done"}
  BY DEF Turn, Rest, Outside
<1>2. \A u \in Threads : u # t =>
        /\ p.at[u] \in Outside <=> q.at[u] \in Outside
        /\ p.at[u] = "none" <=> q.at[u] = "none"
        /\ p.at[u] = "io" <=> q.at[u] = "io"
        /\ p.at[u] \in {"user", "done"} <=> q.at[u] \in {"user", "done"}
  BY DEF Turn, WokenBut, Outside
<1>3. q.threads = {u \in Threads : q.at[u] \notin Outside}
  BY <1>1, <1>2 DEF CountsBut, Bounds
<1>4. SizeMax = 1 => q.inUseIO = 0 /\ \A u, v \in Threads : q.at[u] # "none" /\ q.at[v] # "none" => u = v
  BY <1>2 DEF CountsBut, Bounds, Turn, Outside
<1>5. ASSUME SizeMax > 1
      PROVE  /\ q.inUseIO <= SizeIO
             /\ q.inUseIO = Cardinality(In(q, {"io"}))
             /\ q.inUse = Cardinality(In(q, {"user", "done"}))
  <2>1. In(q, {"user", "done"}) = In(p, {"user", "done"}) \ {t}
    BY <1>1, <1>2 DEF In
  <2>2. q.inUse = Cardinality(In(q, {"user", "done"}))
    BY <1>1, <1>5, <2>1 DEF CountsBut
  <2>3. In(q, {"io"}) \ {t} = In(p, {"io"}) \ {t}
    BY <1>2 DEF In
  <2>4. p.inUseIO \in Nat /\ p.inUseIO <= SizeIO
    BY <1>5 DEF CountsBut, Bounds, PoolRecord
  <2>5. CASE q.at[t] = "io"
    <3>1. In(q, {"io"}) = (In(p, {"io"}) \ {t}) \cup {t}
      BY <2>3, <2>5 DEF In
    <3>2. Cardinality(In(q, {"io"})) = Cardinality(In(p, {"io"}) \ {t}) + 1
      <4>1. IsFiniteSet(In(p, {"io"}) \ {t})
        BY InFinite, FS_RemoveElement
      <4> QED
        BY <3>1, <4>1, FS_AddElement
    <3>3. q.inUseIO = p.inUseIO + 1 /\ p.inUseIO < SizeIO
      BY <1>5, <2>4, <2>5 DEF Turn, CountsBut
    <3> QED
      BY <1>5, <2>2, <2>4, <3>2, <3>3 DEF CountsBut
  <2>6. CASE q.at[t] # "io"
    <3>1. In(q, {"io"}) = In(p, {"io"}) \ {t}
      BY <2>3, <2>6 DEF In
    <3>2. q.inUseIO = p.inUseIO
      BY <2>6 DEF Turn
    <3> QED
      BY <1>5, <2>2, <2>4, <3>1, <3>2 DEF CountsBut
  <2> QED
    BY <2>5, <2>6
<1> QED
  BY <1>1, <1>3, <1>4, <1>5 DEF Counts, CountsBut, Bounds

-----------------------------------------------------------------------------
(* The ready handlers *)

\* The elements of a sequence, and that it has each of them once.
Elems(s) == {s[i] : i \in 1 .. Len(s)}
OnceEach(s) == \A i, j \in 1 .. Len(s) : s[i] = s[j] => i = j

\* The handlers that select() returned and no thread has taken yet.
Ready(p, s) == Elems(p.handlers) \cup UNION {Elems(s[u]) : u \in Threads}

\* select() returned each handler once; no thread performs IO for a handler that is

\* still to be taken, and none of those is disabled.
Batch(p, s) ==
    /\ OnceEach(p.handlers) /\ \A u \in Threads : OnceEach(s[u])
    /\ \A u \in Threads : p.at[u] # "selected" => s[u] = <<>>
    /\ \A u \in Threads : p.at[u] = "io" => p.handler[u] \in Sources \ Ready(p, s)
    /\ p.disabled \cap Ready(p, s) = {}

\* The same, whatever t is doing.
BatchBut(p, s, t) ==
    /\ OnceEach(p.handlers) /\ \A u \in Threads : OnceEach(s[u])
    /\ \A u \in Threads : p.at[u] # "selected" \/ u = t => s[u] = <<>>
    /\ \A u \in Threads : u # t /\ p.at[u] = "io" => p.handler[u] \in Sources \ Ready(p, s)
    /\ p.disabled \cap Ready(p, s) = {}

\* Taking the next handler of _handlers.
LEMMA ElemsTail ==
    ASSUME NEW s \in Seq(Sources), s # <<>>
    PROVE  /\ Head(s) \in Elems(s) /\ Head(s) \in Sources /\ Elems(Tail(s)) \subseteq Elems(s)
           /\ OnceEach(s) => OnceEach(Tail(s)) /\ Head(s) \notin Elems(Tail(s))
<1>1. /\ Len(s) \in Nat \ {0} /\ Head(s) = s[1] /\ Len(Tail(s)) = Len(s) - 1
      /\ \A i \in 1 .. Len(Tail(s)) : Tail(s)[i] = s[i + 1]
  OBVIOUS
<1>2. Head(s) \in Elems(s) /\ Head(s) \in Sources
  BY <1>1 DEF Elems
<1>3. Elems(Tail(s)) \subseteq Elems(s)
  BY <1>1 DEF Elems
<1>4. ASSUME OnceEach(s)
      PROVE  OnceEach(Tail(s)) /\ Head(s) \notin Elems(Tail(s))
  BY <1>1, <1>4 DEF OnceEach, Elems
<1> QED
  BY <1>2, <1>3, <1>4

\* Nothing is in the empty sequence.
LEMMA ElemsEmpty == Elems(<<>>) = {} /\ OnceEach(<<>>)
  BY DEF Elems, OnceEach

\* A turn takes handlers from the ready ones, and adds none.
LEMMA TurnBatch ==
    ASSUME NEW p \in PoolRecord, NEW q, NEW s, NEW t \in Threads,
           LeadershipBut(p, t), BatchBut(p, s, t), Turn(p, q, t)
    PROVE  /\ Batch(q, s) /\ Ready(q, s) \subseteq Ready(p, s)
           /\ q.at[t] = "io" => q.handler[t] \in Ready(p, s)
<1>1. /\ q.disabled = p.disabled /\ p.handlers \in Seq(Sources)
      /\ \A u \in Threads : u # t => /\ q.handler[u] = p.handler[u]
                                     /\ q.at[u] = "selected" <=> p.at[u] = "selected"
                                     /\ q.at[u] = "io" <=> p.at[u] = "io"
  BY DEF Turn, Rest, WokenBut, PoolRecord
<1>2. q.at[t] # "selected" /\ s[t] = <<>>
  BY DEF Turn, BatchBut
<1>3. CASE q.at[t] = "io"
  <2>1. p.handlers # <<>> /\ q.handlers = Tail(p.handlers) /\ q.handler[t] = Head(p.handlers)
    BY <1>3 DEF Turn
  <2>2. /\ Head(p.handlers) \in Elems(p.handlers) /\ Head(p.handlers) \in Sources
        /\ Elems(q.handlers) \subseteq Elems(p.handlers)
        /\ OnceEach(q.handlers) /\ Head(p.handlers) \notin Elems(q.handlers)
    BY <1>1, <2>1, ElemsTail DEF BatchBut
  <2>3. Ready(q, s) \subseteq Ready(p, s) /\ q.handler[t] \in Ready(p, s)
    BY <2>1, <2>2 DEF Ready
  <2>4. \A u \in Threads : q.at[u] # "selected" => s[u] = <<>>
    BY <1>1, <1>2 DEF BatchBut
  <2>5. \A u \in Threads : s[u] = <<>>
    BY <1>2, <2>1 DEF BatchBut, LeadershipBut, Selects
  <2>6. q.handler[t] \in Sources \ Ready(q, s)
    BY <2>1, <2>2, <2>5, ElemsEmpty DEF Ready
  <2> QED
    BY <1>1, <2>2, <2>3, <2>4, <2>6 DEF Batch, BatchBut
<1>4. CASE q.at[t] # "io"
  <2>1. q.handlers = p.handlers
    BY <1>4 DEF Turn
  <2>2. Ready(q, s) = Ready(p, s)
    BY <2>1 DEF Ready
  <2> QED
    BY <1>1, <1>2, <1>4, <2>1, <2>2 DEF Batch, BatchBut
<1> QED
  BY <1>3, <1>4

-----------------------------------------------------------------------------
(* No two threads in message() of a handler *)

\* Of the threads other than t.
ExclusiveBut(p, t) ==
    /\ \A u, v \in Threads : u # t /\ v # t /\ u # v =>
        (p.at[u] = "io" /\ p.at[v] = "io" => p.handler[u] # p.handler[v])
    /\ Serialize /\ ~p.destroyed /\ SizeMax > 1 =>
        \A u \in Threads : u # t /\ p.at[u] = "user" =>
            /\ p.handler[u] \in p.disabled
            /\ \A v \in Threads : v # t /\ u # v =>
                (p.at[v] \in {"io", "user"} => p.handler[u] # p.handler[v])

\* No two threads are in message() of one handler, as in HandlersExclusive; the
\* handlers of user code are disabled.
Exclusive(p) ==
    /\ \A u, v \in Threads : u # v =>
        (p.at[u] = "io" /\ p.at[v] = "io" => p.handler[u] # p.handler[v])
    /\ Serialize /\ ~p.destroyed /\ SizeMax > 1 =>
        \A u \in Threads : p.at[u] = "user" =>
            /\ p.handler[u] \in p.disabled
            /\ \A v \in Threads : u # v =>
                (p.at[v] \in {"io", "user"} => p.handler[u] # p.handler[v])

\* The handler that a thread takes in its turn is nobody else's.
LEMMA TurnExclusive ==
    ASSUME NEW p \in PoolRecord, NEW q, NEW s, NEW t \in Threads,
           LeadershipBut(p, t), BatchBut(p, s, t), ExclusiveBut(p, t), Turn(p, q, t)
    PROVE  Exclusive(q)
<1>1. q.disabled = p.disabled /\ q.destroyed = p.destroyed
  BY DEF Turn, Rest
<1>2. \A u \in Threads : u # t =>
        /\ q.handler[u] = p.handler[u]
        /\ q.at[u] = "user" <=> p.at[u] = "user"
        /\ q.at[u] = "io" <=> p.at[u] = "io"
  BY DEF Turn, WokenBut
<1>3. q.at[t] # "user" /\ (q.at[t] = "io" => q.handler[t] \in Ready(p, s))
  BY TurnBatch DEF Turn
<1>4. \A u \in Threads : u # t =>
        (q.at[u] = "io" /\ q.at[t] = "io" => q.handler[u] # q.handler[t])
  BY <1>2, <1>3 DEF BatchBut
<1>5. \A u, v \in Threads : u # v =>
        (q.at[u] = "io" /\ q.at[v] = "io" => q.handler[u] # q.handler[v])
  BY <1>2, <1>4 DEF ExclusiveBut
<1>6. ASSUME Serialize, ~q.destroyed, SizeMax > 1, NEW u \in Threads, q.at[u] = "user"
      PROVE  /\ q.handler[u] \in q.disabled
             /\ \A v \in Threads : u # v =>
                (q.at[v] \in {"io", "user"} => q.handler[u] # q.handler[v])
  <2>1. u # t /\ p.at[u] = "user" /\ q.handler[u] = p.handler[u]
    BY <1>2, <1>3, <1>6
  <2>2. q.handler[u] \in q.disabled
    BY <1>1, <1>6, <2>1 DEF ExclusiveBut
  <2>3. q.at[t] = "io" => q.handler[u] # q.handler[t]
    BY <1>1, <1>3, <2>2 DEF BatchBut
  <2>4. \A v \in Threads : u # v /\ v # t =>
          (q.at[v] \in {"io", "user"} => q.handler[u] # q.handler[v])
    BY <1>1, <1>2, <1>6, <2>1 DEF ExclusiveBut
  <2> QED
    BY <1>3, <2>2, <2>3, <2>4
<1> QED
  BY <1>5, <1>6 DEF Exclusive

-----------------------------------------------------------------------------
(* The work queue and finished() *)

\* Threads in message() of the work queue that have not taken an item.
Untaken(p, i) == {u \in Threads : p.at[u] = "io" /\ p.handler[u] = WorkQueue /\ i[u] = None}

\* The work queue will be read.
Due(p, s, i) == WorkQueue \in Ready(p, s) \/ Untaken(p, i) # {}

\* A handler that was selected has not been finished, and its finished() call is not the
\* next work item while the work queue will be read: the reader of the pipe was selected
\* after it was queued.
Finishes ==
    /\ lock # None =>
        /\ ~pool.destroyed /\ status[lock] = "finishing"
        /\ \A i \in 1 .. Len(items) : items[i] # FinishedWorkItem(lock)
    /\ \A h \in registered : status[h] = "open"
    /\ \A h \in Handlers : h \in Ready(pool, selected) => status[h] \in {"open", "finishing"}
    /\ \A h \in Handlers : \A i \in 1 .. Len(items) :
        items[i] = FinishedWorkItem(h) => status[h] \in {"finishing", "finished"}
    /\ pool.destroyed => \A h \in Handlers : status[h] \in {"new", "finished"}
    /\ Due(pool, selected, item) =>
        /\ pool.destroyed \/ items # <<>>
        /\ \A h \in Handlers :
            items # <<>> /\ items[1] = FinishedWorkItem(h) => h \notin Ready(pool, selected)
    /\ \A t \in Threads : pool.at[t] = "done" => pool.destroyed /\ items = <<>>
    /\ pipe = (IF items = <<>> THEN 0 ELSE 1) + (IF pool.destroyed THEN 1 ELSE 0)

\* The inductive invariant.
IInv ==
    /\ TypeOK /\ Leadership(pool) /\ Counts(pool)
    /\ Batch(pool, selected) /\ Exclusive(pool) /\ Finishes

\* A step of the threads that touches neither the queue nor the handlers.
LEMMA FinishesKept ==
    ASSUME Finishes, UNCHANGED <<items, pipe, registered, status, lock>>,
           pool'.destroyed = pool.destroyed,
           Ready(pool', selected') \subseteq Ready(pool, selected),
           Due(pool', selected', item') => Due(pool, selected, item),
           \A u \in Threads : pool'.at[u] = "done" => pool.at[u] = "done"
    PROVE  Finishes'
  BY DEF Finishes

\* What ThreadsImmutable says of a step.
Immutable == pool.destroyed => pool'.threads = pool.threads

\* A thread's turn in the monitor keeps the invariant, if all is right with the other
\* threads when the turn begins, in p.
LEMMA TurnKeeps ==
    ASSUME NEW p \in PoolRecord, NEW t \in Threads, TypeOK, Finishes,
           LeadershipBut(p, t), CountsBut(p, t), BatchBut(p, selected', t), ExclusiveBut(p, t),
           Turn(p, pool', t), p.destroyed = pool.destroyed, p.threads = pool.threads,
           Ready(p, selected') \subseteq Ready(pool, selected),
           \A u \in Threads : u # t =>
                /\ item'[u] = item[u] /\ p.handler[u] = pool.handler[u]
                /\ p.at[u] \in {"io", "done"} => pool.at[u] = p.at[u],
           selected' \in [Threads -> Seq(Sources)], item' \in [Threads -> WorkItem \cup {None}],
           readable' \subseteq Handlers, UNCHANGED <<items, pipe, registered, status, lock>>
    PROVE  IInv' /\ Immutable
<1>1. Leadership(pool') /\ Counts(pool') /\ Batch(pool', selected') /\ Exclusive(pool')
  BY TurnLeadership, TurnCounts, TurnBatch, TurnExclusive
<1>2. TypeOK'
  BY DEF TypeOK, Turn
<1>3. /\ Ready(pool', selected') \subseteq Ready(p, selected')
      /\ pool'.at[t] = "io" => pool'.handler[t] \in Ready(p, selected')
  BY TurnBatch
<1>4. pool'.destroyed = pool.destroyed /\ pool'.at[t] # "done"
  BY DEF Turn, Rest
<1>5. \A u \in Threads : u # t =>
        /\ pool'.handler[u] = pool.handler[u] /\ item'[u] = item[u]
        /\ pool'.at[u] \in {"io", "done"} => pool.at[u] = pool'.at[u]
  BY DEF Turn, WokenBut
<1>6. ASSUME Due(pool', selected', item') PROVE Due(pool, selected, item)
  <2>1. CASE WorkQueue \in Ready(pool', selected')
    BY <1>3, <2>1 DEF Due
  <2>2. CASE Untaken(pool', item') # {}
    <3>1. PICK u \in Threads : pool'.at[u] = "io" /\ pool'.handler[u] = WorkQueue /\ item'[u] = None
      BY <2>2 DEF Untaken
    <3>2. CASE u = t
      BY <1>3, <3>1, <3>2 DEF Due
    <3>3. CASE u # t
      BY <1>5, <3>1, <3>3 DEF Due, Untaken
    <3> QED
      BY <3>2, <3>3
  <2> QED
    BY <1>6, <2>1, <2>2 DEF Due
<1>7. Finishes'
  BY <1>3, <1>4, <1>5, <1>6, FinishesKept
<1> QED
  BY <1>1, <1>2, <1>7 DEF IInv, Immutable, Turn, Rest

\* A thread that waits, or is about to enter the monitor, disturbs nothing.
LEMMA ButSelf ==
    ASSUME IInv, NEW t \in Threads, pool.at[t] \in {"idle", "waiting", "awake"}
    PROVE  /\ pool \in PoolRecord /\ t \notin pool.leader
           /\ LeadershipBut(pool, t) /\ CountsBut(pool, t)
           /\ BatchBut(pool, selected, t) /\ ExclusiveBut(pool, t)
<1>1. pool \in PoolRecord
  BY DEF IInv, TypeOK
<1>2. t \notin pool.leader /\ LeadershipBut(pool, t)
  BY <1>1 DEF IInv, Leadership, LeadershipBut, Leads
<1>3. In(pool, {"io"}) \ {t} = In(pool, {"io"})
  BY DEF In
<1>4. In(pool, {"user", "done"}) \ {t} = In(pool, {"user", "done"})
  BY DEF In
<1>5. CountsBut(pool, t)
  BY <1>2, <1>3, <1>4 DEF IInv, Counts, CountsBut, Outside
<1>6. BatchBut(pool, selected, t)
  BY DEF IInv, Batch, BatchBut
<1>7. ExclusiveBut(pool, t)
  BY DEF IInv, Exclusive, ExclusiveBut
<1> QED
  BY <1>1, <1>2, <1>5, <1>6, <1>7

\* Enter, Wake, and FollowerTimeout when the pool does not shrink.
LEMMA FollowKeeps ==
    ASSUME IInv, NEW t \in Threads, pool.at[t] \in {"idle", "waiting", "awake"},
           pool' \in Follow(pool, t),
           UNCHANGED <<items, pipe, readable, registered, status, selected, item, lock>>
    PROVE  IInv' /\ Immutable
<1>1. /\ pool \in PoolRecord /\ t \notin pool.leader
      /\ LeadershipBut(pool, t) /\ CountsBut(pool, t)
      /\ BatchBut(pool, selected, t) /\ ExclusiveBut(pool, t)
  BY ButSelf
<1>2. Turn(pool, pool', t)
  BY <1>1, FollowTurn DEF LeadershipBut
<1>3. TypeOK /\ Finishes
  BY DEF IInv
<1>4. /\ selected' \in [Threads -> Seq(Sources)] /\ item' \in [Threads -> WorkItem \cup {None}]
      /\ readable' \subseteq Handlers /\ BatchBut(pool, selected', t)
      /\ Ready(pool, selected') = Ready(pool, selected)
  BY <1>1, <1>3 DEF TypeOK
<1> QED
  BY <1>1, <1>2, <1>3, <1>4, TurnKeeps

\* FinishSelect: what was selected becomes the handlers of the pool.
LEMMA FinishSelectKeeps ==
    ASSUME IInv, NEW t \in Threads, FinishSelect(t)
    PROVE  IInv' /\ Immutable
<1> DEFINE p == [pool EXCEPT !.handlers = selected[t]]
<1>1. pool \in PoolRecord /\ selected[t] \in Seq(Sources) /\ pool.at[t] = "selected" /\ TypeOK /\ Finishes
  BY DEF IInv, TypeOK, FinishSelect
<1>2. /\ p \in PoolRecord /\ Rest(pool, p) /\ p.inUseIO = pool.inUseIO /\ p.handler = pool.handler
      /\ p.at = pool.at /\ p.leader = pool.leader /\ p.promote = pool.promote
      /\ p.handlers = selected[t] /\ pool' \in GetNext(p, t)
  BY <1>1 DEF PoolRecord, Rest, FinishSelect
<1> HIDE DEF p
<1>3. /\ pool.leader = {t} /\ ~pool.promote /\ pool.inUseIO = 0 /\ pool.handlers = <<>>
      /\ \A u \in Threads : u # t => pool.at[u] \notin {"select", "selected"}
  BY <1>1 DEF IInv, Leadership, OneLeadership, Selects
<1>4. Turn(p, pool', t)
  BY <1>2, <1>3, GetNextTurn
<1>5. LeadershipBut(p, t)
  BY <1>2, <1>3 DEF LeadershipBut, OneLeadership, Selects
<1>6. CountsBut(p, t)
  <2>1. Bounds(p) /\ p.at[t] \notin Outside
    BY <1>1, <1>2 DEF IInv, Counts, Bounds, Rest, Outside
  <2>2. In(p, {"io"}) \ {t} = In(pool, {"io"}) /\ In(p, {"user", "done"}) \ {t} = In(pool, {"user", "done"})
    BY <1>1, <1>2 DEF In
  <2>3. SizeMax > 1 => p.inUseIO < SizeIO
    BY <1>2, <1>3, ThreadPoolAssumption
  <2> QED
    BY <1>2, <2>1, <2>2, <2>3 DEF IInv, Counts, CountsBut, Rest
<1>7. /\ selected' \in [Threads -> Seq(Sources)] /\ selected'[t] = <<>>
      /\ \A u \in Threads : u # t => selected'[u] = selected[u]
  BY <1>1 DEF TypeOK, FinishSelect
<1>8. \A u \in Threads : selected'[u] = <<>>
  BY <1>3, <1>7 DEF IInv, Batch
<1>9. Ready(p, selected') \subseteq Ready(pool, selected)
  BY <1>2, <1>8, ElemsEmpty DEF Ready
<1>10. BatchBut(p, selected', t)
  <2>1. OnceEach(p.handlers) /\ \A u \in Threads : OnceEach(selected'[u])
    BY <1>2, <1>8, ElemsEmpty DEF IInv, Batch
  <2>2. \A u \in Threads : u # t /\ p.at[u] = "io" => p.handler[u] \in Sources \ Ready(p, selected')
    BY <1>2, <1>9 DEF IInv, Batch
  <2>3. p.disabled \cap Ready(p, selected') = {}
    BY <1>2, <1>9 DEF IInv, Batch, Rest
  <2> QED
    BY <1>8, <2>1, <2>2, <2>3 DEF BatchBut
<1>11. ExclusiveBut(p, t)
  BY <1>2 DEF IInv, Exclusive, ExclusiveBut, Rest
<1>12. /\ item' \in [Threads -> WorkItem \cup {None}] /\ readable' \subseteq Handlers /\ item' = item
       /\ p.destroyed = pool.destroyed /\ p.threads = pool.threads
       /\ UNCHANGED <<items, pipe, registered, status, lock>>
  BY <1>1, <1>2 DEF TypeOK, FinishSelect, Rest
<1> QED
  BY <1>1, <1>2, <1>4, <1>5, <1>6, <1>7, <1>9, <1>10, <1>11, <1>12, TurnKeeps

\* run() counts a thread out that has left message().
LEMMA ReturnedCases ==
    ASSUME NEW p \in PoolRecord, NEW t \in Threads, p.at[t] \in {"io", "user"},
           SizeMax > 1 => (p.at[t] = "io" => p.inUseIO > 0) /\ (p.at[t] = "user" => p.inUse > 0),
           NEW q, q = Returned(p, t)
    PROVE  /\ q \in PoolRecord /\ q.destroyed = p.destroyed /\ q.threads = p.threads
           /\ q.handlers = p.handlers /\ q.handler = p.handler /\ q.at = p.at
           /\ q.leader = p.leader /\ q.promote = p.promote
           /\ SizeMax = 1 => q.inUseIO = p.inUseIO
           /\ p.at[t] = "user" => q.inUseIO = p.inUseIO
           /\ SizeMax > 1 /\ p.at[t] = "io" =>
                q.inUseIO = p.inUseIO - 1 /\ q.inUse = p.inUse /\ q.disabled = p.disabled
           /\ SizeMax > 1 /\ p.at[t] = "user" =>
                q.inUse = p.inUse - 1 /\ q.disabled = p.disabled \ {p.handler[t]}
           /\ q.disabled \subseteq p.disabled
<1>1. CASE SizeMax = 1
  BY <1>1 DEF Returned
<1>2. CASE SizeMax > 1 /\ p.at[t] = "io"
  <2>1. q = [p EXCEPT !.inUseIO = p.inUseIO - 1]
    BY <1>2, ThreadPoolAssumption DEF Returned
  <2>2. p.inUseIO - 1 \in Nat
    BY <1>2 DEF PoolRecord
  <2>3. q \in PoolRecord
    BY <2>1, <2>2 DEF PoolRecord
  <2>4. /\ q.destroyed = p.destroyed /\ q.threads = p.threads /\ q.handlers = p.handlers
        /\ q.handler = p.handler /\ q.at = p.at /\ q.leader = p.leader /\ q.promote = p.promote
    BY <2>1 DEF PoolRecord
  <2>5. q.inUseIO = p.inUseIO - 1 /\ q.inUse = p.inUse /\ q.disabled = p.disabled
    BY <2>1 DEF PoolRecord
  <2> QED
    BY <1>2, <2>3, <2>4, <2>5
<1>3. CASE SizeMax > 1 /\ p.at[t] = "user"
  <2>1. q = [p EXCEPT !.inUse = p.inUse - 1, !.disabled = p.disabled \ {p.handler[t]}]
    BY <1>3, ThreadPoolAssumption DEF Returned
  <2>2. p.inUse - 1 \in Nat
    BY <1>3 DEF PoolRecord
  <2>3. q \in PoolRecord
    BY <2>1, <2>2 DEF PoolRecord
  <2>4. /\ q.destroyed = p.destroyed /\ q.threads = p.threads /\ q.handlers = p.handlers
        /\ q.handler = p.handler /\ q.at = p.at /\ q.leader = p.leader /\ q.promote = p.promote
    BY <2>1 DEF PoolRecord
  <2>5. /\ q.inUse = p.inUse - 1 /\ q.disabled = p.disabled \ {p.handler[t]}
        /\ q.inUseIO = p.inUseIO
    BY <2>1 DEF PoolRecord
  <2> QED
    BY <1>3, <2>3, <2>4, <2>5
<1> QED
  BY <1>1, <1>2, <1>3, ThreadPoolAssumption

\* A join changes the place of a thread outside the pool only.
LEMMA JoinedCases ==
    ASSUME NEW p \in PoolRecord, NEW t \in Threads, NEW i \in WorkItem \cup {None},
           p.at[t] \in {"io", "user"},
           i # None /\ i.kind = "join" => p.at[i.of] = "shrunk",
           NEW q, q = Joined(p, i)
    PROVE
           /\ q \in PoolRecord /\ Rest(p, q)
           /\ q.inUseIO = p.inUseIO /\ q.handlers = p.handlers /\ q.handler = p.handler
           /\ q.leader = p.leader /\ q.promote = p.promote /\ q.at[t] = p.at[t]
           /\ \A u \in Threads : q.at[u] = p.at[u] \/ (p.at[u] = "shrunk" /\ q.at[u] = "none")
<1>1. CASE i # None /\ i.kind = "join"
  <2>1. i.of \in Threads
    BY <1>1 DEF WorkItem, FinishedWorkItem, JoinThreadWorkItem, ShutdownWorkItem, DispatchWorkItem
  <2>2. PICK v \in Threads : v = i.of
    BY <2>1
  <2>3. q = [p EXCEPT !.at[v] = "none"]
    BY <1>1, <2>2 DEF Joined
  <2>4. p.at[v] = "shrunk" /\ v # t
    BY <1>1, <2>2
  <2>5. q \in PoolRecord
    BY <2>3 DEF PoolRecord, Places
  <2>6. /\ Rest(p, q) /\ q.inUseIO = p.inUseIO /\ q.handlers = p.handlers
        /\ q.handler = p.handler /\ q.leader = p.leader /\ q.promote = p.promote
    BY <2>3 DEF PoolRecord, Rest
  <2>7. q.at[v] = "none" /\ \A u \in Threads : u # v => q.at[u] = p.at[u]
    BY <2>3 DEF PoolRecord
  <2> QED
    BY <2>4, <2>5, <2>6, <2>7
<1>2. CASE ~(i # None /\ i.kind = "join")
  BY <1>2 DEF Joined, Rest
<1> QED
  BY <1>1, <1>2

\* A thread in message() is one of those that the counters count.
LEMMA InUsePositive ==
    ASSUME IInv, NEW t \in Threads, SizeMax > 1
    PROVE  /\ pool.at[t] = "io" =>
                pool.inUseIO > 0 /\ pool.inUseIO - 1 = Cardinality(In(pool, {"io"}) \ {t})
           /\ pool.at[t] \in {"user", "done"} =>
                pool.inUse > 0 /\ pool.inUse - 1 = Cardinality(In(pool, {"user", "done"}) \ {t})
<1>1. ASSUME NEW places, pool.at[t] \in places
      PROVE  /\ Cardinality(In(pool, places)) > 0
             /\ Cardinality(In(pool, places) \ {t}) = Cardinality(In(pool, places)) - 1
  <2>1. t \in In(pool, places)
    BY <1>1 DEF In
  <2>2. Cardinality(In(pool, places)) # 0
    BY <2>1, InFinite, FS_EmptySet
  <2> QED
    BY <2>1, <2>2, InFinite, FS_RemoveElement
<1> QED
  BY <1>1 DEF IInv, Counts

\* Return: the thread is counted out, and then has its turn.
LEMMA ReturnKeeps ==
    ASSUME IInv, NEW t \in Threads, Return(t)
    PROVE  IInv' /\ Immutable
<1> USE ThreadPoolAssumption
<1> DEFINE r == Returned(pool, t)
           p == Joined(r, item[t])
<1>1. /\ pool \in PoolRecord /\ TypeOK /\ Finishes
      /\ pool.at[t] \in {"io", "user"} /\ item[t] \in WorkItem \cup {None}
      /\ item[t] # None /\ item[t].kind = "join" => pool.at[item[t].of] = "shrunk"
  BY DEF IInv, TypeOK, Return, MayReturn
<1>2. SizeMax > 1 => (pool.at[t] = "io" => pool.inUseIO > 0) /\ (pool.at[t] = "user" => pool.inUse > 0)
  BY InUsePositive
<1>3. /\ r \in PoolRecord /\ r.destroyed = pool.destroyed /\ r.threads = pool.threads
      /\ r.handlers = pool.handlers /\ r.handler = pool.handler /\ r.at = pool.at
      /\ r.leader = pool.leader /\ r.promote = pool.promote
      /\ SizeMax = 1 => r.inUseIO = pool.inUseIO
      /\ pool.at[t] = "user" => r.inUseIO = pool.inUseIO
      /\ SizeMax > 1 /\ pool.at[t] = "io" =>
           r.inUseIO = pool.inUseIO - 1 /\ r.inUse = pool.inUse /\ r.disabled = pool.disabled
      /\ SizeMax > 1 /\ pool.at[t] = "user" =>
           r.inUse = pool.inUse - 1 /\ r.disabled = pool.disabled \ {pool.handler[t]}
      /\ r.disabled \subseteq pool.disabled
  BY <1>1, <1>2, ReturnedCases
<1> HIDE DEF r
<1>4. /\ p \in PoolRecord /\ Rest(r, p)
      /\ p.inUseIO = r.inUseIO /\ p.handlers = r.handlers /\ p.handler = r.handler
      /\ p.leader = r.leader /\ p.promote = r.promote /\ p.at[t] = r.at[t]
      /\ \A u \in Threads : p.at[u] = r.at[u] \/ (r.at[u] = "shrunk" /\ p.at[u] = "none")
  BY <1>1, <1>3, JoinedCases
<1>5. pool' \in LeadOrFollow(p, t)
  BY DEF Return, r
<1> HIDE DEF p
<1>6. /\ p.destroyed = pool.destroyed /\ p.threads = pool.threads /\ p.handlers = pool.handlers
      /\ p.handler = pool.handler /\ p.leader = pool.leader /\ p.promote = pool.promote
      /\ p.inUse = r.inUse /\ p.disabled = r.disabled /\ p.disabled \subseteq pool.disabled
      /\ p.at[t] = pool.at[t]
  BY <1>3, <1>4 DEF Rest
<1>7. \A u \in Threads : p.at[u] = pool.at[u] \/ (pool.at[u] = "shrunk" /\ p.at[u] = "none")
  BY <1>3, <1>4
<1>8. Turn(p, pool', t)
  BY <1>4, <1>5, <1>6, LeadOrFollowTurn DEF IInv, Leadership, OneLeadership
<1>9. LeadershipBut(p, t)
  <2>1. OneLeadership(p) /\ p.leader \subseteq Threads
    BY <1>1, <1>6 DEF IInv, Leadership, OneLeadership, PoolRecord
  <2>2. \A u \in p.leader : Leads(p, u)
    BY <1>6, <1>7, <2>1 DEF IInv, Leadership, Leads
  <2>3. pool.inUseIO = 0 => p.inUseIO = 0
    BY <1>1, <1>2, <1>3, <1>4
  <2>4. \A u \in Threads : Selects(p, u)
    BY <1>6, <1>7, <2>3 DEF IInv, Leadership, Selects
  <2> QED
    BY <2>1, <2>2, <2>4 DEF LeadershipBut
<1>10. CountsBut(p, t)
  <2>1. p.threads = {u \in Threads : p.at[u] \notin Outside}
    BY <1>6, <1>7 DEF IInv, Counts, Bounds, Outside
  <2>2. SizeMax > 1 => p.inUseIO <= SizeIO
    BY <1>1, <1>3, <1>4 DEF IInv, Counts, Bounds, PoolRecord
  <2>3. SizeMax = 1 => p.inUseIO = 0 /\ \A u, v \in Threads : p.at[u] # "none" /\ p.at[v] # "none" => u = v
    BY <1>3, <1>4, <1>7 DEF IInv, Counts, Bounds
  <2>4. Bounds(p) /\ p.at[t] \notin Outside
    BY <1>1, <1>6, <2>1, <2>2, <2>3 DEF IInv, Counts, Bounds, Outside
  <2>5. /\ In(p, {"io"}) \ {t} = In(pool, {"io"}) \ {t}
        /\ In(p, {"user", "done"}) \ {t} = In(pool, {"user", "done"}) \ {t}
    BY <1>7 DEF In
  <2>6. ASSUME SizeMax > 1
        PROVE  /\ p.inUseIO = Cardinality(In(p, {"io"}) \ {t})
               /\ p.inUse = Cardinality(In(p, {"user", "done"}) \ {t})
               /\ t \in p.leader => p.inUseIO < SizeIO
    <3>1. CASE pool.at[t] = "io"
      <4>1. In(pool, {"user", "done"}) \ {t} = In(pool, {"user", "done"})
        BY <3>1 DEF In
      <4>2. p.inUseIO = pool.inUseIO - 1 /\ p.inUse = pool.inUse
        BY <1>3, <1>4, <1>6, <2>6, <3>1
      <4>3. pool.inUseIO <= SizeIO /\ pool.inUse = Cardinality(In(pool, {"user", "done"}))
        BY <2>6 DEF IInv, Counts, Bounds
      <4>4. pool.inUseIO \in Nat /\ SizeIO \in Nat
        BY <1>1 DEF PoolRecord
      <4>5. pool.inUseIO - 1 < SizeIO
        BY <4>3, <4>4
      <4>6. pool.inUseIO - 1 = Cardinality(In(pool, {"io"}) \ {t})
        BY <2>6, <3>1, InUsePositive
      <4> QED
        BY <2>5, <4>1, <4>2, <4>3, <4>5, <4>6
    <3>2. CASE pool.at[t] = "user"
      <4>1. In(pool, {"io"}) \ {t} = In(pool, {"io"})
        BY <3>2 DEF In
      <4>2. p.inUseIO = pool.inUseIO /\ p.inUse = pool.inUse - 1
        BY <1>3, <1>4, <1>6, <2>6, <3>2
      <4>3. t \notin p.leader /\ pool.inUseIO = Cardinality(In(pool, {"io"}))
        BY <1>6, <2>6, <3>2 DEF IInv, Counts, Leadership, Leads
      <4> QED
        BY <2>5, <2>6, <3>2, <4>1, <4>2, <4>3, InUsePositive
    <3> QED
      BY <1>1, <3>1, <3>2
  <2> QED
    BY <2>4, <2>6 DEF CountsBut
<1>11. selected' = selected /\ selected \in [Threads -> Seq(Sources)] /\ selected[t] = <<>>
  BY <1>1 DEF IInv, TypeOK, Batch, Return
<1>12. Ready(p, selected') = Ready(pool, selected)
  BY <1>6, <1>11 DEF Ready
<1>13. BatchBut(p, selected', t)
  BY <1>6, <1>7, <1>11, <1>12 DEF IInv, Batch, BatchBut
<1>14. ExclusiveBut(p, t)
  <2>1. \A u, v \in Threads : u # t /\ v # t /\ u # v =>
          (p.at[u] = "io" /\ p.at[v] = "io" => p.handler[u] # p.handler[v])
    BY <1>6, <1>7 DEF IInv, Exclusive
  <2>2. ASSUME Serialize, ~p.destroyed, SizeMax > 1, NEW u \in Threads, u # t, p.at[u] = "user"
        PROVE  /\ p.handler[u] \in p.disabled
               /\ \A v \in Threads : v # t /\ u # v =>
                    (p.at[v] \in {"io", "user"} => p.handler[u] # p.handler[v])
    <3>1. /\ pool.at[u] = "user" /\ pool.handler[u] \in pool.disabled
          /\ pool.handler[u] # pool.handler[t]
      BY <1>1, <1>6, <1>7, <2>2 DEF IInv, Exclusive
    <3>2. p.handler[u] \in p.disabled
      BY <1>1, <1>3, <1>6, <2>2, <3>1
    <3> QED
      BY <1>6, <1>7, <2>2, <3>1, <3>2 DEF IInv, Exclusive
  <2> QED
    BY <2>1, <2>2 DEF ExclusiveBut
<1>15. /\ item' \in [Threads -> WorkItem \cup {None}] /\ readable' \subseteq Handlers
       /\ \A u \in Threads : u # t => item'[u] = item[u]
       /\ UNCHANGED <<items, pipe, registered, status, lock>>
  BY <1>1 DEF TypeOK, Return
<1>16. \A u \in Threads : u # t =>
         /\ item'[u] = item[u] /\ p.handler[u] = pool.handler[u]
         /\ p.at[u] \in {"io", "done"} => pool.at[u] = p.at[u]
  BY <1>6, <1>7, <1>15
<1>17. /\ p \in PoolRecord /\ TypeOK /\ Finishes /\ p.destroyed = pool.destroyed
       /\ p.threads = pool.threads /\ Ready(p, selected') \subseteq Ready(pool, selected)
       /\ selected' \in [Threads -> Seq(Sources)]
  BY <1>1, <1>4, <1>6, <1>11, <1>12
<1> QED
  BY ONLY t \in Threads, <1>8, <1>9, <1>10, <1>13, <1>14, <1>15, <1>16, <1>17, TurnKeeps

\* ioCompleted(), and what follows it in CompleteIO and Exit.
Completed(p, q, t) ==
    /\ q \in PoolRecord /\ q.destroyed = p.destroyed
    /\ q.handlers = p.handlers /\ q.handler = p.handler
    /\ OneLeadership(q) /\ q.at[t] \in {"user", "done"}
    /\ \A u \in Threads : u # t =>
        \/ q.at[u] = p.at[u]
        \/ p.at[u] = "waiting" /\ q.at[u] = "awake"
        \/ SizeMax > 1 /\ p.at[u] = "none" /\ q.at[u] = "idle"
    /\ q.threads = {u \in Threads : q.at[u] \notin Outside}
    /\ SizeMax = 1 =>
        q.inUseIO = p.inUseIO /\ q.disabled = p.disabled /\ q.leader = p.leader
    /\ SizeMax > 1 =>
        /\ q.inUseIO = p.inUseIO - 1 /\ q.inUse = p.inUse + 1 /\ q.leader = p.leader \ {t}
        /\ q.disabled = IF Serialize /\ ~p.destroyed THEN p.disabled \cup {p.handler[t]} ELSE p.disabled
        /\ Cardinality(q.threads) \in 1 .. SizeMax

\* What ioCompleted() does to the pool.
LEMMA IoCompletedCases ==
    ASSUME NEW p \in PoolRecord, NEW t \in Threads, p.at[t] = "io", p.handler[t] \in Sources,
           OneLeadership(p), Bounds(p), SizeMax > 1 => p.inUseIO > 0, NEW q \in IoCompleted(p, t)
    PROVE  Completed(p, q, t) /\ q.at[t] = "user" /\ q.threads = p.threads
<1> USE ThreadPoolAssumption
<1>1. CASE SizeMax = 1
  <2>1. q = [p EXCEPT !.at[t] = "user"]
    BY <1>1 DEF IoCompleted
  <2>2. q \in PoolRecord
    BY <2>1 DEF PoolRecord, Places
  <2>3. /\ q.destroyed = p.destroyed /\ q.handlers = p.handlers /\ q.handler = p.handler
        /\ q.inUseIO = p.inUseIO /\ q.disabled = p.disabled /\ q.leader = p.leader
        /\ q.promote = p.promote /\ q.threads = p.threads
        /\ q.at[t] = "user" /\ \A u \in Threads : u # t => q.at[u] = p.at[u]
    BY <2>1 DEF PoolRecord
  <2>4. q.threads = {u \in Threads : q.at[u] \notin Outside}
    BY <2>3 DEF Bounds, Outside
  <2> QED
    BY <1>1, <2>2, <2>3, <2>4 DEF Completed, OneLeadership
<1>2. CASE SizeMax > 1
  <2> DEFINE d == IF Serialize /\ ~p.destroyed THEN p.disabled \cup {p.handler[t]} ELSE p.disabled
             r == [p EXCEPT !.at[t] = "user", !.inUseIO = p.inUseIO - 1, !.disabled = d]
             rs == IF t \in r.leader THEN PromoteFollower(r, t)
                   ELSE IF r.promote /\ (r.handlers # <<>> \/ r.inUseIO = 0)
                   THEN Notified(r) ELSE {r}
  <2>1. PICK x \in rs : q = [x EXCEPT !.inUse = x.inUse + 1]
    BY <1>2 DEF IoCompleted
  <2>2. d \in SUBSET Sources /\ p.inUseIO - 1 \in Nat
    BY <1>2 DEF PoolRecord
  <2> HIDE DEF d
  <2>3. r \in PoolRecord
    BY <2>2 DEF PoolRecord, Places
  <2>4. /\ r.destroyed = p.destroyed /\ r.threads = p.threads /\ r.inUse = p.inUse
        /\ r.handlers = p.handlers /\ r.handler = p.handler /\ r.inUseIO = p.inUseIO - 1
        /\ r.leader = p.leader /\ r.promote = p.promote /\ r.disabled = d
        /\ r.at[t] = "user" /\ \A u \in Threads : u # t => r.at[u] = p.at[u]
    BY DEF PoolRecord
  <2> HIDE DEF r
  <2>5. /\ x \in PoolRecord /\ Rest(r, x) /\ Work(r, x) /\ Woken(r, x)
        /\ x.leader = r.leader \ {t} /\ (x.promote <=> r.promote \/ t \in r.leader)
    <3>1. CASE t \in r.leader
      BY <2>3, <3>1, PromoteCases
    <3>2. CASE t \notin r.leader /\ x \in Notified(r)
      BY <2>3, <3>2, NotifiedCases
    <3>3. CASE t \notin r.leader /\ x = r
      BY <2>3, <3>3 DEF Rest, Work, Woken
    <3> QED
      BY <3>1, <3>2, <3>3
  <2> HIDE DEF rs
  <2>6. x.inUse + 1 \in Nat
    BY <2>5 DEF PoolRecord
  <2>7. q \in PoolRecord
    BY <2>1, <2>5, <2>6 DEF PoolRecord
  <2>8. /\ q.destroyed = x.destroyed /\ q.threads = x.threads /\ q.inUse = x.inUse + 1
        /\ q.handlers = x.handlers /\ q.handler = x.handler /\ q.inUseIO = x.inUseIO
        /\ q.leader = x.leader /\ q.promote = x.promote /\ q.disabled = x.disabled /\ q.at = x.at
    BY <2>1, <2>5 DEF PoolRecord
  <2>9. /\ q.destroyed = p.destroyed /\ q.threads = p.threads /\ q.inUse = p.inUse + 1
        /\ q.handlers = p.handlers /\ q.handler = p.handler /\ q.inUseIO = p.inUseIO - 1
        /\ q.leader = p.leader \ {t} /\ q.disabled = d
    BY <2>4, <2>5, <2>8 DEF Rest, Work
  <2>10. /\ q.at[t] = "user"
         /\ \A u \in Threads : u # t =>
                q.at[u] = p.at[u] \/ (p.at[u] = "waiting" /\ q.at[u] = "awake")
    BY <2>4, <2>5, <2>8 DEF Woken
  <2>11. OneLeadership(q)
    <3>1. q.promote <=> p.promote \/ t \in p.leader
      BY <2>4, <2>5, <2>8
    <3> QED
      BY <2>9, <3>1 DEF OneLeadership
  <2>12. q.threads = {u \in Threads : q.at[u] \notin Outside}
    BY <2>9, <2>10 DEF Bounds, Outside
  <2> QED
    BY <1>2, <2>7, <2>9, <2>10, <2>11, <2>12 DEF Completed, Bounds, d
<1> QED
  BY <1>1, <1>2

\* A pool in which t is past ioCompleted() is as it should be.
LEMMA CompletedKeeps ==
    ASSUME IInv, NEW t \in Threads, pool.at[t] = "io", NEW q, Completed(pool, q, t)
    PROVE  /\ Leadership(q) /\ Counts(q) /\ Batch(q, selected) /\ Exclusive(q)
           /\ Ready(q, selected) = Ready(pool, selected)
<1> USE ThreadPoolAssumption
<1>1. pool \in PoolRecord /\ q \in PoolRecord /\ SizeMax \in Nat \ {0}
  BY DEF IInv, TypeOK, Completed
<1>2. Ready(q, selected) = Ready(pool, selected)
  BY DEF Completed, Ready
<1>3. \A u \in Threads : u # t =>
        /\ \A place \in {"select", "selected", "io", "user", "done", "shrunk"} :
            q.at[u] = place <=> pool.at[u] = place
        /\ q.handler[u] = pool.handler[u]
  BY DEF Completed
<1>4. pool.handler[t] \in Sources \ Ready(pool, selected) /\ q.handler[t] = pool.handler[t]
  BY DEF IInv, Batch, Completed
<1>5. SizeMax > 1 => /\ pool.inUseIO > 0
                     /\ pool.inUseIO - 1 = Cardinality(In(pool, {"io"}) \ {t})
  BY InUsePositive
<1>6. Leadership(q)
  <2>1. OneLeadership(q) /\ q.leader \subseteq pool.leader /\ q.leader \subseteq Threads
    BY <1>1 DEF Completed, PoolRecord
  <2>2. \A u \in q.leader : Leads(q, u)
    <3>1. \A u \in q.leader : u # t => Leads(q, u)
      BY <1>3, <2>1 DEF IInv, Leadership, Leads
    <3>2. t \in q.leader => Leads(q, t)
      BY <1>1 DEF Completed, Leads
    <3> QED
      BY <3>1, <3>2
  <2>3. \A u \in Threads : Selects(q, u)
    <3>1. CASE SizeMax = 1
      BY <1>3, <3>1 DEF IInv, Leadership, Selects, Completed
    <3>2. CASE SizeMax > 1
      BY <1>3, <1>5, <3>2 DEF IInv, Leadership, Selects, Completed
    <3> QED
      BY <1>1, <3>1, <3>2
  <2> QED
    BY <2>1, <2>2, <2>3 DEF Leadership
<1>7. Counts(q)
  <2>1. q.threads = {u \in Threads : q.at[u] \notin Outside}
    BY DEF Completed
  <2>2. CASE SizeMax = 1
    BY <2>1, <2>2 DEF IInv, Counts, Bounds, Completed
  <2>3. CASE SizeMax > 1
    <3>1. In(q, {"io"}) = In(pool, {"io"}) \ {t}
      BY <1>3 DEF In, Completed
    <3>2. t \notin In(pool, {"user", "done"}) /\ In(q, {"user", "done"}) = In(pool, {"user", "done"}) \cup {t}
      BY <1>3 DEF In, Completed
    <3>3. Cardinality(In(q, {"user", "done"})) = Cardinality(In(pool, {"user", "done"})) + 1
      BY <3>2, InFinite, FS_AddElement
    <3>4. pool.inUseIO \in Nat /\ pool.inUseIO <= SizeIO
      BY <1>1, <2>3 DEF IInv, Counts, Bounds, PoolRecord
    <3>5. q.inUseIO = Cardinality(In(q, {"io"})) /\ q.inUseIO <= SizeIO
      <4>1. q.inUseIO = pool.inUseIO - 1
        BY <2>3 DEF Completed
      <4>2. pool.inUseIO - 1 <= SizeIO
        BY <3>4
      <4> QED
        BY <1>5, <2>3, <3>1, <4>1, <4>2
    <3>6. q.inUse = Cardinality(In(q, {"user", "done"}))
      BY <2>3, <3>3 DEF IInv, Counts, Completed
    <3> QED
      BY <2>1, <2>3, <3>5, <3>6 DEF Counts, Bounds, Completed
  <2> QED
    BY <1>1, <2>2, <2>3
<1>8. q.disabled \subseteq pool.disabled \cup {pool.handler[t]} /\ pool.disabled \subseteq q.disabled
  BY <1>1 DEF Completed
<1>9. Batch(q, selected)
  <2>1. OnceEach(q.handlers) /\ \A u \in Threads : OnceEach(selected[u])
    BY DEF IInv, Batch, Completed
  <2>2. \A u \in Threads : q.at[u] # "selected" => selected[u] = <<>>
    BY <1>3 DEF IInv, Batch, Completed
  <2>3. \A u \in Threads : q.at[u] = "io" => q.handler[u] \in Sources \ Ready(q, selected)
    BY <1>2, <1>3 DEF IInv, Batch, Completed
  <2>4. q.disabled \cap Ready(q, selected) = {}
    BY <1>2, <1>4, <1>8 DEF IInv, Batch
  <2> QED
    BY <2>1, <2>2, <2>3, <2>4 DEF Batch
<1>10. Exclusive(q)
  <2>1. q.at[t] # "io" /\ q.destroyed = pool.destroyed
    BY DEF Completed
  <2>2. \A u, v \in Threads : u # v =>
          (q.at[u] = "io" /\ q.at[v] = "io" => q.handler[u] # q.handler[v])
    BY <1>3, <2>1 DEF IInv, Exclusive
  <2>3. ASSUME Serialize, ~q.destroyed, SizeMax > 1, NEW u \in Threads, q.at[u] = "user"
        PROVE  /\ q.handler[u] \in q.disabled
               /\ \A v \in Threads : u # v =>
                    (q.at[v] \in {"io", "user"} => q.handler[u] # q.handler[v])
    <3>1. CASE u = t
      <4>1. q.handler[u] \in q.disabled
        BY <1>4, <2>1, <2>3, <3>1 DEF Completed
      <4>2. \A v \in Threads : u # v =>
              (q.at[v] \in {"io", "user"} => q.handler[u] # q.handler[v])
        BY <1>3, <1>4, <2>1, <2>3, <3>1 DEF IInv, Exclusive
      <4> QED
        BY <4>1, <4>2
    <3>2. CASE u # t
      <4>1. pool.at[u] = "user" /\ q.handler[u] = pool.handler[u] /\ q.handler[u] \in pool.disabled
        BY <1>3, <2>1, <2>3, <3>2 DEF IInv, Exclusive
      <4>2. q.handler[u] # pool.handler[t]
        BY <2>1, <2>3, <3>2, <4>1 DEF IInv, Exclusive
      <4> QED
        BY <1>3, <1>4, <1>8, <2>1, <2>3, <3>2, <4>1, <4>2 DEF IInv, Exclusive
    <3> QED
      BY <3>1, <3>2
  <2> QED
    BY <2>2, <2>3 DEF Exclusive
<1> QED
  BY <1>2, <1>6, <1>7, <1>9, <1>10

\* The threads are those at a place in the pool, and are not too many.
Sized(p) ==
    /\ p.threads = {v \in Threads : p.at[v] \notin Outside}
    /\ Cardinality(p.threads) \in 1 .. SizeMax

\* The pool has grown, by one thread or none.
Grown(p, q) ==
    /\ q \in PoolRecord /\ Sized(q) /\ q.destroyed = p.destroyed /\ q.handlers = p.handlers
    /\ q.handler = p.handler /\ q.inUse = p.inUse /\ q.inUseIO = p.inUseIO
    /\ q.leader = p.leader /\ q.promote = p.promote /\ q.disabled = p.disabled
    /\ \A v \in Threads : q.at[v] = p.at[v] \/ (p.at[v] = "none" /\ q.at[v] = "idle")
    /\ p.destroyed => q.threads = p.threads

\* The pool grows by at most one thread, and not beyond SizeMax.
LEMMA GrowCases ==
    ASSUME NEW p \in PoolRecord, NEW u, u \in NewThreads(p), Sized(p)
    PROVE  Grown(p, Grow(p, u))
<1> DEFINE q == Grow(p, u)
<1> USE ThreadPoolAssumption
<1>1. CASE u = None
  BY <1>1 DEF Grow, Grown
<1>2. CASE u # None
  <2>1. /\ u \in Threads /\ p.at[u] = "none" /\ ~p.destroyed
        /\ p.inUse < SizeMax /\ p.inUse = Cardinality(p.threads)
    BY <1>2 DEF NewThreads
  <2>2. q = [p EXCEPT !.at[u] = "idle", !.threads = p.threads \cup {u}]
    BY <1>2 DEF Grow
  <2> HIDE DEF q
  <2>3. q \in PoolRecord
    <3> DEFINE ts == p.threads \cup {u}
    <3>1. ts \in SUBSET Threads /\ q = [p EXCEPT !.at[u] = "idle", !.threads = ts]
      BY <2>1, <2>2 DEF PoolRecord
    <3> HIDE DEF ts
    <3> QED
      BY <3>1, <2>1 DEF PoolRecord, Places
  <2>4. /\ q.destroyed = p.destroyed /\ q.handlers = p.handlers
        /\ q.handler = p.handler /\ q.inUse = p.inUse /\ q.inUseIO = p.inUseIO
        /\ q.leader = p.leader /\ q.promote = p.promote /\ q.disabled = p.disabled
        /\ q.threads = p.threads \cup {u}
        /\ q.at[u] = "idle" /\ \A v \in Threads : v # u => q.at[v] = p.at[v]
    BY <2>1, <2>2 DEF PoolRecord
  <2>5. q.threads = {v \in Threads : q.at[v] \notin Outside}
    BY <2>1, <2>4 DEF Outside, Sized
  <2>6. IsFiniteSet(p.threads) /\ u \notin p.threads
    BY <2>1, FS_Subset DEF PoolRecord, Sized, Outside
  <2>7. Cardinality(q.threads) = Cardinality(p.threads) + 1
    <3>1. Cardinality(p.threads \cup {u}) = Cardinality(p.threads) + 1
      BY <2>6, FS_AddElement
    <3> QED
      BY <2>4, <3>1
  <2>8. Cardinality(q.threads) \in 1 .. SizeMax
    BY <2>1, <2>7 DEF Sized
  <2>9. Grown(p, q)
    BY <2>1, <2>3, <2>4, <2>5, <2>8 DEF Grown, Sized
  <2> QED
    BY <2>9 DEF q
<1> QED
  BY <1>1, <1>2

\* CompleteIO: ioCompleted(), and the growth of the pool.
LEMMA CompleteIOKeeps ==
    ASSUME IInv, NEW t \in Threads, CompleteIO(t)
    PROVE  IInv' /\ Immutable
<1> USE ThreadPoolAssumption
<1>1. /\ pool \in PoolRecord /\ pool.at[t] = "io" /\ pool.handler[t] \in Sources
      /\ OneLeadership(pool) /\ Bounds(pool) /\ TypeOK
  BY DEF IInv, TypeOK, Batch, Leadership, Counts, CompleteIO
<1>2. PICK p \in IoCompleted(pool, t) :
        \E u \in IF SizeMax > 1 THEN NewThreads(p) ELSE {None} : pool' = Grow(p, u)
  BY DEF CompleteIO
<1>3. PICK u \in IF SizeMax > 1 THEN NewThreads(p) ELSE {None} : pool' = Grow(p, u)
  BY <1>2
<1>4. SizeMax > 1 => pool.inUseIO > 0
  BY <1>1, InUsePositive
<1>5. Completed(pool, p, t) /\ p.at[t] = "user" /\ p.threads = pool.threads
  BY <1>1, <1>4, IoCompletedCases
<1>6. Completed(pool, pool', t) /\ pool'.at[t] = "user" /\ Immutable
  <2>1. CASE SizeMax = 1
    BY <1>3, <1>5, <2>1 DEF Grow, Immutable
  <2>2. CASE SizeMax > 1
    <3>1. p \in PoolRecord /\ Sized(p) /\ u \in NewThreads(p) /\ pool' = Grow(p, u)
      BY <1>3, <1>5, <2>2 DEF Completed, Sized
    <3>2. Grown(p, pool')
      BY <3>1, GrowCases
    <3>3. \A v \in Threads : v # t =>
            \/ pool'.at[v] = pool.at[v]
            \/ pool.at[v] = "waiting" /\ pool'.at[v] = "awake"
            \/ SizeMax > 1 /\ pool.at[v] = "none" /\ pool'.at[v] = "idle"
      BY <1>5, <2>2, <3>2 DEF Completed, Grown
    <3>4. OneLeadership(pool') /\ pool'.at[t] = "user"
      BY <1>5, <3>2 DEF Completed, Grown, OneLeadership
    <3> QED
      BY <1>5, <2>2, <3>2, <3>3, <3>4 DEF Completed, Grown, Sized, Immutable
  <2> QED
    BY <2>1, <2>2
<1>7. /\ Leadership(pool') /\ Counts(pool') /\ Batch(pool', selected) /\ Exclusive(pool')
      /\ Ready(pool', selected) = Ready(pool, selected)
  BY <1>1, <1>6, CompletedKeeps
<1>8. UNCHANGED <<items, pipe, registered, status, selected, item, lock>> /\ readable' \subseteq readable
  BY DEF CompleteIO
<1>9. TypeOK'
  BY <1>1, <1>6, <1>8 DEF TypeOK, Completed
<1>10. Due(pool', selected', item') => Due(pool, selected, item)
  BY <1>6, <1>7, <1>8 DEF Due, Untaken, Completed
<1>11. Finishes'
  BY <1>6, <1>7, <1>8, <1>10, FinishesKept DEF IInv, Completed
<1> QED
  BY <1>6, <1>7, <1>8, <1>9, <1>11 DEF IInv

\* Exit: a thread ends only when the pool is destroyed and the queue empty.
LEMMA ExitKeeps ==
    ASSUME IInv, NEW t \in Threads, Exit(t)
    PROVE  IInv' /\ Immutable
<1> USE ThreadPoolAssumption
<1>1. /\ pool \in PoolRecord /\ pool.at[t] = "io" /\ pool.handler[t] \in Sources
      /\ OneLeadership(pool) /\ Bounds(pool) /\ TypeOK
  BY DEF IInv, TypeOK, Batch, Leadership, Counts, Exit
<1>2. PICK p \in IoCompleted(pool, t) : pool' = [p EXCEPT !.at[t] = "done"]
  BY DEF Exit
<1>3. SizeMax > 1 => pool.inUseIO > 0
  BY <1>1, InUsePositive
<1>4. Completed(pool, p, t) /\ p.at[t] = "user"
  BY <1>1, <1>3, IoCompletedCases
<1>5. pool' \in PoolRecord
  BY <1>2, <1>4 DEF Completed, PoolRecord, Places
<1>6. /\ pool'.destroyed = p.destroyed /\ pool'.handlers = p.handlers
      /\ pool'.handler = p.handler /\ pool'.inUse = p.inUse /\ pool'.inUseIO = p.inUseIO
      /\ pool'.leader = p.leader /\ pool'.promote = p.promote /\ pool'.disabled = p.disabled
      /\ pool'.threads = p.threads
      /\ pool'.at[t] = "done" /\ \A v \in Threads : v # t => pool'.at[v] = p.at[v]
  BY <1>2, <1>4 DEF Completed, PoolRecord
<1>7. Completed(pool, pool', t)
  <2>1. pool'.threads = {v \in Threads : pool'.at[v] \notin Outside}
    BY <1>4, <1>6 DEF Completed, Outside
  <2>2. OneLeadership(pool')
    BY <1>4, <1>6 DEF Completed, OneLeadership
  <2> QED
    BY <1>4, <1>5, <1>6, <2>1, <2>2 DEF Completed
<1>8. /\ Leadership(pool') /\ Counts(pool') /\ Batch(pool', selected) /\ Exclusive(pool')
      /\ Ready(pool', selected) = Ready(pool, selected)
  BY <1>1, <1>7, CompletedKeeps
<1>9. UNCHANGED <<items, pipe, readable, registered, status, selected, item, lock>>
  BY DEF Exit
<1>10. TypeOK'
  BY <1>1, <1>5, <1>9 DEF TypeOK
<1>11. Due(pool', selected', item') => Due(pool, selected, item)
  BY <1>7, <1>8, <1>9 DEF Due, Untaken, Completed
<1>12. t \in Untaken(pool, item) /\ items = <<>>
  BY DEF Exit, Untaken
<1>13. pool.destroyed /\ pool'.destroyed
  BY <1>7, <1>12 DEF IInv, Finishes, Due, Completed
<1>14. Finishes'
  BY <1>8, <1>9, <1>11, <1>12, <1>13 DEF IInv, Finishes
<1>15. Immutable
  BY <1>1, <1>3, <1>6, IoCompletedCases DEF Immutable
<1> QED
  BY <1>8, <1>9, <1>10, <1>14, <1>15 DEF IInv

\* The kinds of the work items tell them apart.
LEMMA ItemKinds ==
    /\ \A i \in WorkItem : i.kind = "finished" => \E h \in Handlers : i = FinishedWorkItem(h)
    /\ \A i \in WorkItem : i.kind # "finished" => \A h \in Handlers : i # FinishedWorkItem(h)
    /\ \A h \in Handlers : /\ FinishedWorkItem(h) \in WorkItem
                           /\ FinishedWorkItem(h).kind = "finished" /\ FinishedWorkItem(h).of = h
    /\ \A h \in Handlers : DispatchWorkItem(h) \in WorkItem /\ DispatchWorkItem(h).kind = "call"
    /\ \A t \in Threads : JoinThreadWorkItem(t) \in WorkItem /\ JoinThreadWorkItem(t).kind = "join"
    /\ ShutdownWorkItem \in WorkItem /\ ShutdownWorkItem.kind = "shutdown"
<1> USE DEF FinishedWorkItem, JoinThreadWorkItem, ShutdownWorkItem, DispatchWorkItem
<1>1. ASSUME NEW i \in WorkItem, i.kind = "finished"
      PROVE  \E h \in Handlers : i = FinishedWorkItem(h)
  BY <1>1 DEF WorkItem
<1>2. ASSUME NEW i, i.kind # "finished", NEW h \in Handlers
      PROVE  i # FinishedWorkItem(h)
  BY <1>2
<1>3. ASSUME NEW h \in Handlers
      PROVE  /\ FinishedWorkItem(h) \in WorkItem /\ DispatchWorkItem(h) \in WorkItem
             /\ FinishedWorkItem(h).kind = "finished" /\ FinishedWorkItem(h).of = h
             /\ DispatchWorkItem(h).kind = "call"
  BY DEF WorkItem
<1>4. ASSUME NEW t \in Threads
      PROVE  JoinThreadWorkItem(t) \in WorkItem /\ JoinThreadWorkItem(t).kind = "join"
  BY DEF WorkItem
<1>5. ShutdownWorkItem \in WorkItem /\ ShutdownWorkItem.kind = "shutdown"
  BY DEF WorkItem
<1> HIDE DEF FinishedWorkItem, JoinThreadWorkItem, ShutdownWorkItem, DispatchWorkItem
<1> QED
  BY <1>1, <1>2, <1>3, <1>4, <1>5

\* An item that is queued before the pool is destroyed.
LEMMA QueueKeeps ==
    ASSUME TypeOK, Finishes, ~pool.destroyed, NEW i \in WorkItem, Queue(i),
           \A h \in Handlers : i = FinishedWorkItem(h) => status[h] = "finishing",
           UNCHANGED <<registered, status, selected, item>>,
           lock' = None \/ (lock' = lock /\ \A h \in Handlers : i # FinishedWorkItem(h)),
           ~pool'.destroyed, pool'.handlers = pool.handlers, pool'.handler = pool.handler,
           \A t \in Threads : pool'.at[t] \in {"io", "done"} => pool'.at[t] = pool.at[t]
    PROVE  Finishes' /\ items' \in Seq(WorkItem) /\ pipe' \in Nat
<1>1. /\ items \in Seq(WorkItem) /\ pipe \in Nat /\ items' = Append(items, i)
      /\ pipe' = IF items = <<>> THEN pipe + 1 ELSE pipe
  BY DEF TypeOK, Queue
<1>2. /\ items' \in Seq(WorkItem) /\ items' # <<>> /\ Len(items') = Len(items) + 1
      /\ items'[Len(items')] = i
      /\ \A j \in 1 .. Len(items) : items'[j] = items[j]
      /\ items # <<>> => items'[1] = items[1]
      /\ items = <<>> => items'[1] = i
  BY <1>1
<1>3. Ready(pool', selected') = Ready(pool, selected)
  BY DEF Ready
<1>4. Due(pool', selected', item') => Due(pool, selected, item)
  BY <1>3 DEF Due, Untaken
<1>5. pipe' \in Nat /\ pipe' = 1
  BY <1>1 DEF Finishes
<1>6. \A h \in Handlers : \A j \in 1 .. Len(items') :
        items'[j] = FinishedWorkItem(h) => status[h] \in {"finishing", "finished"}
  <2> TAKE h \in Handlers
  <2> TAKE j \in 1 .. Len(items')
  <2>1. CASE j \in 1 .. Len(items)
    BY <1>2, <2>1 DEF Finishes
  <2>2. CASE j = Len(items')
    BY <1>2, <2>2
  <2> QED
    BY <1>1, <1>2, <2>1, <2>2
<1>7. Due(pool', selected', item') =>
        \A h \in Handlers : items'[1] = FinishedWorkItem(h) => h \notin Ready(pool', selected')
  BY <1>2, <1>3, <1>4 DEF Finishes
<1>8. \A t \in Threads : pool'.at[t] # "done"
  BY DEF Finishes
<1>9. lock' # None =>
        /\ status'[lock'] = "finishing"
        /\ \A j \in 1 .. Len(items') : items'[j] # FinishedWorkItem(lock')
  <2> SUFFICES ASSUME lock' # None
               PROVE  /\ status'[lock'] = "finishing"
                      /\ \A j \in 1 .. Len(items') : items'[j] # FinishedWorkItem(lock')
    OBVIOUS
  <2>1. lock' = lock /\ lock \in Handlers /\ i # FinishedWorkItem(lock)
    BY DEF TypeOK
  <2>2. \A j \in 1 .. Len(items') : j \in 1 .. Len(items) \/ j = Len(items')
    BY <1>1, <1>2
  <2> QED
    BY <1>2, <2>1, <2>2 DEF Finishes
<1> QED
  BY <1>2, <1>3, <1>5, <1>6, <1>7, <1>8, <1>9 DEF Finishes

\* Actions that do nothing but queue an item.
LEMMA QueueOnly ==
    ASSUME IInv, ~pool.destroyed, NEW i \in WorkItem, Queue(i),
           \A h \in Handlers : i = FinishedWorkItem(h) => status[h] = "finishing",
           UNCHANGED <<pool, readable, registered, status, selected, item>>,
           lock' = None \/ (lock' = lock /\ \A h \in Handlers : i # FinishedWorkItem(h))
    PROVE  IInv' /\ Immutable
<1>1. TypeOK /\ Finishes
  BY DEF IInv
<1>2. Finishes' /\ items' \in Seq(WorkItem) /\ pipe' \in Nat
  BY <1>1, QueueKeeps
<1>3. TypeOK'
  BY <1>1, <1>2 DEF TypeOK
<1> QED
  BY <1>2, <1>3 DEF IInv, Immutable

\* Execute.
LEMMA ExecuteKeeps ==
    ASSUME IInv, NEW h \in Handlers, Execute(h)
    PROVE  IInv' /\ Immutable
  BY ItemKinds, QueueOnly DEF Execute

\* SelectTimeout.
LEMMA SelectTimeoutKeeps ==
    ASSUME IInv, NEW t \in Threads, SelectTimeout(t)
    PROVE  IInv' /\ Immutable
  BY ItemKinds, QueueOnly DEF SelectTimeout

\* QueueFinished: the handler in lock is finishing, and not in the queue yet.
LEMMA QueueFinishedKeeps ==
    ASSUME IInv, QueueFinished
    PROVE  IInv' /\ Immutable
<1>1. lock \in Handlers /\ ~pool.destroyed /\ status[lock] = "finishing"
  BY DEF IInv, TypeOK, Finishes, QueueFinished
<1>2. \A h \in Handlers : FinishedWorkItem(lock) = FinishedWorkItem(h) => status[h] = "finishing"
  BY <1>1, ItemKinds
<1> QED
  BY <1>1, <1>2, ItemKinds, QueueOnly DEF QueueFinished

\* Register.
LEMMA RegisterKeeps ==
    ASSUME IInv, NEW h \in Handlers, Register(h)
    PROVE  IInv' /\ Immutable
<1>1. TypeOK'
  BY DEF IInv, TypeOK, Register
<1>2. Finishes'
  BY DEF IInv, TypeOK, Finishes, Register
<1> QED
  BY <1>1, <1>2 DEF IInv, Immutable, Register

\* Arrive.
LEMMA ArriveKeeps ==
    ASSUME IInv, NEW h \in Handlers, Arrive(h)
    PROVE  IInv' /\ Immutable
<1>1. TypeOK'
  BY DEF IInv, TypeOK, Arrive
<1>2. Finishes'
  BY DEF IInv, Finishes, Arrive
<1> QED
  BY <1>1, <1>2 DEF IInv, Immutable, Arrive

\* Finish: an open handler has no finished() call in the queue.
LEMMA FinishKeeps ==
    ASSUME IInv, NEW h \in Handlers, Finish(h)
    PROVE  IInv' /\ Immutable
<1>1. TypeOK'
  BY DEF IInv, TypeOK, Finish
<1>2. \A i \in 1 .. Len(items) : items[i] # FinishedWorkItem(h)
  BY DEF IInv, Finishes, Finish
<1>3. Finishes'
  BY <1>2 DEF IInv, TypeOK, Finishes, Finish
<1> QED
  BY <1>1, <1>3 DEF IInv, Immutable, Finish

\* Destroy: its byte in the pipe is one more than those for the items.
LEMMA DestroyKeeps ==
    ASSUME IInv, Destroy
    PROVE  IInv' /\ Immutable
<1>1. pool \in PoolRecord /\ pool' = [pool EXCEPT !.destroyed = TRUE]
  BY DEF IInv, TypeOK, Destroy
<1>2. /\ pool' \in PoolRecord /\ pool'.destroyed /\ pool'.handlers = pool.handlers
      /\ pool'.handler = pool.handler /\ pool'.inUse = pool.inUse /\ pool'.inUseIO = pool.inUseIO
      /\ pool'.leader = pool.leader /\ pool'.promote = pool.promote
      /\ pool'.disabled = pool.disabled /\ pool'.threads = pool.threads /\ pool'.at = pool.at
  BY <1>1 DEF PoolRecord
<1>3. Leadership(pool')
  BY <1>2 DEF IInv, Leadership, OneLeadership, Leads, Selects
<1>4. In(pool', {"io"}) = In(pool, {"io"}) /\ In(pool', {"user", "done"}) = In(pool, {"user", "done"})
  BY <1>2 DEF In
<1>5. Counts(pool')
  BY <1>2, <1>4 DEF IInv, Counts, Bounds
<1>6. Ready(pool', selected') = Ready(pool, selected)
  BY <1>2 DEF Ready, Destroy
<1>7. Batch(pool', selected')
  BY <1>2, <1>6 DEF IInv, Batch, Destroy
<1>8. Exclusive(pool')
  BY <1>2 DEF IInv, Exclusive
<1>9. pipe' = pipe + 1 /\ UNCHANGED <<items, readable, registered, status, selected, item, lock>>
      /\ lock = None /\ ~pool.destroyed /\ \A h \in Handlers : status[h] \in {"new", "finished"}
  BY DEF Destroy
<1>10. TypeOK'
  BY <1>2, <1>9 DEF IInv, TypeOK
<1>11. Due(pool', selected', item') <=> Due(pool, selected, item)
  BY <1>2, <1>6, <1>9 DEF Due, Untaken
<1>12. \A t \in Threads : pool.at[t] # "done"
  BY <1>9 DEF IInv, Finishes
<1>13. Finishes'
  BY <1>2, <1>6, <1>9, <1>11, <1>12 DEF IInv, Finishes
<1> QED
  BY <1>2, <1>3, <1>5, <1>7, <1>8, <1>10, <1>13 DEF IInv, Immutable

\* The pool has shrunk by t.
Shrunk(p, q, t) ==
    /\ q \in PoolRecord /\ q.destroyed = p.destroyed /\ q.handlers = p.handlers
    /\ q.handler = p.handler /\ q.inUse = p.inUse /\ q.inUseIO = p.inUseIO
    /\ q.leader = p.leader /\ q.promote = p.promote
    /\ q.disabled = p.disabled /\ q.threads = p.threads \ {t}
    /\ q.at[t] = "shrunk" /\ \A u \in Threads : u # t => q.at[u] = p.at[u]

\* The thread t leaves the pool.
LEMMA ShrunkCases ==
    ASSUME NEW p \in PoolRecord, NEW t \in Threads
    PROVE  Shrunk(p, [p EXCEPT !.at[t] = "shrunk", !.threads = @ \ {t}], t)
<1> DEFINE ts == p.threads \ {t}
           q == [p EXCEPT !.at[t] = "shrunk", !.threads = ts]
<1>1. ts \in SUBSET Threads
  BY DEF PoolRecord
<1> HIDE DEF ts
<1>2. q \in PoolRecord
  BY <1>1 DEF PoolRecord, Places
<1>3. /\ q.destroyed = p.destroyed /\ q.handlers = p.handlers
      /\ q.handler = p.handler /\ q.inUse = p.inUse /\ q.inUseIO = p.inUseIO
      /\ q.leader = p.leader /\ q.promote = p.promote
      /\ q.disabled = p.disabled /\ q.threads = ts
      /\ q.at[t] = "shrunk" /\ \A u \in Threads : u # t => q.at[u] = p.at[u]
  BY DEF PoolRecord
<1> QED
  BY <1>2, <1>3 DEF Shrunk, ts

\* The pool shrinks: as the follower cannot lead, a thread is left that leads or
\* performs IO.
LEMMA ShrinkKeeps ==
    ASSUME IInv, NEW t \in Threads, pool.at[t] = "waiting", MayShrink(pool),
           pool' = [pool EXCEPT !.at[t] = "shrunk", !.threads = @ \ {t}],
           Queue(JoinThreadWorkItem(t)),
           UNCHANGED <<readable, registered, status, selected, item, lock>>
    PROVE  IInv' /\ Immutable
<1> USE ThreadPoolAssumption
<1>1. pool \in PoolRecord /\ TypeOK /\ Finishes /\ ~pool.destroyed /\ ~CanLead(pool)
  BY DEF IInv, TypeOK, MayShrink
<1>2. Shrunk(pool, pool', t)
  BY <1>1, ShrunkCases
<1>3. pool' \in PoolRecord /\ pool'.destroyed = pool.destroyed /\ pool'.handlers = pool.handlers
      /\ pool'.handler = pool.handler /\ pool'.inUse = pool.inUse /\ pool'.inUseIO = pool.inUseIO
      /\ pool'.leader = pool.leader /\ pool'.promote = pool.promote
      /\ pool'.disabled = pool.disabled /\ pool'.threads = pool.threads \ {t}
      /\ pool'.at[t] = "shrunk" /\ \A u \in Threads : u # t => pool'.at[u] = pool.at[u]
  BY <1>2 DEF Shrunk
<1>4. t \notin pool.leader /\ pool.leader \subseteq Threads
  BY <1>1 DEF IInv, Leadership, Leads, PoolRecord
<1>5. Leadership(pool')
  BY <1>3, <1>4 DEF IInv, Leadership, OneLeadership, Leads, Selects
<1>6. SizeMax > 1 => pool.threads \ {t} # {}
  <2> SUFFICES ASSUME SizeMax > 1 PROVE pool.threads \ {t} # {}
    OBVIOUS
  <2>1. ASSUME NEW u \in Threads, pool.at[u] \in {"select", "selected", "io"}
        PROVE  u \in pool.threads \ {t}
    BY <2>1 DEF IInv, Counts, Bounds, Outside
  <2>2. CASE ~pool.promote
    <3>1. PICK u \in Threads : pool.leader = {u}
      BY <2>2 DEF IInv, Leadership, OneLeadership
    <3>2. pool.at[u] \in {"select", "selected", "io"}
      BY <3>1 DEF IInv, Leadership, Leads
    <3> QED
      BY <2>1, <3>2
  <2>3. CASE pool.promote
    <3>1. pool.inUseIO # 0
      BY <1>1, <2>3 DEF CanLead
    <3>2. In(pool, {"io"}) # {}
      BY <3>1, FS_EmptySet DEF IInv, Counts
    <3>3. PICK u \in Threads : pool.at[u] = "io"
      BY <3>2 DEF In
    <3> QED
      BY <2>1, <3>3
  <2> QED
    BY <2>2, <2>3
<1>7. Counts(pool')
  <2>1. pool'.threads = {u \in Threads : pool'.at[u] \notin Outside}
    BY <1>3 DEF IInv, Counts, Bounds, Outside
  <2>2. In(pool', {"io"}) = In(pool, {"io"}) /\ In(pool', {"user", "done"}) = In(pool, {"user", "done"})
    BY <1>3 DEF In
  <2>3. SizeMax > 1 => Cardinality(pool'.threads) \in 1 .. SizeMax
    <3> SUFFICES ASSUME SizeMax > 1 PROVE Cardinality(pool'.threads) \in 1 .. SizeMax
      OBVIOUS
    <3>1. IsFiniteSet(pool.threads) /\ t \in pool.threads
      BY <1>1, FS_Subset DEF PoolRecord, IInv, Counts, Bounds, Outside
    <3>2. IsFiniteSet(pool.threads \ {t}) /\ Cardinality(pool.threads \ {t}) = Cardinality(pool.threads) - 1
      BY <3>1, FS_RemoveElement
    <3>3. Cardinality(pool.threads \ {t}) # 0 /\ Cardinality(pool.threads \ {t}) \in Nat
      BY <1>6, <3>2, FS_EmptySet, FS_CardinalityType
    <3>4. Cardinality(pool.threads) \in 1 .. SizeMax
      BY DEF IInv, Counts, Bounds
    <3>5. Cardinality(pool.threads \ {t}) \in 1 .. SizeMax
      BY <3>2, <3>3, <3>4
    <3> QED
      BY <1>3, <3>5
  <2>4. SizeMax = 1 => \A u, v \in Threads : pool'.at[u] # "none" /\ pool'.at[v] # "none" => u = v
    BY <1>3 DEF IInv, Counts, Bounds
  <2> QED
    BY <1>3, <2>1, <2>2, <2>3, <2>4 DEF IInv, Counts, Bounds
<1>8. Ready(pool', selected') = Ready(pool, selected)
  BY <1>3 DEF Ready
<1>9. Batch(pool', selected')
  BY <1>3, <1>8 DEF IInv, Batch
<1>10. Exclusive(pool')
  BY <1>3 DEF IInv, Exclusive
<1>11. JoinThreadWorkItem(t) \in WorkItem
       /\ \A h \in Handlers : JoinThreadWorkItem(t) # FinishedWorkItem(h)
  BY ItemKinds
<1>12. Finishes' /\ items' \in Seq(WorkItem) /\ pipe' \in Nat
  BY <1>1, <1>3, <1>11, QueueKeeps
<1>13. TypeOK'
  BY <1>1, <1>3, <1>12 DEF TypeOK
<1> QED
  BY <1>1, <1>5, <1>7, <1>9, <1>10, <1>12, <1>13 DEF IInv, Immutable

\* FollowerTimeout.
LEMMA FollowerTimeoutKeeps ==
    ASSUME IInv, NEW t \in Threads, FollowerTimeout(t)
    PROVE  IInv' /\ Immutable
<1>1. CASE MayShrink(pool)
  BY <1>1, ShrinkKeeps DEF FollowerTimeout
<1>2. CASE ~MayShrink(pool)
  BY <1>2, FollowKeeps DEF FollowerTimeout
<1> QED
  BY <1>1, <1>2

\* What select() returns names each ready source once.
LEMMA OrdersSeq ==
    ASSUME NEW S \in SUBSET Sources, NEW s \in Orders(S)
    PROVE  s \in Seq(Sources) /\ OnceEach(s) /\ Elems(s) \subseteq S
<1> USE ThreadPoolAssumption
<1>1. IsFiniteSet(Sources)
  BY FS_Singleton, FS_Union DEF Sources
<1>2. Cardinality(S) \in Nat
  BY <1>1, FS_Subset, FS_CardinalityType
<1>3. s \in [1 .. Cardinality(S) -> S]
  BY DEF Orders
<1>4. s \in Seq(Sources) /\ Len(s) = Cardinality(S)
  BY <1>2, <1>3
<1>5. OnceEach(s)
  BY <1>4 DEF Orders, OnceEach
<1>6. Elems(s) \subseteq S
  BY <1>3, <1>4 DEF Elems
<1> QED
  BY <1>4, <1>5, <1>6

\* Select: no handler was ready before, and a handler being finished is not now.
LEMMA SelectKeeps ==
    ASSUME IInv, NEW t \in Threads, Select(t)
    PROVE  IInv' /\ Immutable
<1> USE ThreadPoolAssumption
<1>1. pool \in PoolRecord /\ TypeOK /\ pool.at[t] = "select" /\ pool' = [pool EXCEPT !.at[t] = "selected"]
  BY DEF IInv, TypeOK, Select
<1>2. pool' \in PoolRecord
  BY <1>1 DEF PoolRecord, Places
<1>3. /\ pool'.destroyed = pool.destroyed /\ pool'.handlers = pool.handlers
      /\ pool'.handler = pool.handler /\ pool'.inUse = pool.inUse /\ pool'.inUseIO = pool.inUseIO
      /\ pool'.leader = pool.leader /\ pool'.promote = pool.promote
      /\ pool'.disabled = pool.disabled /\ pool'.threads = pool.threads
      /\ pool'.at[t] = "selected" /\ \A u \in Threads : u # t => pool'.at[u] = pool.at[u]
  BY <1>1 DEF PoolRecord
<1>4. PICK order \in Orders(ReadySources) : selected' = [selected EXCEPT ![t] = order]
  BY DEF Select
<1>5. /\ ReadySources \in SUBSET Sources /\ ReadySources \cap pool.disabled = {}
      /\ WorkQueue \in ReadySources => pipe > 0
      /\ \A h \in Handlers : h \in ReadySources => h \in registered
  BY <1>1 DEF ReadySources, Sources, TypeOK
<1>6. order \in Seq(Sources) /\ OnceEach(order) /\ Elems(order) \subseteq ReadySources
  BY <1>4, <1>5, OrdersSeq
<1>7. /\ selected' \in [Threads -> Seq(Sources)] /\ selected'[t] = order
      /\ \A u \in Threads : u # t => selected'[u] = selected[u]
  BY <1>1, <1>4, <1>6 DEF TypeOK
<1>8. /\ pool.leader = {t} /\ pool.handlers = <<>>
      /\ \A u \in Threads : u # t => pool.at[u] \notin {"select", "selected"}
  BY <1>1 DEF IInv, Leadership, OneLeadership, Selects
<1>9. \A u \in Threads : selected[u] = <<>>
  BY <1>1, <1>8 DEF IInv, Batch
<1>10. Ready(pool', selected') \subseteq ReadySources
  <2>1. \A u \in Threads : Elems(selected'[u]) \subseteq ReadySources
    BY <1>6, <1>7, <1>9, ElemsEmpty
  <2> QED
    BY <1>3, <1>8, <2>1, ElemsEmpty DEF Ready
<1>11. \A u \in Threads : pool.at[u] # "io"
  <2>1. CASE SizeMax = 1
    BY <1>1, <2>1 DEF IInv, Counts, Bounds
  <2>2. CASE SizeMax > 1
    <3>1. pool.inUseIO = 0
      BY <1>1 DEF IInv, Leadership, Selects
    <3>2. ASSUME NEW u \in Threads, pool.at[u] = "io" PROVE FALSE
      <4>1. pool.inUseIO > 0
        BY <2>2, <3>2, InUsePositive
      <4> QED
        BY <3>1, <4>1
    <3> QED
      BY <3>2
  <2> QED
    BY <2>1, <2>2
<1>12. Leadership(pool')
  BY <1>1, <1>3, <1>8 DEF IInv, Leadership, OneLeadership, Leads, Selects
<1>13. Counts(pool')
  <2>1. pool'.threads = {u \in Threads : pool'.at[u] \notin Outside}
    BY <1>1, <1>3 DEF IInv, Counts, Bounds, Outside
  <2>2. In(pool', {"io"}) = In(pool, {"io"}) /\ In(pool', {"user", "done"}) = In(pool, {"user", "done"})
    BY <1>1, <1>3 DEF In
  <2>3. SizeMax = 1 => \A u, v \in Threads : pool'.at[u] # "none" /\ pool'.at[v] # "none" => u = v
    BY <1>1, <1>3 DEF IInv, Counts, Bounds
  <2> QED
    BY <1>3, <2>1, <2>2, <2>3 DEF IInv, Counts, Bounds
<1>14. Batch(pool', selected')
  <2>1. OnceEach(pool'.handlers) /\ \A u \in Threads : OnceEach(selected'[u])
    BY <1>3, <1>6, <1>7 DEF IInv, Batch
  <2>2. \A u \in Threads : pool'.at[u] # "selected" => selected'[u] = <<>>
    BY <1>3, <1>7, <1>9
  <2>3. \A u \in Threads : pool'.at[u] # "io"
    BY <1>3, <1>11
  <2>4. pool'.disabled \cap Ready(pool', selected') = {}
    BY <1>3, <1>5, <1>10
  <2> QED
    BY <2>1, <2>2, <2>3, <2>4 DEF Batch
<1>15. Exclusive(pool')
  BY <1>1, <1>3 DEF IInv, Exclusive
<1>16. UNCHANGED <<items, pipe, readable, registered, status, item, lock>>
  BY DEF Select
<1>17. TypeOK'
  BY <1>1, <1>2, <1>7, <1>16 DEF TypeOK
<1>18. Finishes'
  <2>1. \A h \in Handlers : h \in Ready(pool', selected') => status[h] = "open"
    BY <1>5, <1>10 DEF IInv, Finishes
  <2>2. Due(pool', selected', item') => WorkQueue \in ReadySources
    BY <1>3, <1>10, <1>11 DEF Due, Untaken
  <2>3. WorkQueue \in ReadySources => pool.destroyed \/ items # <<>>
    BY <1>5 DEF IInv, Finishes
  <2>4. \A h \in Handlers : items # <<>> /\ items[1] = FinishedWorkItem(h) => status[h] # "open"
    <3>1. items # <<>> => 1 \in 1 .. Len(items)
      BY <1>1 DEF TypeOK
    <3> QED
      BY <3>1 DEF IInv, Finishes
  <2>5. \A u \in Threads : pool'.at[u] = "done" => pool.at[u] = "done"
    BY <1>3
  <2> QED
    BY <1>3, <1>16, <2>1, <2>2, <2>3, <2>4, <2>5 DEF IInv, Finishes
<1> QED
  BY <1>3, <1>12, <1>13, <1>14, <1>15, <1>17, <1>18 DEF IInv, Immutable

\* TakeItem: the finished() call of a handler is taken when it is not ready.
LEMMA TakeItemKeeps ==
    ASSUME IInv, NEW t \in Threads, TakeItem(t)
    PROVE  IInv' /\ Immutable
<1> USE ThreadPoolAssumption
<1>1. /\ TypeOK /\ Finishes /\ pool.at[t] = "io" /\ pool.handler[t] = WorkQueue
      /\ item[t] = None /\ items # <<>> /\ items' = Tail(items)
      /\ UNCHANGED <<pool, readable, registered, selected, lock>>
  BY DEF IInv, TakeItem
<1>2. /\ items \in Seq(WorkItem) /\ items' \in Seq(WorkItem) /\ Head(items) \in WorkItem
      /\ Head(items) = items[1] /\ Len(items) \in Nat \ {0} /\ Len(items') = Len(items) - 1
      /\ \A i \in 1 .. Len(items') : items'[i] = items[i + 1]
      /\ item \in [Threads -> WorkItem \cup {None}]
  BY <1>1 DEF TypeOK
<1>3. /\ item' \in [Threads -> WorkItem \cup {None}] /\ item'[t] # None
      /\ \A u \in Threads : u # t => item'[u] = item[u]
  BY <1>2, NoneAssumption DEF TakeItem
<1>4. WorkQueue \notin Ready(pool, selected)
  BY <1>1 DEF IInv, Batch
<1>5. \A u \in Threads : u # t /\ pool.at[u] = "io" => pool.handler[u] # WorkQueue
  BY <1>1 DEF IInv, Exclusive
<1>6. ~Due(pool', selected', item')
  BY <1>1, <1>3, <1>4, <1>5 DEF Due, Untaken
<1>7. Due(pool, selected, item)
  BY <1>1 DEF Due, Untaken
<1>8. 1 \in 1 .. Len(items) /\ (items' = <<>> <=> Len(items') = 0)
  BY <1>2
<1>9. pipe' = (IF items' = <<>> THEN 0 ELSE 1) + (IF pool.destroyed THEN 1 ELSE 0) /\ pipe' \in Nat
  BY <1>1 DEF Finishes, TakeItem
<1>10. /\ status' \in [Handlers -> {"new", "open", "finishing", "finished"}]
       /\ \A h \in Handlers :
            \/ status'[h] = status[h]
            \/ /\ status'[h] = "finished" /\ status[h] \in {"finishing", "finished"}
               /\ h \notin Ready(pool, selected) /\ items[1] = FinishedWorkItem(h)
  <2>1. CASE Head(items).kind = "finished"
    <3>1. PICK h \in Handlers : Head(items) = FinishedWorkItem(h)
      BY <1>2, <2>1, ItemKinds
    <3>2. Head(items).of = h
      BY <3>1, ItemKinds
    <3>3. status' = [status EXCEPT ![h] = "finished"]
      BY <2>1, <3>2 DEF TakeItem
    <3>4. status[h] \in {"finishing", "finished"} /\ h \notin Ready(pool, selected)
      BY <1>1, <1>2, <1>7, <1>8, <3>1 DEF Finishes
    <3> QED
      BY <1>1, <1>2, <3>1, <3>3, <3>4 DEF TypeOK
  <2>2. CASE Head(items).kind # "finished"
    BY <1>1, <2>2 DEF TypeOK, TakeItem
  <2> QED
    BY <2>1, <2>2
<1>11. TypeOK'
  BY <1>1, <1>2, <1>3, <1>9, <1>10 DEF TypeOK
<1>12. Finishes'
  <2>1. lock' # None =>
          /\ ~pool'.destroyed /\ status'[lock'] = "finishing"
          /\ \A i \in 1 .. Len(items') : items'[i] # FinishedWorkItem(lock')
    <3> SUFFICES ASSUME lock # None
                 PROVE  /\ ~pool.destroyed /\ status'[lock] = "finishing"
                        /\ \A i \in 1 .. Len(items') : items'[i] # FinishedWorkItem(lock)
      BY <1>1
    <3>1. lock \in Handlers /\ ~pool.destroyed /\ status[lock] = "finishing"
          /\ \A i \in 1 .. Len(items) : items[i] # FinishedWorkItem(lock)
      BY <1>1 DEF Finishes, TypeOK
    <3>2. \A i \in 1 .. Len(items') : i + 1 \in 1 .. Len(items)
      BY <1>2
    <3>3. \A i \in 1 .. Len(items') : items'[i] # FinishedWorkItem(lock)
      BY <1>2, <3>1, <3>2
    <3>4. status'[lock] = status[lock]
      BY <1>2, <1>8, <1>10, <3>1
    <3> QED
      BY <3>1, <3>3, <3>4
  <2>2. \A h \in registered' : status'[h] = "open"
    BY <1>1, <1>10 DEF Finishes, TypeOK
  <2>3. \A h \in Handlers : h \in Ready(pool', selected') => status'[h] \in {"open", "finishing"}
    BY <1>1, <1>10 DEF Finishes
  <2>4. \A h \in Handlers : \A i \in 1 .. Len(items') :
          items'[i] = FinishedWorkItem(h) => status'[h] \in {"finishing", "finished"}
    <3>1. \A i \in 1 .. Len(items') : i + 1 \in 1 .. Len(items)
      BY <1>2
    <3> QED
      BY <1>1, <1>2, <1>10, <3>1 DEF Finishes
  <2>5. pool'.destroyed => \A h \in Handlers : status'[h] \in {"new", "finished"}
    BY <1>1, <1>10 DEF Finishes
  <2>6. \A u \in Threads : pool'.at[u] # "done"
    BY <1>1 DEF Finishes
  <2> QED
    BY <1>1, <1>6, <1>9, <2>1, <2>2, <2>3, <2>4, <2>5, <2>6 DEF Finishes
<1> QED
  BY <1>1, <1>11, <1>12 DEF IInv, Immutable

\* The invariant holds in a new pool.
LEMMA InitKeeps ==
    ASSUME Init
    PROVE  IInv
<1> USE ThreadPoolAssumption
<1>1. PICK ts \in SUBSET Threads :
        /\ Cardinality(ts) = Size
        /\ pool = [destroyed |-> FALSE, threads |-> ts, inUse |-> 0, inUseIO |-> 0,
                   handlers |-> <<>>, promote |-> TRUE, disabled |-> {}, leader |-> {},
                   at |-> [t \in Threads |-> IF t \in ts THEN "idle" ELSE "none"],
                   handler |-> [t \in Threads |-> None]]
  BY DEF Init
<1>2. pool \in PoolRecord
  BY <1>1 DEF PoolRecord, Places
<1>3. /\ ~pool.destroyed /\ pool.threads = ts /\ pool.inUse = 0 /\ pool.inUseIO = 0
      /\ pool.handlers = <<>> /\ pool.promote /\ pool.disabled = {} /\ pool.leader = {}
      /\ \A t \in Threads : pool.at[t] = IF t \in ts THEN "idle" ELSE "none"
  BY <1>1
<1>4. /\ items = <<>> /\ pipe = 0 /\ readable = {} /\ registered = {}
      /\ status = [h \in Handlers |-> "new"] /\ selected = [t \in Threads |-> <<>>]
      /\ item = [t \in Threads |-> None] /\ lock = None
  BY DEF Init
<1>5. TypeOK
  BY <1>2, <1>4 DEF TypeOK
<1>6. Leadership(pool)
  BY <1>3 DEF Leadership, OneLeadership, Selects
<1>7. Counts(pool)
  <2>1. In(pool, {"io"}) = {} /\ In(pool, {"user", "done"}) = {}
    BY <1>3 DEF In
  <2>2. ts = {t \in Threads : pool.at[t] \notin Outside}
    BY <1>3 DEF Outside
  <2>3. Cardinality(ts) \in 1 .. SizeMax
    BY <1>1
  <2>4. ASSUME SizeMax = 1, NEW t \in Threads, NEW u \in Threads, pool.at[t] # "none", pool.at[u] # "none"
        PROVE  t = u
    <3>1. t \in ts /\ u \in ts /\ Cardinality(ts) = 1 /\ IsFiniteSet(ts)
      BY <1>1, <1>3, <2>4, FS_Subset
    <3>2. PICK x : ts = {x}
      BY <3>1, FS_Singleton
    <3> QED
      BY <3>1, <3>2
  <2>5. Cardinality(In(pool, {"io"})) = 0 /\ Cardinality(In(pool, {"user", "done"})) = 0
    BY <2>1, FS_EmptySet
  <2>6. SizeMax = 1 => \A t, u \in Threads : pool.at[t] # "none" /\ pool.at[u] # "none" => t = u
    BY <2>4
  <2>7. Bounds(pool)
    BY <1>3, <2>2, <2>3, <2>6 DEF Bounds
  <2> QED
    BY <1>3, <2>5, <2>7 DEF Counts
<1>8. Ready(pool, selected) = {}
  BY <1>3, <1>4, ElemsEmpty DEF Ready
<1>9. Batch(pool, selected)
  BY <1>3, <1>4, <1>8, ElemsEmpty DEF Batch
<1>10. Exclusive(pool)
  BY <1>3 DEF Exclusive
<1>11. ~Due(pool, selected, item)
  BY <1>3, <1>8 DEF Due, Untaken
<1>12. Finishes
  BY <1>3, <1>4, <1>8, <1>11 DEF Finishes
<1> QED
  BY <1>5, <1>6, <1>7, <1>9, <1>10, <1>12 DEF IInv

\* Every step keeps the invariant, and the threads of a destroyed pool.
LEMMA NextKeeps ==
    ASSUME IInv, [Next]_vars
    PROVE  IInv' /\ Immutable
<1>1. ASSUME NEW h \in Handlers, Execute(h) \/ Register(h) \/ Arrive(h) \/ Finish(h)
      PROVE  IInv' /\ Immutable
  BY <1>1, ExecuteKeeps, RegisterKeeps, ArriveKeeps, FinishKeeps
<1>2. CASE QueueFinished
  BY <1>2, QueueFinishedKeeps
<1>3. CASE Destroy
  BY <1>3, DestroyKeeps
<1>4. ASSUME NEW t \in Threads, Step(t)
      PROVE  IInv' /\ Immutable
  <2>1. CASE Enter(t)
    BY <2>1, FollowKeeps DEF Enter
  <2>2. CASE Wake(t)
    BY <2>2, FollowKeeps DEF Wake
  <2> QED
    BY <1>4, <2>1, <2>2, FollowerTimeoutKeeps, SelectKeeps, SelectTimeoutKeeps, FinishSelectKeeps,
       CompleteIOKeeps, TakeItemKeeps, ExitKeeps, ReturnKeeps DEF Step
<1>5. CASE UNCHANGED vars
  BY <1>5 DEF vars, IInv, TypeOK, Finishes, Immutable
<1> QED
  BY <1>1, <1>2, <1>3, <1>4, <1>5 DEF Next

\* The invariant holds in every state.
THEOREM PoolInductive == Spec => []IInv
  BY InitKeeps, NextKeeps, PTL DEF Spec

\* One leadership, in numbers.
LEMMA LeaderCounted == IInv => OneLeader
<1> SUFFICES ASSUME IInv PROVE OneLeader
  OBVIOUS
<1>1. Cardinality(pool.leader) + (IF pool.promote THEN 1 ELSE 0) = 1
  <2>1. CASE pool.promote /\ pool.leader = {}
    BY <2>1, FS_EmptySet
  <2>2. ASSUME ~pool.promote, NEW t \in Threads, pool.leader = {t}
        PROVE  Cardinality(pool.leader) + (IF pool.promote THEN 1 ELSE 0) = 1
    <3>1. Cardinality({t}) = 1
      BY FS_Singleton
    <3> QED
      BY <2>2, <3>1
  <2> QED
    BY <2>1, <2>2 DEF IInv, Leadership, OneLeadership
<1> QED
  BY <1>1 DEF OneLeader, AtPlace, IInv, Leadership, Selects

\* The counters are those of CountsExact.
LEMMA CountsCounted == IInv => CountsExact
<1> USE ThreadPoolAssumption
<1> SUFFICES ASSUME IInv, SizeMax > 1
             PROVE  /\ pool.inUseIO = Cardinality(AtPlace("io"))
                    /\ pool.inUse = Cardinality(AtPlace("user")) + Cardinality(AtPlace("done"))
                    /\ pool.inUseIO <= SizeIO
                    /\ pool.inUse <= Cardinality(pool.threads)
                    /\ Cardinality(pool.threads) \in 1 .. SizeMax
  BY DEF CountsExact
<1> DEFINE busy == In(pool, {"user", "done"})
<1>1. pool.inUseIO = Cardinality(AtPlace("io"))
  <2>1. AtPlace("io") = In(pool, {"io"})
    BY DEF AtPlace, In
  <2> QED
    BY <2>1 DEF IInv, Counts
<1>2. busy = AtPlace("user") \cup AtPlace("done") /\ AtPlace("user") \cap AtPlace("done") = {}
  BY DEF AtPlace, In
<1>3. IsFiniteSet(AtPlace("user")) /\ IsFiniteSet(AtPlace("done"))
  BY <1>2, InFinite, FS_Subset
<1>4. Cardinality(busy) = Cardinality(AtPlace("user")) + Cardinality(AtPlace("done"))
  <2>1. Cardinality(AtPlace("user")) \in Nat /\ Cardinality(AtPlace("done")) \in Nat
    BY <1>3, FS_CardinalityType
  <2>2. Cardinality({}) = 0
    BY FS_EmptySet
  <2>3. Cardinality(AtPlace("user") \cup AtPlace("done"))
            = Cardinality(AtPlace("user")) + Cardinality(AtPlace("done"))
              - Cardinality(AtPlace("user") \cap AtPlace("done"))
    BY <1>3, FS_Union
  <2>4. Cardinality(busy) = Cardinality(AtPlace("user") \cup AtPlace("done"))
    BY <1>2
  <2>5. Cardinality(AtPlace("user") \cap AtPlace("done")) = 0
    BY <1>2, <2>2
  <2> HIDE DEF busy
  <2> QED
    BY <2>1, <2>3, <2>4, <2>5
<1>5. pool.inUse = Cardinality(busy)
  BY DEF IInv, Counts
<1>6. busy \subseteq pool.threads /\ IsFiniteSet(pool.threads)
  <2>1. busy \subseteq pool.threads
    BY DEF In, IInv, Counts, Bounds, Outside
  <2>2. pool.threads \in SUBSET Threads
    BY DEF IInv, TypeOK, PoolRecord
  <2> QED
    BY <2>1, <2>2, FS_Subset
<1>7. Cardinality(busy) <= Cardinality(pool.threads)
  BY <1>6, FS_Subset
<1> QED
  BY <1>1, <1>4, <1>5, <1>7 DEF IInv, Counts, Bounds

\* The pipe is readable when there is something to do.
LEMMA WorkQueueCounted == IInv => WorkQueueExact
  BY DEF IInv, Finishes, WorkQueueExact, AtPlace, Due, Untaken

\* The leadership, the counters _inUse and _inUseIO and the pipe of the work queue are
\* exact in every state of a pool of any size: the assertions of promoteFollower(),
\* ioCompleted() and ThreadPoolWorkQueue::message() hold.
THEOREM PoolIsExact == Spec => []PoolExact
<1>1. IInv => PoolExact
  BY LeaderCounted, CountsCounted, WorkQueueCounted DEF PoolExact, IInv
<1> QED
  BY <1>1, PoolInductive, PTL

\* run() never uses a handler that is finished, and two threads are not in message() of
\* one handler at a time (before ioCompleted(), and with Serialize after it too).
THEOREM HandlersAreSafe == Spec => []HandlersSafe
<1>1. IInv => HandlersAlive
  <2> SUFFICES ASSUME IInv, NEW h \in Handlers, status[h] = "finished"
               PROVE  /\ \A i \in 1 .. Len(pool.handlers) : pool.handlers[i] # h
                      /\ \A t \in Threads : \A i \in 1 .. Len(selected[t]) : selected[t][i] # h
    BY DEF HandlersAlive
  <2>1. h \notin Ready(pool, selected)
    BY DEF IInv, Finishes
  <2> QED
    BY <2>1 DEF Ready, Elems
<1>2. IInv => HandlersExclusive
  <2> SUFFICES ASSUME IInv, NEW t \in Threads, NEW u \in Threads, t # u,
                      pool.handler[t] = pool.handler[u], pool.at[t] = "io",
                      pool.at[u] = "io" \/ (Serialize /\ pool.at[u] = "user"), ~pool.destroyed
               PROVE  FALSE
    BY DEF HandlersExclusive
  <2>1. SizeMax > 1
    BY ThreadPoolAssumption DEF IInv, Counts, Bounds
  <2> QED
    BY <2>1 DEF IInv, Exclusive
<1> QED
  BY <1>1, <1>2, PoolInductive, PTL DEF HandlersSafe

\* joinWithAllThreads() may read _threads without the lock: a destroyed pool neither
\* grows nor shrinks.
THEOREM PoolThreadsImmutable == Spec => ThreadsImmutable
<1>1. IInv /\ [Next]_vars => [pool.destroyed => pool'.threads = pool.threads]_vars
  BY NextKeeps DEF Immutable
<1> QED
  BY <1>1, PoolInductive, PTL DEF Spec, ThreadsImmutable

=============================================================================
