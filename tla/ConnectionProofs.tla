-------------------------- MODULE ConnectionProofs --------------------------
(***************************************************************************)
(* Proofs about Connection, for all sets of invocations, with and without  *)
(* timeouts, and, unless they say otherwise, for every selector.           *)
(*                                                                         *)
(* The proof follows the model.  A handler is an operator on the record of *)
(* one end, so it is first shown what each handler does to a good record   *)
(* and to the stream of messages it writes (Advances).  Then the invariant *)
(* of the two ends is stated on what each has sent and its peer has not    *)
(* read (Stream), and each action is shown to preserve it.  Most actions   *)
(* are local: they send no request, read nothing that matters and start no *)
(* dispatch (LocalKeeps).  The others are sendRequest(), finish() and      *)
(* message().  Each lemma also shows, for a selector that reports one      *)
(* operation at a time, the step of Invocation that the action implements  *)
(* (Promised).                                                             *)
(***************************************************************************)
EXTENDS Connection, SequenceTheorems, FiniteSetTheorems, TLAPS

-----------------------------------------------------------------------------
(* Messages and sequences of messages.                                     *)

\* The messages of q, its requests and its replies.
Elems(q) == {q[i] : i \in 1 .. Len(q)}

\* A stream of one side: no request and no reply twice, and nothing behind a
\* close connection message.
Tidy(q) ==
    /\ \A i, j \in 1 .. Len(q) :
        q[i] = q[j] /\ q[i].type \in {"request", "reply"} => i = j
    /\ \A i \in 1 .. Len(q) : q[i] = CloseConnection => i = Len(q)

\* No request is twice in q.
Distinct(q) ==
    \A i, j \in 1 .. Len(q) : q[i] = q[j] /\ q[i].type = "request" => i = j

Reqs(q) == {r \in Requests : Request(r) \in Elems(q)}
Reps(q) == {r \in Requests : Reply(r) \in Elems(q)}

\* The messages are told apart by their type and their request.
LEMMA MessageFields ==
    /\ \A r : Request(r).type = "request" /\ Request(r).req = r
    /\ \A r : Reply(r).type = "reply" /\ Reply(r).req = r
    /\ CloseConnection.type = "close"
    /\ ValidateConnection.type = "validate"
    /\ \A r \in Requests : Request(r) \in Message /\ Reply(r) \in Message
    /\ CloseConnection \in Message /\ ValidateConnection \in Message
  BY DEF Request, Reply, CloseConnection, ValidateConnection, Message

\* A message has one of the four types, and the type says what it is.
LEMMA MessageKinds ==
    ASSUME NEW m \in Message
    PROVE  /\ m.type \in {"request", "reply", "close", "validate"}
           /\ m.type = "request" => m.req \in Requests /\ m = Request(m.req)
           /\ m.type = "reply" => m.req \in Requests /\ m = Reply(m.req)
           /\ m.type = "close" => m = CloseConnection
           /\ m.type = "validate" => m = ValidateConnection
  BY DEF Request, Reply, CloseConnection, ValidateConnection, Message

\* The messages of a concatenation are those of its parts.
LEMMA ElemsConcat ==
    ASSUME NEW p \in Seq(Message), NEW q \in Seq(Message)
    PROVE  /\ p \o q \in Seq(Message)
           /\ Elems(p \o q) = Elems(p) \cup Elems(q)
           /\ Reqs(p \o q) = Reqs(p) \cup Reqs(q)
           /\ Reps(p \o q) = Reps(p) \cup Reps(q)
<1>1. /\ p \o q \in Seq(Message) /\ Len(p \o q) = Len(p) + Len(q)
      /\ \A i \in 1 .. Len(p) + Len(q) :
            (p \o q)[i] = IF i <= Len(p) THEN p[i] ELSE q[i - Len(p)]
  BY ConcatProperties
<1>2. Len(p) \in Nat /\ Len(q) \in Nat
  BY LenProperties
<1>3. ASSUME NEW m \in Elems(p \o q)
      PROVE  m \in Elems(p) \cup Elems(q)
  BY <1>1, <1>2, <1>3 DEF Elems
<1>4. ASSUME NEW m \in Elems(p)
      PROVE  m \in Elems(p \o q)
  BY <1>1, <1>2, <1>4 DEF Elems
<1>5. ASSUME NEW m \in Elems(q)
      PROVE  m \in Elems(p \o q)
  <2>1. PICK i \in 1 .. Len(q) : m = q[i]
    BY <1>5 DEF Elems
  <2>2. /\ i + Len(p) \in 1 .. Len(p \o q)
        /\ (p \o q)[i + Len(p)] = m
    BY <2>1, <1>1, <1>2
  <2> QED
    BY <2>2 DEF Elems
<1>6. Elems(p \o q) = Elems(p) \cup Elems(q)
  BY <1>3, <1>4, <1>5
<1> QED
  BY <1>1, <1>6 DEF Reqs, Reps

\* The empty stream.
LEMMA ElemsEmpty ==
    Elems(<<>>) = {} /\ Reqs(<<>>) = {} /\ Reps(<<>>) = {} /\ Tidy(<<>>) /\ Distinct(<<>>)
  BY DEF Elems, Reqs, Reps, Tidy, Distinct

\* The streams of one message.
LEMMA ElemsOne ==
    ASSUME NEW m \in Message
    PROVE  /\ <<m>> \in Seq(Message) /\ Elems(<<m>>) = {m}
           /\ \A r \in Requests : m = Request(r) => Reqs(<<m>>) = {r} /\ Reps(<<m>>) = {}
           /\ \A r \in Requests : m = Reply(r) => Reqs(<<m>>) = {} /\ Reps(<<m>>) = {r}
           /\ m \in {CloseConnection, ValidateConnection} => Reqs(<<m>>) = {} /\ Reps(<<m>>) = {}
<1>1. Elems(<<m>>) = {m}
  BY DEF Elems
<1> QED
  BY <1>1, MessageFields DEF Reqs, Reps

\* A message is sent: it is new, and nothing is sent behind a close connection
\* message.
LEMMA TidyAppend ==
    ASSUME NEW q \in Seq(Message), NEW m \in Message, Tidy(q),
           CloseConnection \notin Elems(q),
           m.type \in {"request", "reply"} => m \notin Elems(q)
    PROVE  Tidy(q \o <<m>>)
<1> DEFINE p == q \o <<m>>
<1>1. /\ p \in Seq(Message) /\ Len(p) = Len(q) + 1 /\ Len(q) \in Nat
      /\ \A i \in 1 .. Len(q) : p[i] = q[i]
      /\ p[Len(q) + 1] = m
  BY ConcatProperties, ElemsOne
<1>2. \A i \in 1 .. Len(p) : i \in 1 .. Len(q) \/ i = Len(q) + 1
  BY <1>1
<1> HIDE DEF p
<1>3. ASSUME NEW i \in 1 .. Len(p), NEW j \in 1 .. Len(p), p[i] = p[j],
             p[i].type \in {"request", "reply"}
      PROVE  i = j
  BY <1>1, <1>2, <1>3 DEF Tidy, Elems
<1>4. ASSUME NEW i \in 1 .. Len(p), p[i] = CloseConnection
      PROVE  i = Len(p)
  BY <1>1, <1>2, <1>4 DEF Tidy, Elems
<1>5. Tidy(p)
  BY <1>3, <1>4 DEF Tidy
<1> QED
  BY <1>5 DEF p

\* The head of a stream is taken.
LEMMA TidyTail ==
    ASSUME NEW q \in Seq(Message), q # <<>>, Tidy(q)
    PROVE  /\ Tail(q) \in Seq(Message) /\ Tidy(Tail(q)) /\ Head(q) \in Message
           /\ Elems(q) = Elems(Tail(q)) \cup {Head(q)}
           /\ Head(q).type \in {"request", "reply"} => Head(q) \notin Elems(Tail(q))
           /\ Head(q) = CloseConnection => Tail(q) = <<>>
<1> DEFINE p == Tail(q)
<1>1. /\ p \in Seq(Message) /\ Len(p) = Len(q) - 1 /\ Len(q) \in Nat \ {0}
      /\ \A i \in 1 .. Len(p) : p[i] = q[i + 1]
      /\ Head(q) = q[1] /\ Head(q) \in Message
  BY HeadTailProperties, LenProperties, EmptySeq
<1> HIDE DEF p
<1>2. Tidy(p)
  <2>1. ASSUME NEW i \in 1 .. Len(p), NEW j \in 1 .. Len(p), p[i] = p[j],
               p[i].type \in {"request", "reply"}
        PROVE  i = j
    BY <1>1, <2>1 DEF Tidy
  <2>2. ASSUME NEW i \in 1 .. Len(p), p[i] = CloseConnection
        PROVE  i = Len(p)
    BY <1>1, <2>2 DEF Tidy
  <2> QED
    BY <2>1, <2>2 DEF Tidy
<1>3. Elems(q) = Elems(p) \cup {Head(q)}
  <2>1. ASSUME NEW m \in Elems(q) PROVE m \in Elems(p) \cup {Head(q)}
    <3>1. PICK i \in 1 .. Len(q) : m = q[i]
      BY <2>1 DEF Elems
    <3>2. CASE i = 1
      BY <3>1, <3>2, <1>1
    <3>3. CASE i # 1
      <4>1. i - 1 \in 1 .. Len(p) /\ p[i - 1] = m
        BY <3>1, <3>3, <1>1
      <4> QED
        BY <4>1 DEF Elems
    <3> QED
      BY <3>2, <3>3
  <2>2. ASSUME NEW m \in Elems(p) PROVE m \in Elems(q)
    <3>1. PICK i \in 1 .. Len(p) : m = p[i]
      BY <2>2 DEF Elems
    <3>2. i + 1 \in 1 .. Len(q) /\ q[i + 1] = m
      BY <3>1, <1>1
    <3> QED
      BY <3>2 DEF Elems
  <2>3. Head(q) \in Elems(q)
    BY <1>1 DEF Elems
  <2> QED
    BY <2>1, <2>2, <2>3
<1>4. Head(q).type \in {"request", "reply"} => Head(q) \notin Elems(p)
  <2> SUFFICES ASSUME q[1].type \in {"request", "reply"}, NEW i \in 1 .. Len(p), p[i] = q[1]
               PROVE  FALSE
    BY <1>1 DEF Elems
  <2> QED
    BY <1>1 DEF Tidy
<1>5. Head(q) = CloseConnection => p = <<>>
  <2> SUFFICES ASSUME q[1] = CloseConnection PROVE p = <<>>
    BY <1>1
  <2>1. Len(p) = 0
    BY <1>1 DEF Tidy
  <2> QED
    BY <2>1, <1>1, EmptySeq
<1> QED
  BY <1>1, <1>2, <1>3, <1>4, <1>5 DEF p

\* The end of a stream is dropped.
LEMMA TidyPrefix ==
    ASSUME NEW p \in Seq(Message), NEW q \in Seq(Message), Tidy(p \o q)
    PROVE  Tidy(p)
<1>1. /\ Len(p) \in Nat /\ Len(q) \in Nat /\ Len(p \o q) = Len(p) + Len(q)
      /\ \A i \in 1 .. Len(p) : (p \o q)[i] = p[i]
  BY ConcatProperties, LenProperties
<1>2. ASSUME NEW i \in 1 .. Len(p), NEW j \in 1 .. Len(p), p[i] = p[j],
             p[i].type \in {"request", "reply"}
      PROVE  i = j
  BY <1>1, <1>2 DEF Tidy
<1>3. ASSUME NEW i \in 1 .. Len(p), p[i] = CloseConnection
      PROVE  i = Len(p)
  BY <1>1, <1>3 DEF Tidy
<1> QED
  BY <1>2, <1>3 DEF Tidy

\* A request is queued once.
LEMMA DistinctAppend ==
    ASSUME NEW q \in Seq(Message), NEW m \in Message, Distinct(q),
           m.type = "request" => m \notin Elems(q)
    PROVE  /\ Append(q, m) \in Seq(Message) /\ Append(q, m) # <<>>
           /\ Distinct(Append(q, m))
           /\ Elems(Append(q, m)) = Elems(q) \cup {m}
<1> DEFINE p == Append(q, m)
<1>1. /\ p \in Seq(Message) /\ p # <<>> /\ Len(p) = Len(q) + 1 /\ Len(q) \in Nat
      /\ \A i \in 1 .. Len(q) : p[i] = q[i]
      /\ p[Len(q) + 1] = m
  BY AppendProperties
<1>2. \A i \in 1 .. Len(p) : i \in 1 .. Len(q) \/ i = Len(q) + 1
  BY <1>1
<1> HIDE DEF p
<1>3. ASSUME NEW i \in 1 .. Len(p), NEW j \in 1 .. Len(p), p[i] = p[j],
             p[i].type = "request"
      PROVE  i = j
  BY <1>1, <1>2, <1>3 DEF Distinct, Elems
<1>4. Elems(p) = Elems(q) \cup {m}
  BY <1>1, <1>2 DEF Elems
<1> QED
  BY <1>1, <1>3, <1>4 DEF Distinct, p

\* What is left of a queue when its first k messages are taken.
Taken(q, k) == UNION {RequestOf(q[i]) : i \in 1 .. k}

\* The messages of q that are written after its head, up to the k-th, and those behind it.
Written(q, k) == SubSeq(q, 2, k)
Rest(q, k) == SubSeq(q, k + 1, Len(q))

\* A queue splits into its first k messages and the rest.
LEMMA QueueSplit ==
    ASSUME NEW q \in Seq(Message), NEW k \in 1 .. Len(q), Distinct(q)
    PROVE  /\ Rest(q, k) \in Seq(Message) /\ Distinct(Rest(q, k))
           /\ Rest(q, k) = <<>> <=> k = Len(q)
           /\ Written(q, k) \in Seq(Message)
           /\ Written(q, k) \o Rest(q, k) = Tail(q)
           /\ Taken(q, k) \subseteq Requests
           /\ Taken(q, k) \cup Reqs(Rest(q, k)) = Reqs(q)
           /\ Taken(q, k) \cap Reqs(Rest(q, k)) = {}
<1> DEFINE a == Taken(q, k)
           b == Rest(q, k)
<1>b. b = SubSeq(q, k + 1, Len(q))
  BY DEF Rest
<1>a. a = UNION {RequestOf(q[i]) : i \in 1 .. k}
  BY DEF Taken
<1> HIDE DEF a, b
<1>1. /\ Len(q) \in Nat
      /\ \A i \in 1 .. Len(q) : q[i] \in Message
  BY LenProperties, ElementOfSeq
<1>2. /\ b \in Seq(Message) /\ Len(b) = Len(q) - k
      /\ \A i \in 1 .. Len(b) : b[i] = q[k + i]
  <2>1. \A i \in k + 1 .. Len(q) : q[i] \in Message
    BY <1>1
  <2> QED
    BY <2>1, <1>1, <1>b, SubSeqProperties
<1>3. b = <<>> <=> k = Len(q)
  <2>1. b = <<>> <=> Len(b) = 0
    BY <1>2, EmptySeq
  <2> QED
    BY <2>1, <1>1, <1>2
<1>4. SubSeq(q, 2, k) \in Seq(Message)
  <2>1. \A i \in 2 .. k : q[i] \in Message
    BY <1>1
  <2> QED
    BY <2>1, SubSeqProperties, <1>1
<1>5. SubSeq(q, 2, k) \o b = Tail(q)
  <2>1. q # <<>>
    BY <1>1, EmptySeq
  <2>2. Tail(q) = SubSeq(q, 2, Len(q))
    BY <2>1, TailIsSubSeq
  <2>3. 2 \in 1 .. Len(q) + 1 /\ k \in (2 - 1) .. Len(q) /\ Len(q) \in k .. Len(q)
    BY <1>1
  <2> QED
    BY <2>2, <2>3, <1>b, ConcatAdjacentSubSeq
<1>6. Distinct(b)
  BY <1>1, <1>2 DEF Distinct
<1>7. \A r : r \in a <=> \E i \in 1 .. k : q[i].type = "request" /\ r = q[i].req
  BY <1>a DEF RequestOf
<1>8. \A i \in 1 .. Len(q) : q[i].type = "request" => q[i].req \in Requests /\ q[i] = Request(q[i].req)
  BY <1>1, MessageKinds
<1>9. \A r \in Requests : r \in Reqs(b) <=> \E i \in k + 1 .. Len(q) : q[i] = Request(r)
  <2> SUFFICES ASSUME NEW r \in Requests
               PROVE  r \in Reqs(b) <=> \E i \in k + 1 .. Len(q) : q[i] = Request(r)
    OBVIOUS
  <2>1. ASSUME r \in Reqs(b) PROVE \E i \in k + 1 .. Len(q) : q[i] = Request(r)
    <3>1. PICK i \in 1 .. Len(b) : b[i] = Request(r)
      BY <2>1 DEF Reqs, Elems
    <3>2. k + i \in k + 1 .. Len(q) /\ q[k + i] = Request(r)
      BY <3>1, <1>1, <1>2
    <3> QED
      BY <3>2
  <2>2. ASSUME NEW i \in k + 1 .. Len(q), q[i] = Request(r) PROVE r \in Reqs(b)
    <3>1. i - k \in 1 .. Len(b) /\ b[i - k] = Request(r)
      BY <2>2, <1>1, <1>2
    <3> QED
      BY <3>1 DEF Reqs, Elems
  <2> QED
    BY <2>1, <2>2
<1>0. \A i \in 1 .. k : i \in 1 .. Len(q)
  BY <1>1
<1>10. \A r \in Requests : r \in a <=> \E i \in 1 .. k : q[i] = Request(r)
  <2>1. \A i \in 1 .. k : \A r \in Requests :
            q[i] = Request(r) <=> q[i].type = "request" /\ r = q[i].req
    BY <1>0, <1>8, MessageFields
  <2> QED
    BY <1>7, <2>1
<1>11. a \subseteq Requests
  <2> SUFFICES ASSUME NEW r \in a PROVE r \in Requests
    OBVIOUS
  <2>1. PICK i \in 1 .. k : q[i].type = "request" /\ r = q[i].req
    BY <1>7
  <2>2. i \in 1 .. Len(q)
    BY <1>0
  <2> QED
    BY <2>1, <2>2, <1>8
<1>12. \A r \in Requests : r \in Reqs(q) <=> \E i \in 1 .. Len(q) : q[i] = Request(r)
  BY DEF Reqs, Elems
<1>13. \A i \in 1 .. Len(q) : i \in 1 .. k \/ i \in k + 1 .. Len(q)
  BY <1>1
<1>14. /\ \A i \in 1 .. k : i \in 1 .. Len(q)
       /\ \A i \in k + 1 .. Len(q) : i \in 1 .. Len(q)
       /\ \A i \in 1 .. k : \A j \in k + 1 .. Len(q) : i # j
  BY <1>1
<1>15. a \cup Reqs(b) = Reqs(q)
  <2>1. Reqs(b) \subseteq Requests /\ Reqs(q) \subseteq Requests
    BY DEF Reqs
  <2> QED
    BY <2>1, <1>9, <1>10, <1>11, <1>12, <1>13, <1>14
<1>16. a \cap Reqs(b) = {}
  <2> SUFFICES ASSUME NEW r \in Requests, r \in a, r \in Reqs(b) PROVE FALSE
    BY <1>11
  <2>1. PICK i \in 1 .. k : q[i] = Request(r)
    BY <1>10
  <2>2. PICK j \in k + 1 .. Len(q) : q[j] = Request(r)
    BY <1>9
  <2> QED
    BY <2>1, <2>2, <1>14, MessageFields DEF Distinct
<1> QED
  BY <1>2, <1>3, <1>4, <1>5, <1>6, <1>11, <1>15, <1>16 DEF a, b, Written

-----------------------------------------------------------------------------
(* What holds of the record of one end.                                    *)

\* The messages of c that its peer has not been sent at the start of the step.
Pend(c) == c.out \o Unwritten(c)

\* The requests in _sendStreams.
Queued(c) == Reqs(c.sendStreams)

\* The life of a connection: which state goes with what.
Sound(c) ==
    /\ c.exception # NoException <=> c.state >= StateClosing
    /\ c.exception # "unknownId"
    /\ c.finishQueued <=> c.state = StateClosed
    /\ c.state <= StateNotValidated =>
        c.sendStreams = <<>> /\ c.requests = {} /\ c.dispatchCount = 0
    /\ c.state \in StateNotValidated .. StateClosing => c.started
    /\ c.shutdowns <= 1
    /\ c.shutdowns = 1 => c.state >= StateClosing
    /\ c.state = StateFinished =>
        c.sendStreams = <<>> /\ c.requests = {} /\ ~c.startCallback
    /\ c.reaped <= 1
    /\ c.reaped = 1 <=> c.state = StateFinished /\ c.dispatchCount = 0
    /\ c.state \in StateActive .. StateClosing /\ "write" \in c.reg => c.sendStreams # <<>>

\* Its queue: the written head is there, no request twice, and none that was
\* already reported as sent.
Queue(c) ==
    /\ c.written => c.sendStreams # <<>>
    /\ Distinct(c.sendStreams)
    /\ c.acked \cap Queued(c) = {}

\* A record that can be met inside a critical section.
Good(c) == c \in ConnectionRecord /\ Sound(c) /\ Queue(c)

\* A connection with something to write, or that waits for its peer to close, has a timeout.
Timed(c) ==
    Timeouts /\ c.state \in StateActive .. StateClosing
    /\ (c.sendStreams # <<>> \/ c.shutdowns = 1)
        => c.writeTimer \/ c.firing

\* What a step leaves alone: the queue, the life, the work and the timers of a connection.
SameQueue(c, d) ==
    /\ d.sendStreams = c.sendStreams /\ d.written = c.written
    /\ d.out = c.out /\ d.acked = c.acked

SameLife(c, d) ==
    /\ d.state = c.state /\ d.exception = c.exception
    /\ d.started = c.started /\ d.startCallback = c.startCallback
    /\ d.finishQueued = c.finishQueued /\ d.reaped = c.reaped
    /\ d.shutdowns = c.shutdowns

SameWork(c, d) == d.requests = c.requests /\ d.dispatchCount = c.dispatchCount

SameTimers(c, d) ==
    /\ d.readTimer = c.readTimer /\ d.writeTimer = c.writeTimer /\ d.firing = c.firing

\* c becomes d: the messages ms are sent or queued behind the others, and what
\* leaves the queue is reported as sent.
Flows(c, d, ms) ==
    /\ Pend(d) = Pend(c) \o ms
    /\ Queued(d) \cup d.acked = Queued(c) \cup c.acked \cup Reqs(ms)
    /\ c.acked \subseteq d.acked

\* The types of the fields of a record.
LEMMA RecordTypes ==
    ASSUME NEW c \in ConnectionRecord
    PROVE  /\ c.state \in 0 .. 6 /\ c.exception \in Exceptions
           /\ c.sendStreams \in Seq(Message) /\ c.out \in Seq(Message)
           /\ c.written \in BOOLEAN /\ c.startCallback \in BOOLEAN /\ c.finishQueued \in BOOLEAN
           /\ c.dispatchCount \in Nat /\ c.shutdowns \in Nat /\ c.reaped \in Nat
           /\ c.readTimer \in BOOLEAN /\ c.writeTimer \in BOOLEAN /\ c.firing \in BOOLEAN
           /\ c.requests \subseteq Requests /\ c.acked \subseteq Requests
           /\ c.reg \subseteq {"read", "write"} /\ c.partial \in BOOLEAN
           /\ c.started \in BOOLEAN /\ c.doubleTimer \in BOOLEAN
  BY DEF ConnectionRecord, StateNotInitialized, StateFinished

\* What a record still has to write is a sequence of messages.
LEMMA PendType ==
    ASSUME NEW c, Good(c)
    PROVE  Unwritten(c) \in Seq(Message) /\ Pend(c) \in Seq(Message)
<1>1. Unwritten(c) \in Seq(Message)
  BY RecordTypes, HeadTailProperties DEF Good, Queue, Unwritten
<1> QED
  BY <1>1, RecordTypes, ElemsConcat DEF Good, Pend

\* The same queue.
LEMMA FlowsNothing ==
    ASSUME NEW c, Good(c), NEW d, SameQueue(c, d)
    PROVE  Flows(c, d, <<>>) /\ Queued(d) = Queued(c) /\ Pend(d) = Pend(c) /\ Unwritten(d) = Unwritten(c)
<1>1. Unwritten(d) = Unwritten(c) /\ Pend(d) = Pend(c) /\ Queued(d) = Queued(c) /\ d.acked = c.acked
  BY DEF SameQueue, Unwritten, Pend, Queued
<1>2. Pend(c) = Pend(c) \o <<>>
  BY PendType, ConcatEmptySeq
<1> QED
  BY <1>1, <1>2, ElemsEmpty DEF Flows

\* Two steps one after the other add what each of them adds.
LEMMA FlowsOn ==
    ASSUME NEW c, NEW d, NEW e, Good(c), NEW p \in Seq(Message), NEW q \in Seq(Message),
           Flows(c, d, p), Flows(d, e, q)
    PROVE  Flows(c, e, p \o q)
<1>1. Pend(e) = Pend(c) \o (p \o q)
  BY SMTT(30), PendType, ConcatAssociative DEF Flows
<1> QED
  BY <1>1, ElemsConcat DEF Flows

\* Only timers and the registration change.
LEMMA GoodKept ==
    ASSUME NEW c, Good(c), NEW d \in ConnectionRecord, SameQueue(c, d), SameLife(c, d), SameWork(c, d),
           "write" \in d.reg => "write" \in c.reg
    PROVE  Good(d) /\ Flows(c, d, <<>>)
<1>1. Queued(d) = Queued(c) /\ Flows(c, d, <<>>)
  BY FlowsNothing
<1> QED
  BY <1>1 DEF Good, Queue, Sound, SameQueue, SameLife, SameWork

\* scheduleTimeout() for a write changes the timer only.
LEMMA ScheduleWrite ==
    ASSUME NEW c, c \in ConnectionRecord, NEW d, d = ScheduleWriteTimeout(c)
    PROVE  /\ d \in ConnectionRecord /\ SameQueue(c, d) /\ SameLife(c, d) /\ SameWork(c, d)
           /\ d.reg = c.reg /\ d.firing = c.firing /\ d.partial = c.partial
           /\ Timeouts => d.writeTimer
           /\ Timed(d)
<1>1. /\ d \in ConnectionRecord /\ SameQueue(c, d) /\ SameLife(c, d) /\ SameWork(c, d)
      /\ d.reg = c.reg /\ d.firing = c.firing /\ d.partial = c.partial
      /\ Timeouts => d.writeTimer
  BY DEF ScheduleWriteTimeout, ConnectionRecord, SameQueue, SameLife, SameWork
<1> QED
  BY <1>1 DEF Timed

\* scheduleTimeout() for a read changes the timer only.
LEMMA ScheduleRead ==
    ASSUME NEW c, c \in ConnectionRecord, NEW d, d = ScheduleReadTimeout(c)
    PROVE  /\ d \in ConnectionRecord /\ SameQueue(c, d) /\ SameLife(c, d) /\ SameWork(c, d)
           /\ d.reg = c.reg /\ d.firing = c.firing /\ d.partial = c.partial
           /\ d.writeTimer = c.writeTimer
           /\ Timed(c) => Timed(d)
<1>1. /\ d \in ConnectionRecord /\ SameQueue(c, d) /\ SameLife(c, d) /\ SameWork(c, d)
      /\ d.reg = c.reg /\ d.firing = c.firing /\ d.partial = c.partial
      /\ d.writeTimer = c.writeTimer
  BY DEF ScheduleReadTimeout, ConnectionRecord, SameQueue, SameLife, SameWork
<1> QED
  BY <1>1 DEF Timed, SameQueue, SameLife

\* unscheduleTimeout() changes the timers only, and a read leaves the write timeout alone.
LEMMA Unschedule ==
    ASSUME NEW c, c \in ConnectionRecord, NEW op, NEW d, d = UnscheduleTimeout(c, op)
    PROVE  /\ d \in ConnectionRecord /\ SameQueue(c, d) /\ SameLife(c, d) /\ SameWork(c, d)
           /\ d.reg = c.reg /\ d.firing = c.firing /\ d.partial = c.partial
           /\ "write" \notin op /\ Timed(c) => Timed(d)
<1>1. /\ d \in ConnectionRecord /\ SameQueue(c, d) /\ SameLife(c, d) /\ SameWork(c, d)
      /\ d.reg = c.reg /\ d.firing = c.firing /\ d.partial = c.partial
      /\ "write" \notin op => d.writeTimer = c.writeTimer
  <2> DEFINE rt == c.readTimer /\ "read" \notin op
             wt == c.writeTimer /\ "write" \notin op
  <2>1. rt \in BOOLEAN /\ wt \in BOOLEAN /\ ("write" \notin op => wt = c.writeTimer)
    BY RecordTypes
  <2>2. d = [c EXCEPT !.readTimer = rt, !.writeTimer = wt]
    BY DEF UnscheduleTimeout
  <2> HIDE DEF rt, wt
  <2> QED
    BY ZenonT(60), <2>1, <2>2 DEF ConnectionRecord, SameQueue, SameLife, SameWork
<1> QED
  BY <1>1 DEF Timed, SameQueue, SameLife

\* Commit() empties out and acked and changes nothing else of the record.
LEMMA SettledKeeps ==
    ASSUME NEW c, Good(c), NEW d, d = Settled(c)
    PROVE  /\ Good(d) /\ d.out = <<>> /\ d.acked = {}
           /\ d.sendStreams = c.sendStreams /\ d.written = c.written
           /\ SameLife(c, d) /\ SameWork(c, d) /\ SameTimers(c, d)
           /\ d.reg = c.reg /\ d.partial = c.partial
           /\ Queued(d) = Queued(c) /\ Unwritten(d) = Unwritten(c)
           /\ Timed(c) => Timed(d)
<1>1. /\ d \in ConnectionRecord /\ d.out = <<>> /\ d.acked = {}
      /\ d.sendStreams = c.sendStreams /\ d.written = c.written
      /\ SameLife(c, d) /\ SameWork(c, d) /\ SameTimers(c, d)
      /\ d.reg = c.reg /\ d.partial = c.partial
  <2>1. <<>> \in Seq(Message) /\ {} \in SUBSET Requests
    BY EmptySeq
  <2> QED
    BY <2>1 DEF Good, Settled, ConnectionRecord, SameLife, SameWork, SameTimers
<1>2. Queued(d) = Queued(c) /\ Unwritten(d) = Unwritten(c)
  BY <1>1 DEF Queued, Unwritten
<1>3. Good(d)
  BY <1>1, <1>2 DEF Good, Queue, Sound, SameLife, SameWork
<1> QED
  BY <1>1, <1>2, <1>3 DEF Timed, SameLife, SameTimers

\* setState(StateClosed).
ClosedFrom(c, d) ==
    /\ SameQueue(c, d) /\ SameWork(c, d)
    /\ d.shutdowns = c.shutdowns
    /\ d.state = IF c.state >= StateClosed THEN c.state ELSE StateClosed
    /\ d.exception = IF c.exception = NoException THEN d.exception ELSE c.exception

\* setState(StateClosed) keeps the first exception and the queue.
LEMMA SetClosedKeeps ==
    ASSUME NEW c, Good(c), NEW ex \in {"close", "other"}, NEW d, d = SetClosed(c, ex)
    PROVE  /\ Good(d) /\ ClosedFrom(c, d) /\ Flows(c, d, <<>>) /\ Timed(d)
           /\ c.exception = NoException => d.exception = ex
<1>1. CASE c.state >= StateClosed
  <2>1. d = c
    BY <1>1 DEF SetClosed
  <2>2. Timed(c)
    BY <1>1, RecordTypes DEF Timed, Good, StateActive, StateClosing, StateClosed
  <2> QED
    BY <1>1, <2>1, <2>2, FlowsNothing
      DEF ClosedFrom, SameQueue, SameWork, Good, Sound, StateClosing, StateClosed, ConnectionRecord
<1>2. CASE ~(c.state >= StateClosed)
  <2>1. /\ d \in ConnectionRecord /\ SameQueue(c, d) /\ SameWork(c, d)
        /\ d.shutdowns = c.shutdowns /\ d.state = StateClosed /\ d.finishQueued
        /\ d.exception = (IF c.exception = NoException THEN ex ELSE c.exception)
        /\ d.reaped = c.reaped /\ d.reg = {}
    <3> DEFINE x == IF c.exception = NoException THEN ex ELSE c.exception
    <3>1. x \in Exceptions /\ StateClosed \in StateNotInitialized .. StateFinished
      BY RecordTypes DEF Good, Exceptions, StateClosed, StateFinished, StateNotInitialized
    <3>2. d = [c EXCEPT !.state = StateClosed, !.exception = x, !.reg = {}, !.finishQueued = TRUE]
      BY <1>2 DEF SetClosed
    <3> HIDE DEF x
    <3>3. /\ d \in ConnectionRecord /\ SameQueue(c, d) /\ SameWork(c, d)
          /\ d.shutdowns = c.shutdowns /\ d.state = StateClosed /\ d.finishQueued
          /\ d.exception = x /\ d.reaped = c.reaped /\ d.reg = {}
      BY <3>1, <3>2 DEF Good, ConnectionRecord, SameQueue, SameWork
    <3> QED
      BY <3>3 DEF x
  <2>2. Queued(d) = Queued(c) /\ Flows(c, d, <<>>)
    BY <2>1, FlowsNothing
  <2>3. Queue(d)
    BY <2>1, <2>2 DEF Queue, Good, SameQueue
  <2>4. Sound(d)
    BY <1>2, <2>1, RecordTypes DEF Good, Sound, SameQueue, SameWork, StateClosed, StateClosing,
      StateFinished, StateActive, StateNotValidated, NoException
  <2>5. Timed(d)
    BY <2>1 DEF Timed, StateClosed, StateActive, StateClosing
  <2> QED
    BY <1>2, <2>1, <2>2, <2>3, <2>4, <2>5 DEF ClosedFrom, Good
<1> QED
  BY <1>1, <1>2

\* Concatenation is associative.
LEMMA Regroup ==
    \A p, q, t \in Seq(Message) : (p \o q) \o t = p \o (q \o t)
  BY ConcatAssociative

\* The requests of a stream of one message.
LEMMA RequestOfIsReqs ==
    ASSUME NEW m \in Message
    PROVE  RequestOf(m) = Reqs(<<m>>)
<1>1. Elems(<<m>>) = {m}
  BY ElemsOne
<1>2. CASE m.type = "request"
  <2>1. m.req \in Requests /\ m = Request(m.req)
    BY <1>2, MessageKinds
  <2>2. Reqs(<<m>>) = {m.req}
    BY <2>1, ElemsOne
  <2> QED
    BY <1>2, <2>2 DEF RequestOf
<1>3. CASE m.type # "request"
  BY <1>1, <1>3, MessageFields DEF RequestOf, Reqs
<1> QED
  BY <1>2, <1>3

\* What waits to be written has a timeout.
TimedQueue(c) == Timeouts /\ c.sendStreams # <<>> => c.writeTimer \/ c.firing

\* sendMessage() sends the message or queues it behind the others.
LEMMA SendMessageKeeps ==
    ASSUME NEW c, Good(c), c.state \in StateActive .. StateClosing,
           NEW m \in Message, NEW w \in Writes, ~SendFails(c, w),
           m.type = "request" => m.req \notin Queued(c) \cup c.acked,
           NEW d, d = SendMessage(c, m, w)
    PROVE  /\ Good(d) /\ SameLife(c, d) /\ SameWork(c, d) /\ Flows(c, d, <<m>>)
           /\ d.written = c.written /\ d.acked \subseteq c.acked \cup Reqs(<<m>>)
           /\ Timed(c) => Timed(d)
           /\ TimedQueue(c) /\ d.out = c.out => Timed(d)
<1>0. /\ c \in ConnectionRecord /\ c.out \in Seq(Message) /\ c.sendStreams \in Seq(Message)
      /\ Unwritten(c) \in Seq(Message) /\ <<m>> \in Seq(Message) /\ c.acked \subseteq Requests
      /\ Pend(c) = c.out \o Unwritten(c)
      /\ c.state \in Nat
  BY RecordTypes, PendType, ElemsOne DEF Good, Pend
<1>1. CASE c.sendStreams # <<>>
  <2>1. d = [c EXCEPT !.sendStreams = Append(@, m)]
    BY <1>1 DEF SendMessage
  <2>2. m.type = "request" => m \notin Elems(c.sendStreams)
    BY MessageKinds DEF Queued, Reqs
  <2>3. /\ Append(c.sendStreams, m) \in Seq(Message) /\ Append(c.sendStreams, m) # <<>>
        /\ Distinct(Append(c.sendStreams, m))
    BY <1>0, <2>2, DistinctAppend DEF Good, Queue
  <2>4. Append(c.sendStreams, m) = c.sendStreams \o <<m>>
    BY <1>0, AppendIsConcat
  <2>5. /\ d \in ConnectionRecord /\ d.sendStreams = Append(c.sendStreams, m)
        /\ d.written = c.written /\ d.out = c.out /\ d.acked = c.acked /\ d.reg = c.reg
        /\ SameLife(c, d) /\ SameWork(c, d) /\ SameTimers(c, d)
    BY <2>1, <2>3, <1>0 DEF ConnectionRecord, SameLife, SameWork, SameTimers
  <2>6. Unwritten(d) = Unwritten(c) \o <<m>>
    <3>1. CASE c.written
      <4>1. Tail(Append(c.sendStreams, m)) = Append(Tail(c.sendStreams), m)
        BY <1>0, <1>1, HeadTailAppend
      <4>2. Append(Tail(c.sendStreams), m) = Tail(c.sendStreams) \o <<m>>
        BY <1>0, <1>1, HeadTailProperties, AppendIsConcat
      <4> QED
        BY <3>1, <4>1, <4>2, <2>5 DEF Unwritten
    <3>2. CASE ~c.written
      BY <3>2, <2>4, <2>5 DEF Unwritten
    <3> QED
      BY <3>1, <3>2
  <2>7. Pend(d) = Pend(c) \o <<m>>
    <3>1. (c.out \o Unwritten(c)) \o <<m>> = c.out \o (Unwritten(c) \o <<m>>)
      <4>1. c.out \in Seq(Message) /\ Unwritten(c) \in Seq(Message) /\ <<m>> \in Seq(Message)
        BY <1>0
      <4> QED
        BY <4>1, Regroup
    <3>2. Pend(d) = c.out \o (Unwritten(c) \o <<m>>)
      BY <2>5, <2>6 DEF Pend
    <3> QED
      BY <1>0, <3>1, <3>2
  <2>8. Queued(d) = Queued(c) \cup Reqs(<<m>>)
    <3>1. Reqs(c.sendStreams \o <<m>>) = Reqs(c.sendStreams) \cup Reqs(<<m>>)
      BY <1>0, ElemsConcat
    <3> QED
      BY <2>4, <2>5, <3>1 DEF Queued
  <2>9. c.acked \cap Reqs(<<m>>) = {}
    BY <1>0, RequestOfIsReqs DEF RequestOf
  <2>10. Queue(d)
    BY <2>3, <2>5, <2>8, <2>9 DEF Queue, Good
  <2>11. Sound(d)
    BY <1>0, <1>1, <2>3, <2>5 DEF Sound, Good, SameLife, SameWork, StateNotValidated, StateActive,
      StateClosing, StateFinished
  <2>12. Flows(c, d, <<m>>)
    BY <2>5, <2>7, <2>8 DEF Flows
  <2>13. TimedQueue(c) => Timed(d)
    BY <1>1, <2>5 DEF TimedQueue, Timed, SameTimers
  <2>14. Timed(c) => Timed(d)
    BY <1>1, <2>5 DEF Timed, SameLife, SameTimers
  <2> QED
    BY <2>5, <2>10, <2>11, <2>12, <2>13, <2>14 DEF Good
<1>2. ASSUME c.sendStreams = <<>>
      PROVE  /\ ~c.written /\ Unwritten(c) = <<>> /\ Queued(c) = {} /\ w \in {"sent", "block"}
             /\ Pend(c) = c.out
  BY <1>0, <1>2, ElemsEmpty, ConcatEmptySeq DEF Unwritten, Queued, Good, Queue, SendFails, Writes
<1>3. CASE c.sendStreams = <<>> /\ w = "sent"
  <2> DEFINE out == Append(c.out, m)
             acked == c.acked \cup RequestOf(m)
  <2>1. d = [c EXCEPT !.out = out, !.acked = acked]
    BY <1>3 DEF SendMessage
  <2>2. out \in Seq(Message) /\ out = c.out \o <<m>> /\ out # c.out
    <3>1. /\ Append(c.out, m) \in Seq(Message) /\ Len(Append(c.out, m)) = Len(c.out) + 1
          /\ Len(c.out) \in Nat
      BY <1>0, AppendProperties, LenProperties
    <3>2. Append(c.out, m) # c.out
      BY <3>1
    <3> QED
      BY <3>1, <3>2, <1>0, AppendIsConcat
  <2>3. acked \in SUBSET Requests /\ acked = c.acked \cup Reqs(<<m>>)
    BY <1>0, RequestOfIsReqs DEF Reqs
  <2> HIDE DEF out, acked
  <2>4. /\ d \in ConnectionRecord /\ d.sendStreams = c.sendStreams
        /\ d.written = c.written /\ d.out = out /\ d.acked = acked /\ d.reg = c.reg
        /\ SameLife(c, d) /\ SameWork(c, d) /\ SameTimers(c, d)
    BY <2>1, <2>2, <2>3, <1>0 DEF ConnectionRecord, SameLife, SameWork, SameTimers
  <2>5. Unwritten(d) = <<>> /\ Queued(d) = {}
    BY <1>2, <1>3, <2>4 DEF Unwritten, Queued
  <2>6. Pend(d) = Pend(c) \o <<m>>
    BY <1>0, <1>2, <1>3, <2>2, <2>4, <2>5, ConcatEmptySeq DEF Pend
  <2>7. Flows(c, d, <<m>>)
    BY <1>2, <1>3, <2>3, <2>4, <2>5, <2>6 DEF Flows
  <2>8. Queue(d)
    BY <2>4, <2>5 DEF Queue, Good
  <2>9. Sound(d)
    BY <2>4 DEF Sound, Good, SameLife, SameWork
  <2>10. Timed(c) => Timed(d)
    BY <2>4 DEF Timed, SameLife, SameTimers
  <2> QED
    BY <2>2, <2>3, <2>4, <2>7, <2>8, <2>9, <2>10 DEF Good
<1>4. CASE c.sendStreams = <<>> /\ w = "block"
  <2> DEFINE e == [c EXCEPT !.sendStreams = <<m>>, !.reg = @ \cup {"write"}]
  <2>1. d = ScheduleWriteTimeout(e)
    BY <1>4 DEF SendMessage
  <2>2. /\ e \in ConnectionRecord /\ e.sendStreams = <<m>>
        /\ e.written = c.written /\ e.out = c.out /\ e.acked = c.acked
        /\ SameLife(c, e) /\ SameWork(c, e)
    BY <1>0 DEF ConnectionRecord, SameLife, SameWork
  <2> HIDE DEF e
  <2>3. /\ d \in ConnectionRecord /\ SameQueue(e, d) /\ SameLife(e, d) /\ SameWork(e, d)
        /\ Timed(d)
    BY <2>1, <2>2, ScheduleWrite
  <2>4. /\ d.sendStreams = <<m>> /\ ~d.written /\ d.written = c.written /\ d.out = c.out /\ d.acked = c.acked
        /\ SameLife(c, d) /\ SameWork(c, d)
    BY <1>2, <1>4, <2>2, <2>3 DEF SameQueue, SameLife, SameWork
  <2>5. Unwritten(d) = <<m>> /\ Queued(d) = Reqs(<<m>>)
    BY <2>4 DEF Unwritten, Queued
  <2>6. Flows(c, d, <<m>>)
    BY <1>0, <1>2, <1>4, <2>4, <2>5, ConcatEmptySeq DEF Flows, Pend
  <2>7. d.acked \cap Queued(d) = {}
    BY <1>0, <2>4, <2>5, RequestOfIsReqs DEF RequestOf
  <2>8. Queue(d)
    BY <2>4, <2>7 DEF Queue, Distinct
  <2>9. Sound(d)
    BY <1>0, <2>4 DEF Sound, Good, SameLife, SameWork, StateNotValidated, StateActive,
      StateClosing, StateFinished
  <2> QED
    BY <1>2, <1>4, <2>3, <2>4, <2>6, <2>8, <2>9 DEF Good
<1> QED
  BY <1>1, <1>2, <1>3, <1>4

\* initiateShutdown() of a closing connection: the close connection message is
\* sent, or the connection is closed.
ShutDownFrom(c, d, ms) ==
    /\ Good(d) /\ (TimedQueue(c) => Timed(d)) /\ SameWork(c, d) /\ d.written = c.written
    /\ d.shutdowns = 1 /\ d.exception = c.exception /\ d.acked = c.acked
    /\ Flows(c, d, ms)
    /\ \/ ms = <<CloseConnection>> /\ d.state = StateClosing
       \/ ms = <<>> /\ d.state = StateClosed

\* initiateShutdown() sends the close connection message or closes the connection.
LEMMA ShutdownKeeps ==
    ASSUME NEW c, Good(c), c.state = StateClosing, c.shutdowns = 0, NEW w \in Writes,
           NEW d, d = InitiateShutdown(c, w)
    PROVE  ShutDownFrom(c, d, <<>>) \/ ShutDownFrom(c, d, <<CloseConnection>>)
<1> DEFINE b == [c EXCEPT !.shutdowns = @ + 1]
           e == SendMessage(b, CloseConnection, w)
<1>0. d = IF SendFails(c, w) THEN SetClosed(b, "other")
          ELSE IF e.out # c.out THEN ScheduleWriteTimeout(e) ELSE e
  BY DEF InitiateShutdown
<1>1. /\ b \in ConnectionRecord /\ SameQueue(c, b) /\ SameWork(c, b) /\ SameTimers(c, b)
      /\ b.state = c.state /\ b.exception = c.exception /\ b.shutdowns = 1
      /\ b.reg = c.reg /\ b.finishQueued = c.finishQueued /\ b.reaped = c.reaped
      /\ b.startCallback = c.startCallback /\ b.started = c.started
  <2>1. c \in ConnectionRecord /\ b = [c EXCEPT !.shutdowns = 1]
    BY RecordTypes DEF Good
  <2> HIDE DEF b
  <2> QED
    BY <2>1 DEF ConnectionRecord, SameQueue, SameWork, SameTimers
<1> HIDE DEF b
<1>2. Good(b) /\ Flows(c, b, <<>>)
  <2>1. Flows(c, b, <<>>) /\ Queued(b) = Queued(c)
    BY <1>1, FlowsNothing
  <2>2. Queue(b)
    BY <1>1, <2>1 DEF Good, Queue, SameQueue
  <2>3. Sound(b)
    BY <1>1 DEF Good, Sound, SameQueue, SameWork, StateClosing
  <2> QED
    BY <1>1, <2>1, <2>2, <2>3 DEF Good
<1>3. (TimedQueue(c) => TimedQueue(b)) /\ (SendFails(b, w) <=> SendFails(c, w))
  BY <1>1 DEF TimedQueue, SameQueue, SameTimers, SendFails
<1>4. CASE SendFails(c, w)
  <2>1. d = SetClosed(b, "other")
    BY <1>0, <1>4
  <2>2. /\ Good(d) /\ ClosedFrom(b, d) /\ Flows(b, d, <<>>) /\ Timed(d)
    BY <1>2, <2>1, SetClosedKeeps
  <2>3. d.state = StateClosed /\ d.exception = c.exception /\ d.shutdowns = 1 /\ SameWork(c, d)
        /\ d.written = c.written /\ d.acked = c.acked
    BY <1>1, <2>2 DEF ClosedFrom, SameWork, SameQueue, StateClosed, StateClosing, Good, Sound
  <2>4. Flows(c, d, <<>>)
    <3>1. <<>> \in Seq(Message) /\ <<>> \o <<>> = <<>>
      BY EmptySeq, ConcatEmptySeq
    <3>2. Flows(c, d, <<>> \o <<>>)
      BY <1>2, <2>2, <3>1, FlowsOn
    <3> QED
      BY <3>1, <3>2
  <2> QED
    BY <2>2, <2>3, <2>4 DEF ShutDownFrom
<1>5. CASE ~SendFails(c, w)
  <2>1. /\ Good(e) /\ SameLife(b, e) /\ SameWork(b, e) /\ Flows(b, e, <<CloseConnection>>)
        /\ e.written = b.written /\ e.acked \subseteq b.acked \cup Reqs(<<CloseConnection>>)
        /\ TimedQueue(b) /\ e.out = b.out => Timed(e)
    <3>1. CloseConnection \in Message /\ CloseConnection.type # "request"
      BY MessageFields
    <3>2. b.state \in StateActive .. StateClosing
      BY <1>1 DEF StateActive, StateClosing
    <3> QED
      BY <1>2, <1>3, <1>5, <3>1, <3>2, SendMessageKeeps
  <2> HIDE DEF e
  <2>2. /\ Good(d) /\ (TimedQueue(c) => Timed(d)) /\ SameLife(b, d) /\ SameWork(b, d) /\ Flows(b, d, <<CloseConnection>>)
        /\ d.written = b.written /\ d.acked = b.acked
    <3>0. e.acked = b.acked
      <4>1. Reqs(<<CloseConnection>>) = {}
        BY ElemsOne, MessageFields
      <4> QED
        BY <2>1, <4>1 DEF Flows
    <3>1. CASE e.out = c.out
      BY <1>0, <1>1, <1>3, <1>5, <2>1, <3>0, <3>1 DEF SameQueue
    <3>2. CASE e.out # c.out
      <4>1. d = ScheduleWriteTimeout(e)
        BY <1>0, <1>5, <3>2
      <4>2. /\ d \in ConnectionRecord /\ SameQueue(e, d) /\ SameLife(e, d) /\ SameWork(e, d)
            /\ d.reg = e.reg /\ Timed(d)
        BY <2>1, <4>1, ScheduleWrite DEF Good
      <4>3. Good(d) /\ Queued(d) = Queued(e) /\ Pend(d) = Pend(e)
        BY <2>1, <4>2, GoodKept, FlowsNothing
      <4>4. Flows(b, d, <<CloseConnection>>)
        BY <2>1, <4>2, <4>3 DEF Flows, SameQueue
      <4> QED
        BY <2>1, <3>0, <4>2, <4>3, <4>4 DEF SameLife, SameWork, SameQueue
    <3> QED
      BY <3>1, <3>2
  <2>3. Flows(c, d, <<CloseConnection>>)
    <3>1. Pend(b) = Pend(c) /\ Queued(b) = Queued(c) /\ b.acked = c.acked
      BY <1>1, FlowsNothing DEF SameQueue
    <3> QED
      BY <2>2, <3>1 DEF Flows
  <2> QED
    BY <1>1, <2>2, <2>3 DEF ShutDownFrom, SameLife, SameWork, SameQueue
<1> QED
  BY <1>4, <1>5

\* c becomes d in a step that sends ms: a connection does not come back from
\* closing, keeps its first exception, and shuts down once, when nothing is
\* being dispatched.
Advances(c, d, ms) ==
    /\ Good(d) /\ Flows(c, d, ms)
    /\ c.state >= StateClosing => d.state >= StateClosing
    /\ c.state >= StateClosed => d.state >= StateClosed
    /\ d.state = StateFinished <=> c.state = StateFinished
    /\ c.exception # NoException => d.exception = c.exception
    /\ \/ d.shutdowns = c.shutdowns /\ CloseConnection \notin Elems(ms)
       \/ c.shutdowns = 0 /\ d.shutdowns = 1 /\ d.dispatchCount = 0
    /\ ms # <<>> => c.shutdowns = 0 /\ c.state < StateClosed
    /\ ~CombinedEvents => (Timed(c) => Timed(d)) /\ (~c.written => ~d.written)

\* The states are compared as numbers.
StateNames == /\ StateNotInitialized = 0 /\ StateNotValidated = 1 /\ StateActive = 2
              /\ StateHolding = 3 /\ StateClosing = 4 /\ StateClosed = 5 /\ StateFinished = 6

\* The states by their numbers.
LEMMA StatesAre == StateNames
  BY DEF StateNames, StateNotInitialized, StateNotValidated, StateActive, StateHolding,
    StateClosing, StateClosed, StateFinished

\* Only the timers, the registration, or whether a message was partly read.
LEMMA AdvancesKept ==
    ASSUME NEW c, Good(c), NEW d \in ConnectionRecord, SameQueue(c, d), SameLife(c, d), SameWork(c, d),
           "write" \in d.reg => "write" \in c.reg, Timed(c) => Timed(d)
    PROVE  Advances(c, d, <<>>)
<1>1. Good(d) /\ Flows(c, d, <<>>)
  BY GoodKept
<1> QED
  BY <1>1, ElemsEmpty DEF Advances, SameLife, SameQueue

\* setState(StateClosed) is a step that sends nothing.
LEMMA AdvancesClosed ==
    ASSUME NEW c, Good(c), NEW d, NEW ex \in {"close", "other"}, d = SetClosed(c, ex)
    PROVE  Advances(c, d, <<>>) /\ SameWork(c, d) /\ d.acked = c.acked /\ d.state >= StateClosed
           /\ (c.exception = NoException => d.exception = ex)
<1>1. /\ Good(d) /\ ClosedFrom(c, d) /\ Flows(c, d, <<>>) /\ Timed(d)
      /\ c.exception = NoException => d.exception = ex
  BY SetClosedKeeps
<1>2. c.state \in 0 .. 6
  BY RecordTypes DEF Good
<1> QED
  BY <1>1, <1>2, StatesAre, ElemsEmpty DEF Advances, ClosedFrom, SameQueue, StateNames

\* setState(StateClosing) sends at most the close connection message.
LEMMA AdvancesClosing ==
    ASSUME NEW c, Good(c), c.state < StateClosing, NEW ex \in {"close", "other"},
           NEW w \in Writes, NEW d, d = SetClosing(c, ex, w)
    PROVE  /\ Advances(c, d, <<>>) \/ Advances(c, d, <<CloseConnection>>)
           /\ SameWork(c, d) /\ d.state >= StateClosing /\ d.exception = ex
           /\ d.acked = c.acked
<1>0. c.state \in 0 .. 6 /\ c \in ConnectionRecord /\ c.dispatchCount \in Nat /\ c.shutdowns \in Nat
  BY RecordTypes DEF Good
<1>1. c.exception = NoException /\ c.shutdowns = 0
  BY <1>0, StatesAre DEF Good, Sound, StateNames
<1>2. CASE c.state <= StateNotValidated
  <2>1. d = SetClosed(c, ex)
    BY <1>2 DEF SetClosing
  <2>2. /\ Advances(c, d, <<>>) /\ SameWork(c, d) /\ d.acked = c.acked /\ d.state >= StateClosed
        /\ d.exception = ex
    BY <1>1, <2>1, AdvancesClosed
  <2>3. d.state \in 0 .. 6
    BY <2>2, RecordTypes DEF Advances, Good
  <2> QED
    BY <2>2, <2>3, StatesAre DEF StateNames
<1>3. CASE c.state > StateNotValidated
  <2> DEFINE e == [c EXCEPT !.state = StateClosing, !.exception = ex, !.reg = @ \cup {"read"}]
  <2>1. d = IF e.dispatchCount = 0 THEN InitiateShutdown(e, w) ELSE e
    BY <1>0, <1>3, StatesAre DEF SetClosing, StateNames
  <2>2. /\ e \in ConnectionRecord /\ SameQueue(c, e) /\ SameWork(c, e) /\ SameTimers(c, e)
        /\ e.state = StateClosing /\ e.exception = ex /\ e.shutdowns = c.shutdowns
        /\ e.reaped = c.reaped /\ e.finishQueued = c.finishQueued /\ e.started = c.started
        /\ "write" \in e.reg => "write" \in c.reg
    <3>1. StateClosing \in StateNotInitialized .. StateFinished /\ ex \in Exceptions
      BY StatesAre DEF StateNames, Exceptions
    <3> QED
      BY <1>0, <3>1 DEF ConnectionRecord, SameQueue, SameWork, SameTimers
  <2> HIDE DEF e
  <2>3. Flows(c, e, <<>>) /\ Queued(e) = Queued(c)
    BY <2>2, FlowsNothing
  <2>4. Good(e)
    <3>1. Queue(e)
      BY <2>2, <2>3 DEF Queue, Good, SameQueue
    <3>2. Sound(e)
      BY <1>0, <1>1, <1>3, <2>2, StatesAre DEF Good, Sound, SameQueue, SameWork, StateNames,
         NoException
    <3> QED
      BY <2>2, <3>1, <3>2 DEF Good
  <2>5. /\ Timed(c) => TimedQueue(e)
        /\ Timed(c) => Timed(e)
    BY <1>0, <1>1, <1>3, <2>2, StatesAre DEF Timed, TimedQueue, SameQueue, SameTimers, StateNames
  <2>6. CASE e.dispatchCount # 0
    <3>1. d = e
      BY <2>1, <2>6
    <3> QED
      BY <1>0, <1>1, <1>3, <2>2, <2>3, <2>4, <2>5, <3>1, StatesAre, ElemsEmpty
        DEF Advances, SameQueue, StateNames
  <2>7. CASE e.dispatchCount = 0
    <3>1. d = InitiateShutdown(e, w)
      BY <2>1, <2>7
    <3>2. PICK ms \in {<<>>, <<CloseConnection>>} : ShutDownFrom(e, d, ms)
      BY <1>1, <2>2, <2>4, <3>1, ShutdownKeeps
    <3>3. Flows(c, d, ms)
      <4>1. Pend(e) = Pend(c) /\ Queued(e) = Queued(c) /\ e.acked = c.acked
        BY <2>2, FlowsNothing DEF SameQueue
      <4> QED
        BY <3>2, <4>1 DEF ShutDownFrom, Flows
    <3>4. /\ Good(d) /\ (Timed(c) => Timed(d)) /\ SameWork(c, d) /\ d.written = c.written
          /\ d.shutdowns = 1 /\ d.exception = ex /\ d.state \in {4, 5} /\ d.dispatchCount = 0
      BY <2>2, <2>5, <2>7, <3>2, StatesAre DEF ShutDownFrom, SameWork, SameQueue, StateNames
    <3>5. Advances(c, d, ms)
      BY <1>0, <1>1, <1>3, <3>3, <3>4, StatesAre DEF Advances, StateNames
    <3>6. d.acked = c.acked
      BY <2>2, <3>2 DEF ShutDownFrom, SameQueue
    <3> QED
      BY <3>2, <3>4, <3>5, <3>6, StatesAre DEF StateNames
  <2> QED
    BY <2>6, <2>7
<1> QED
  BY <1>0, <1>2, <1>3, StatesAre DEF StateNames

\* setState(StateActive) sends nothing.
LEMMA AdvancesActive ==
    ASSUME NEW c, Good(c), c.state = StateHolding, NEW d, d = SetActive(c)
    PROVE  Advances(c, d, <<>>) /\ SameWork(c, d) /\ d.acked = c.acked /\ d.exception = c.exception
<1>0. c \in ConnectionRecord /\ StateActive \in StateNotInitialized .. StateFinished
  BY StatesAre DEF Good, StateNames
<1> DEFINE reg == c.reg \cup {"read"}
<1>1. d = [c EXCEPT !.state = StateActive, !.reg = reg]
  BY StatesAre DEF SetActive, StateNames
<1>7. reg \in SUBSET {"read", "write"} /\ ("write" \in reg => "write" \in c.reg)
  BY <1>0, RecordTypes
<1> HIDE DEF reg
<1>2. /\ d \in ConnectionRecord /\ SameQueue(c, d) /\ SameWork(c, d) /\ SameTimers(c, d)
      /\ d.state = StateActive /\ d.exception = c.exception /\ d.shutdowns = c.shutdowns
      /\ d.reaped = c.reaped /\ d.finishQueued = c.finishQueued /\ d.started = c.started
      /\ "write" \in d.reg => "write" \in c.reg
  BY <1>0, <1>1, <1>7 DEF ConnectionRecord, SameQueue, SameWork, SameTimers
<1>3. Flows(c, d, <<>>) /\ Queued(d) = Queued(c)
  BY <1>2, FlowsNothing
<1>4. Queue(d)
  BY <1>2, <1>3 DEF Queue, Good, SameQueue
<1>5. Sound(d)
  BY <1>2, StatesAre DEF Good, Sound, SameQueue, SameWork, StateNames
<1>6. Timed(c) => Timed(d)
  BY <1>2, StatesAre DEF Timed, SameQueue, SameTimers, StateNames
<1> QED
  BY <1>2, <1>3, <1>4, <1>5, <1>6, ElemsEmpty, StatesAre DEF Advances, Good, SameQueue, StateNames

\* setState(StateHolding) sends nothing.
LEMMA AdvancesHolding ==
    ASSUME NEW c, Good(c), c.state = StateActive, NEW d, d = SetHolding(c)
    PROVE  Advances(c, d, <<>>) /\ SameWork(c, d) /\ d.acked = c.acked /\ d.exception = c.exception
<1>0. c \in ConnectionRecord /\ StateHolding \in StateNotInitialized .. StateFinished
  BY StatesAre DEF Good, StateNames
<1> DEFINE reg == c.reg \ {"read"}
<1>1. d = [c EXCEPT !.state = StateHolding, !.reg = reg]
  BY DEF SetHolding
<1>7. reg \in SUBSET {"read", "write"} /\ ("write" \in reg => "write" \in c.reg)
  BY <1>0, RecordTypes
<1> HIDE DEF reg
<1>2. /\ d \in ConnectionRecord /\ SameQueue(c, d) /\ SameWork(c, d) /\ SameTimers(c, d)
      /\ d.state = StateHolding /\ d.exception = c.exception /\ d.shutdowns = c.shutdowns
      /\ d.reaped = c.reaped /\ d.finishQueued = c.finishQueued /\ d.started = c.started
      /\ "write" \in d.reg => "write" \in c.reg
  BY <1>0, <1>1, <1>7 DEF ConnectionRecord, SameQueue, SameWork, SameTimers
<1>3. Flows(c, d, <<>>) /\ Queued(d) = Queued(c)
  BY <1>2, FlowsNothing
<1>4. Queue(d)
  BY <1>2, <1>3 DEF Queue, Good, SameQueue
<1>5. Sound(d)
  BY <1>2, StatesAre DEF Good, Sound, SameQueue, SameWork, StateNames
<1>6. Timed(c) => Timed(d)
  BY <1>2, StatesAre DEF Timed, SameQueue, SameTimers, StateNames
<1> QED
  BY <1>2, <1>3, <1>4, <1>5, <1>6, ElemsEmpty, StatesAre DEF Advances, Good, SameQueue, StateNames

\* A dispatch or a callback ended.
LEMMA DispatchDoneKeeps ==
    ASSUME NEW c, Good(c), c.dispatchCount # 0, NEW d, d = DispatchDone(c)
    PROVE  /\ Advances(c, d, <<>>) /\ SameQueue(c, d) /\ d.requests = c.requests
           /\ d.dispatchCount = c.dispatchCount - 1
           /\ d.state = c.state /\ d.exception = c.exception /\ d.shutdowns = c.shutdowns
           /\ SameTimers(c, d)
<1>0. c \in ConnectionRecord /\ c.dispatchCount \in Nat \ {0} /\ c.reaped \in Nat
  BY RecordTypes DEF Good
<1> DEFINE b == [c EXCEPT !.dispatchCount = @ - 1]
<1>1. d = IF b.dispatchCount = 0 /\ b.state = StateFinished
          THEN [b EXCEPT !.reaped = @ + 1] ELSE b
  BY DEF DispatchDone
<1>2. /\ b \in ConnectionRecord /\ SameQueue(c, b) /\ SameTimers(c, b) /\ SameLife(c, b)
      /\ b.dispatchCount = c.dispatchCount - 1 /\ b.requests = c.requests /\ b.reg = c.reg
  <2> DEFINE k == c.dispatchCount - 1
  <2>1. k \in Nat /\ b = [c EXCEPT !.dispatchCount = k]
    BY <1>0
  <2> HIDE DEF k, b
  <2>2. /\ b \in ConnectionRecord /\ SameQueue(c, b) /\ SameTimers(c, b) /\ SameLife(c, b)
        /\ b.dispatchCount = k /\ b.requests = c.requests /\ b.reg = c.reg
    BY <1>0, <2>1 DEF ConnectionRecord, SameQueue, SameTimers, SameLife
  <2> QED
    BY <2>2 DEF k
<1> HIDE DEF b
<1>3. /\ d \in ConnectionRecord /\ SameQueue(c, d) /\ SameTimers(c, d)
      /\ d.dispatchCount = c.dispatchCount - 1 /\ d.requests = c.requests /\ d.reg = c.reg
      /\ d.state = c.state /\ d.exception = c.exception /\ d.shutdowns = c.shutdowns
      /\ d.finishQueued = c.finishQueued /\ d.startCallback = c.startCallback /\ d.started = c.started
      /\ d.reaped = IF c.dispatchCount = 1 /\ c.state = StateFinished THEN c.reaped + 1 ELSE c.reaped
  <2>1. CASE b.dispatchCount = 0 /\ b.state = StateFinished
    <3> DEFINE k == b.reaped + 1
    <3>0. b.reaped \in Nat
      BY <1>2, RecordTypes
    <3>1. k \in Nat /\ d = [b EXCEPT !.reaped = k]
      BY <1>1, <2>1, <3>0
    <3> HIDE DEF k
    <3>2. /\ d \in ConnectionRecord /\ SameQueue(b, d) /\ SameTimers(b, d) /\ d.reaped = k
          /\ d.dispatchCount = b.dispatchCount /\ d.requests = b.requests /\ d.reg = b.reg
          /\ d.state = b.state /\ d.exception = b.exception /\ d.shutdowns = b.shutdowns
          /\ d.finishQueued = b.finishQueued /\ d.startCallback = b.startCallback
          /\ d.started = b.started
      BY <1>2, <3>1 DEF ConnectionRecord, SameQueue, SameTimers
    <3> QED
      BY <1>0, <1>2, <2>1, <3>2 DEF k, SameQueue, SameTimers, SameLife
  <2>2. CASE ~(b.dispatchCount = 0 /\ b.state = StateFinished)
    BY <1>0, <1>1, <1>2, <2>2 DEF SameLife
  <2> QED
    BY <2>1, <2>2
<1>4. Flows(c, d, <<>>) /\ Queued(d) = Queued(c)
  BY <1>3, FlowsNothing
<1>5. Queue(d)
  BY <1>3, <1>4 DEF Queue, Good, SameQueue
<1>6. Sound(d)
  BY <1>0, <1>3, StatesAre DEF Good, Sound, SameQueue, StateNames
<1>7. Timed(c) => Timed(d)
  BY <1>3 DEF Timed, SameQueue, SameTimers
<1> QED
  BY <1>3, <1>4, <1>5, <1>6, <1>7, ElemsEmpty DEF Advances, Good, SameQueue

\* The establishment of a connection: only the server sends, the validation.
LEMMA AdvancesEstablish ==
    ASSUME NEW s \in Side, NEW c, Good(c), c.started, c.state <= StateNotValidated, c.out = <<>>,
           NEW how \in Steps, NEW d, d = Establish(s, c, how)
    PROVE  /\ Advances(c, d, <<>>) \/ Advances(c, d, <<ValidateConnection>>)
           /\ SameWork(c, d) /\ d.acked = c.acked
<1>0. /\ c \in ConnectionRecord /\ c.state \in {0, 1} /\ c.sendStreams = <<>> /\ c.shutdowns = 0
      /\ ~c.written /\ c.exception = NoException /\ ~c.finishQueued /\ c.reaped = 0
      /\ c.written = FALSE /\ c.finishQueued = FALSE /\ c.started = TRUE
  BY RecordTypes, StatesAre DEF Good, Sound, Queue, StateNames
<1>1. ASSUME NEW e \in ConnectionRecord, SameWork(c, e), e.sendStreams = <<>>, e.written = FALSE,
             e.acked = c.acked, e.exception = c.exception, e.started = TRUE, e.finishQueued = FALSE, e.reaped = 0,
             e.shutdowns = 0, e.state \in {0, 1} \/ (e.state = 3 /\ e.reg = {}),
             NEW ms \in {<<>>, <<ValidateConnection>>}, e.out = ms
      PROVE  Advances(c, e, ms)
  <2>1. Queue(e)
    BY <1>0, <1>1, ElemsEmpty DEF Queue, Queued
  <2>2. Sound(e)
    BY <1>0, <1>1, StatesAre DEF Good, Sound, SameWork, StateNames
  <2>3. Pend(e) = ms /\ Pend(c) = <<>> /\ <<>> \o ms = ms
    <3>1. ms \in Seq(Message)
      <4>1. <<ValidateConnection>> \in Seq(Message) /\ <<>> \in Seq(Message)
        BY EmptySeq, ElemsOne, MessageFields
      <4> QED
        BY <1>1, <4>1
    <3>2. <<>> \o ms = ms /\ ms \o <<>> = ms
      BY <3>1, ConcatEmptySeq
    <3>3. Unwritten(e) = <<>> /\ Unwritten(c) = <<>>
      BY <1>0, <1>1 DEF Unwritten
    <3>4. <<>> \o <<>> = <<>>
      BY ConcatEmptySeq, EmptySeq
    <3> QED
      BY <1>1, <3>2, <3>3, <3>4 DEF Pend
  <2>4. Reqs(ms) = {} /\ CloseConnection \notin Elems(ms)
    BY <1>1, ElemsEmpty, ElemsOne, MessageFields
  <2>5. Flows(c, e, ms)
    BY <1>0, <1>1, <2>3, <2>4 DEF Flows, Queued
  <2>6. Timed(e)
    BY <1>1 DEF Timed
  <2>7. e.state # 6 /\ c.state # 6 /\ ~(c.state >= 4) /\ ~(c.state >= 5)
    BY <1>0, <1>1
  <2>8. Good(e)
    BY <1>1, <2>1, <2>2 DEF Good
  <2> QED
    BY <1>0, <1>1, <2>4, <2>5, <2>6, <2>7, <2>8, StatesAre DEF Advances, StateNames
<1>2. /\ StateNotValidated \in StateNotInitialized .. StateFinished
      /\ StateHolding \in StateNotInitialized .. StateFinished
      /\ <<ValidateConnection>> \in Seq(Message)
  BY StatesAre, ElemsOne, MessageFields DEF StateNames
<1>3. CASE how = "connect"
  <2> DEFINE e == [c EXCEPT !.reg = {"write"}]
  <2>1. d = ScheduleWriteTimeout(e)
    BY <1>3 DEF Establish
  <2>2. /\ e \in ConnectionRecord /\ SameQueue(c, e) /\ SameWork(c, e) /\ SameLife(c, e)
    BY <1>0 DEF ConnectionRecord, SameQueue, SameWork, SameLife
  <2> HIDE DEF e
  <2>3. d \in ConnectionRecord /\ SameQueue(e, d) /\ SameLife(e, d) /\ SameWork(e, d)
    BY <2>1, <2>2, ScheduleWrite
  <2>4. /\ SameWork(c, d) /\ d.sendStreams = <<>> /\ d.written = FALSE /\ d.acked = c.acked
        /\ d.exception = c.exception /\ d.finishQueued = FALSE /\ d.reaped = 0 /\ d.shutdowns = 0
        /\ d.state \in {0, 1} /\ d.out = <<>> /\ d.started = TRUE
    BY <1>0, <2>2, <2>3 DEF SameQueue, SameLife, SameWork
  <2> QED
    BY <1>1, <2>3, <2>4
<1>4. CASE how = "validate"
  <2> DEFINE e == [c EXCEPT !.state = StateNotValidated, !.reg = IF s = "server" THEN {"write"} ELSE {"read"}]
  <2>1. d = ScheduleWriteTimeout(e) \/ d = ScheduleReadTimeout(e)
    BY <1>4 DEF Establish, Side
  <2>2. /\ e \in ConnectionRecord /\ SameQueue(c, e) /\ SameWork(c, e)
        /\ e.state = 1 /\ e.exception = c.exception /\ e.finishQueued = c.finishQueued
        /\ e.reaped = c.reaped /\ e.shutdowns = c.shutdowns /\ e.started = c.started
    BY <1>0, <1>2, StatesAre DEF ConnectionRecord, SameQueue, SameWork, StateNames
  <2> HIDE DEF e
  <2>3. d \in ConnectionRecord /\ SameQueue(e, d) /\ SameLife(e, d) /\ SameWork(e, d)
    BY <2>1, <2>2, ScheduleWrite, ScheduleRead
  <2>4. /\ SameWork(c, d) /\ d.sendStreams = <<>> /\ d.written = FALSE /\ d.acked = c.acked
        /\ d.exception = c.exception /\ d.finishQueued = FALSE /\ d.reaped = 0 /\ d.shutdowns = 0
        /\ d.state \in {0, 1} /\ d.out = <<>> /\ d.started = TRUE
    BY <1>0, <2>2, <2>3 DEF SameQueue, SameLife, SameWork
  <2> QED
    BY <1>1, <2>3, <2>4
<1>5. CASE how = "done"
  <2> DEFINE ms == IF s = "server" THEN <<ValidateConnection>> ELSE <<>>
  <2>1. d = [c EXCEPT !.state = StateHolding, !.reg = {}, !.out = ms]
    BY <1>5 DEF Establish
  <2>2. ms \in {<<>>, <<ValidateConnection>>} /\ ms \in Seq(Message)
    BY <1>2, EmptySeq
  <2> HIDE DEF ms
  <2>3. /\ d \in ConnectionRecord /\ SameWork(c, d) /\ d.sendStreams = c.sendStreams
        /\ d.written = c.written /\ d.acked = c.acked
        /\ d.exception = c.exception /\ d.finishQueued = c.finishQueued /\ d.reaped = c.reaped
        /\ d.shutdowns = c.shutdowns /\ d.state = StateHolding /\ d.out = ms /\ d.reg = {}
        /\ d.started = c.started
    BY ZenonT(60), <1>0, <1>2, <2>1, <2>2 DEF ConnectionRecord, SameWork
  <2>4. d.state = 3
    BY <2>3, StatesAre DEF StateNames
  <2> QED
    BY <1>0, <1>1, <2>2, <2>3, <2>4
<1>6. CASE how = "fail"
  <2>1. d = SetClosed(c, "other")
    BY <1>6 DEF Establish
  <2> QED
    BY <2>1, AdvancesClosed
<1> QED
  BY <1>3, <1>4, <1>5, <1>6 DEF Steps

\* Two steps that add nothing add nothing together.
LEMMA FlowsSame ==
    ASSUME NEW c, NEW d, NEW e, Good(c), Flows(c, d, <<>>), Flows(d, e, <<>>)
    PROVE  Flows(c, e, <<>>)
<1>1. <<>> \in Seq(Message) /\ <<>> \o <<>> = <<>>
  BY EmptySeq, ConcatEmptySeq
<1>2. Flows(c, e, <<>> \o <<>>)
  BY <1>1, FlowsOn
<1> QED
  BY <1>1, <1>2

\* A sequence that is not empty is its head and its tail.
LEMMA HeadAndTail ==
    ASSUME NEW q \in Seq(Message), q # <<>>
    PROVE  /\ Head(q) \in Message /\ Tail(q) \in Seq(Message) /\ <<Head(q)>> \in Seq(Message)
           /\ <<Head(q)>> \o Tail(q) = q
<1>1. /\ Head(q) \in Message /\ Tail(q) \in Seq(Message) /\ Head(q) = q[1]
      /\ Len(Tail(q)) = Len(q) - 1 /\ \A i \in 1 .. Len(Tail(q)) : Tail(q)[i] = q[i + 1]
      /\ Len(q) \in Nat \ {0}
  BY HeadTailProperties, EmptySeq
<1>2. <<Head(q)>> \in Seq(Message)
  BY <1>1, ElemsOne
<1> DEFINE h == <<Head(q)>>
           t == Tail(q)
<1>3. h \in Seq(Message) /\ Len(h) = 1 /\ h[1] = q[1]
  BY <1>1, <1>2
<1> HIDE DEF h, t
<1>4. /\ h \o t \in Seq(Message) /\ Len(h \o t) = Len(h) + Len(t)
      /\ \A i \in 1 .. Len(h) + Len(t) :
            (h \o t)[i] = IF i <= Len(h) THEN h[i] ELSE t[i - Len(h)]
  BY <1>1, <1>3, ConcatProperties DEF t
<1>5. Len(h \o t) = Len(q) /\ \A i \in 1 .. Len(q) : (h \o t)[i] = q[i]
  <2>1. Len(t) = Len(q) - 1 /\ \A i \in 1 .. Len(t) : t[i] = q[i + 1]
    BY <1>1 DEF t
  <2>2. Len(h \o t) = Len(q)
    BY <1>1, <1>3, <1>4, <2>1
  <2>3. ASSUME NEW i \in 1 .. Len(q) PROVE (h \o t)[i] = q[i]
    <3>1. CASE i = 1
      BY <3>1, <1>1, <1>3, <1>4, <2>1
    <3>2. CASE i # 1
      <4>1. i - 1 \in 1 .. Len(t) /\ i \in 1 .. Len(h) + Len(t) /\ ~(i <= Len(h))
        BY <3>2, <1>1, <1>3, <2>1
      <4>2. (h \o t)[i] = t[i - 1]
        BY <4>1, <1>3, <1>4
      <4>3. t[i - 1] = q[(i - 1) + 1]
        BY <4>1, <2>1
      <4> QED
        BY <4>2, <4>3
    <3> QED
      BY <3>1, <3>2
  <2> QED
    BY <2>2, <2>3
<1>6. h \o t = q
  BY <1>4, <1>5, SeqEqual
<1> QED
  BY <1>1, <1>2, <1>6 DEF h, t

\* The head of the queue goes to the socket.
LEMMA WriteHeadKeeps ==
    ASSUME NEW c, Good(c), c.sendStreams # <<>>, NEW d, d = WriteHead(c)
    PROVE  /\ Good(d) /\ Flows(c, d, <<>>) /\ SameLife(c, d) /\ SameWork(c, d) /\ SameTimers(c, d)
           /\ d.written /\ d.sendStreams = c.sendStreams /\ d.acked = c.acked
           /\ d.reg = c.reg /\ d.partial = c.partial
<1>0. /\ c \in ConnectionRecord /\ c.sendStreams \in Seq(Message) /\ c.out \in Seq(Message)
      /\ c.written \in BOOLEAN
  BY RecordTypes DEF Good
<1>1. CASE c.written
  <2>1. d = c
    BY <1>1 DEF WriteHead
  <2> QED
    BY <1>1, <2>1, FlowsNothing DEF SameQueue, SameLife, SameWork, SameTimers
<1>2. CASE ~c.written
  <2> DEFINE h == Head(c.sendStreams)
             out == Append(c.out, h)
  <2>1. d = [c EXCEPT !.out = out, !.written = TRUE]
    BY <1>2 DEF WriteHead
  <2>2. /\ h \in Message /\ Tail(c.sendStreams) \in Seq(Message) /\ <<h>> \in Seq(Message)
        /\ <<h>> \o Tail(c.sendStreams) = c.sendStreams
    BY <1>0, HeadAndTail
  <2> HIDE DEF h
  <2>3. out \in Seq(Message) /\ out = c.out \o <<h>>
    BY <1>0, <2>2, AppendProperties, AppendIsConcat
  <2> HIDE DEF out
  <2>4. /\ d \in ConnectionRecord /\ SameLife(c, d) /\ SameWork(c, d) /\ SameTimers(c, d)
        /\ d.written = TRUE /\ d.sendStreams = c.sendStreams /\ d.acked = c.acked /\ d.out = out
        /\ d.reg = c.reg /\ d.partial = c.partial
    BY <1>0, <2>1, <2>3 DEF ConnectionRecord, SameLife, SameWork, SameTimers
  <2>5. Pend(d) = Pend(c)
    <3>1. (c.out \o <<h>>) \o Tail(c.sendStreams) = c.out \o (<<h>> \o Tail(c.sendStreams))
      BY <1>0, <2>2, Regroup
    <3>2. Unwritten(c) = c.sendStreams /\ Unwritten(d) = Tail(c.sendStreams)
      BY <1>2, <2>4 DEF Unwritten
    <3> QED
      BY <2>2, <2>3, <2>4, <3>1, <3>2 DEF Pend
  <2>6. Flows(c, d, <<>>)
    <3>1. Pend(c) \o <<>> = Pend(c)
      BY PendType, ConcatEmptySeq
    <3> QED
      BY <2>4, <2>5, <3>1, ElemsEmpty DEF Flows, Queued
  <2>7. Queue(d)
    BY <2>4 DEF Queue, Queued, Good
  <2>8. Sound(d)
    BY <2>4 DEF Sound, Good, SameLife, SameWork
  <2> QED
    BY <2>4, <2>6, <2>7, <2>8 DEF Good
<1> QED
  BY <1>0, <1>1, <1>2

\* The first k messages of the queue are in the socket.
Pop(c, k) == [c EXCEPT !.sendStreams = Rest(c.sendStreams, k),
                       !.written = FALSE,
                       !.out = c.out \o Written(c.sendStreams, k),
                       !.acked = c.acked \cup Taken(c.sendStreams, k)]

\* The first k messages of the queue are in the socket: they are reported as sent.
LEMMA PopKeeps ==
    ASSUME NEW c, Good(c), c.written, NEW k \in 1 .. Len(c.sendStreams), NEW d, d = Pop(c, k)
    PROVE  /\ d \in ConnectionRecord /\ Queue(d) /\ Flows(c, d, <<>>)
           /\ SameLife(c, d) /\ SameWork(c, d) /\ SameTimers(c, d) /\ d.reg = c.reg
           /\ d.written = FALSE /\ d.partial = c.partial
           /\ d.sendStreams = <<>> <=> k = Len(c.sendStreams)
<1>0. /\ c \in ConnectionRecord /\ c.sendStreams \in Seq(Message) /\ c.out \in Seq(Message)
      /\ c.acked \subseteq Requests /\ Distinct(c.sendStreams) /\ c.sendStreams # <<>>
  BY RecordTypes DEF Good, Queue
<1> DEFINE q == c.sendStreams
           rest == Rest(q, k)
           more == Written(q, k)
           sent == Taken(q, k)
           out == c.out \o more
           acked == c.acked \cup sent
<1>1. d = [c EXCEPT !.sendStreams = rest, !.written = FALSE, !.out = out, !.acked = acked]
  BY DEF Pop
<1>2. /\ rest \in Seq(Message) /\ Distinct(rest) /\ (rest = <<>> <=> k = Len(q))
      /\ more \in Seq(Message) /\ more \o rest = Tail(q)
      /\ sent \subseteq Requests /\ sent \cup Reqs(rest) = Reqs(q) /\ sent \cap Reqs(rest) = {}
  BY <1>0, QueueSplit
<1> HIDE DEF rest, more, sent
<1>3. out \in Seq(Message) /\ acked \in SUBSET Requests
  BY <1>0, <1>2, ElemsConcat
<1> HIDE DEF out, acked
<1>4. /\ d \in ConnectionRecord /\ SameLife(c, d) /\ SameWork(c, d) /\ SameTimers(c, d)
      /\ d.reg = c.reg /\ d.partial = c.partial
      /\ d.written = FALSE /\ d.sendStreams = rest /\ d.acked = acked /\ d.out = out
  BY ZenonT(60), <1>0, <1>1, <1>2, <1>3 DEF ConnectionRecord, SameLife, SameWork, SameTimers
<1>5. Pend(d) = Pend(c)
  <2>1. (c.out \o more) \o rest = c.out \o (more \o rest)
    BY <1>0, <1>2, Regroup
  <2>2. Unwritten(c) = Tail(q) /\ Unwritten(d) = rest
    BY <1>4 DEF Unwritten
  <2> QED
    BY <1>2, <1>4, <2>1, <2>2 DEF Pend, out
<1>6. Flows(c, d, <<>>)
  <2>1. Pend(c) \o <<>> = Pend(c)
    BY PendType, ConcatEmptySeq
  <2>2. Queued(d) \cup d.acked = Queued(c) \cup c.acked
    BY <1>2, <1>4 DEF Queued, acked
  <2>3. c.acked \subseteq d.acked
    BY <1>4 DEF acked
  <2> QED
    BY <1>5, <2>1, <2>2, <2>3, ElemsEmpty DEF Flows
<1>7. Queue(d)
  <2>1. d.acked \cap Queued(d) = {}
    BY <1>2, <1>4 DEF Queued, acked, Good, Queue
  <2> QED
    BY <1>2, <1>4, <2>1 DEF Queue
<1> QED
  BY <1>2, <1>4, <1>6, <1>7 DEF q

\* The state stays, or a failure of the socket closes the connection.
MayClose(c, d) ==
    \/ d.state = c.state /\ d.exception = c.exception
    \/ /\ d.state = StateClosed /\ c.state < StateClosed
       /\ d.exception = IF c.exception = NoException THEN "other" ELSE c.exception

\* sendNextMessage().
LEMMA SendNextKeeps ==
    ASSUME NEW c, Good(c), c.written, c.state \in StateActive .. StateClosed,
           NEW n \in 0 .. Len(c.sendStreams) - 1, NEW fails \in BOOLEAN,
           NEW d, d = SendNextMessage(c, n, fails)
    PROVE  /\ Good(d) /\ Flows(c, d, <<>>) /\ SameWork(c, d) /\ Timed(d)
           /\ d.written = FALSE /\ d.shutdowns = c.shutdowns
           /\ MayClose(c, d)
<1>0. /\ c.sendStreams \in Seq(Message) /\ Len(c.sendStreams) \in Nat \ {0} /\ n + 1 \in 1 .. Len(c.sendStreams)
      /\ 1 \in 1 .. Len(c.sendStreams) /\ c.state \in 2 .. 5
  <2>1. c.sendStreams \in Seq(Message) /\ c.sendStreams # <<>>
    BY RecordTypes DEF Good, Queue
  <2>2. Len(c.sendStreams) \in Nat \ {0}
    BY <2>1, EmptySeq
  <2> QED
    BY <2>1, <2>2, StatesAre DEF StateNames
<1>00. PICK one : one = 1
  OBVIOUS
<1> DEFINE b == Pop(c, one)
           e == Pop(c, n + 1)
           f == [e EXCEPT !.reg = @ \ {"write"}]
<1>1. d = IF c.state >= StateClosed THEN b
          ELSE IF e.sendStreams # <<>>
               THEN IF fails THEN SetClosed(e, "other") ELSE ScheduleWriteTimeout(e)
          ELSE IF f.state = StateClosing THEN ScheduleWriteTimeout(f) ELSE f
  BY <1>00 DEF SendNextMessage, Pop, Taken, Written, Rest
<1>2. /\ b \in ConnectionRecord /\ Queue(b) /\ Flows(c, b, <<>>)
      /\ SameLife(c, b) /\ SameWork(c, b) /\ SameTimers(c, b) /\ b.reg = c.reg
      /\ b.written = FALSE
  <2>1. one \in 1 .. Len(c.sendStreams)
    BY <1>0, <1>00
  <2> QED
    BY <2>1, PopKeeps
<1>3. /\ e \in ConnectionRecord /\ Queue(e) /\ Flows(c, e, <<>>)
      /\ SameLife(c, e) /\ SameWork(c, e) /\ SameTimers(c, e) /\ e.reg = c.reg
      /\ e.written = FALSE
  <2> DEFINE k == n + 1
  <2>1. k \in 1 .. Len(c.sendStreams) /\ e = Pop(c, k)
    BY <1>0
  <2> HIDE DEF k, e
  <2> QED
    BY <2>1, PopKeeps
<1>4. /\ f \in ConnectionRecord /\ SameQueue(e, f) /\ SameLife(e, f) /\ SameWork(e, f)
      /\ "write" \notin f.reg
  <2> HIDE DEF e
  <2> DEFINE reg == e.reg \ {"write"}
  <2>1. reg \in SUBSET {"read", "write"} /\ "write" \notin reg /\ f = [e EXCEPT !.reg = reg]
    BY <1>3, RecordTypes
  <2> HIDE DEF reg, f
  <2> QED
    BY <1>3, <2>1 DEF ConnectionRecord, SameQueue, SameLife, SameWork
<1> HIDE DEF b, e, f
<1>5. (c.state >= StateClosed => Sound(b)) /\ (e.sendStreams # <<>> => Sound(e)) 
      /\ (c.state < StateClosed => Sound(f))
  <2>1. c.state >= StateClosed => Sound(b)
    BY <1>0, <1>2, StatesAre DEF Good, Sound, SameLife, SameWork, StateNames
  <2>2. e.sendStreams # <<>> => Sound(e)
    BY <1>0, <1>3, StatesAre DEF Good, Sound, SameLife, SameWork, StateNames
  <2>3. c.state < StateClosed => Sound(f)
    BY <1>0, <1>3, <1>4, StatesAre DEF Good, Sound, SameLife, SameWork, StateNames
  <2> QED
    BY <2>1, <2>2, <2>3
<1>6. CASE c.state >= StateClosed
  <2>1. d = b
    BY <1>1, <1>6
  <2>2. Timed(d)
    BY <1>0, <1>2, <1>6, <2>1, StatesAre DEF Timed, SameLife, StateNames
  <2> QED
    BY <1>2, <1>5, <1>6, <2>1, <2>2 DEF Good, SameLife, MayClose
<1>7. CASE c.state < StateClosed /\ e.sendStreams # <<>> /\ fails
  <2>1. d = SetClosed(e, "other") /\ Good(e)
    BY <1>0, <1>1, <1>3, <1>5, <1>7, StatesAre DEF StateNames, Good
  <2>2. /\ Good(d) /\ ClosedFrom(e, d) /\ Flows(e, d, <<>>) /\ Timed(d)
        /\ e.exception = NoException => d.exception = "other"
    BY <2>1, SetClosedKeeps
  <2>3. Flows(c, d, <<>>)
    BY <1>3, <2>2, FlowsSame
  <2>4. e.state = c.state /\ e.exception = c.exception /\ e.shutdowns = c.shutdowns /\ c.state < 5
    BY <1>0, <1>3, <1>7, StatesAre DEF SameLife, StateNames
  <2>5. MayClose(c, d)
    BY <1>0, <2>2, <2>4, StatesAre DEF ClosedFrom, StateNames, MayClose
  <2>6. SameWork(c, d) /\ d.written = FALSE /\ d.shutdowns = c.shutdowns
    BY <1>3, <2>2, <2>4 DEF ClosedFrom, SameWork, SameQueue
  <2> QED
    BY <2>2, <2>3, <2>5, <2>6
<1>8. CASE c.state < StateClosed /\ e.sendStreams # <<>> /\ ~fails
  <2>1. d = ScheduleWriteTimeout(e) /\ Good(e)
    BY <1>0, <1>1, <1>3, <1>5, <1>8, StatesAre DEF StateNames, Good
  <2>2. /\ d \in ConnectionRecord /\ SameQueue(e, d) /\ SameLife(e, d) /\ SameWork(e, d)
        /\ d.reg = e.reg /\ Timed(d)
    BY <2>1, ScheduleWrite DEF Good
  <2>3. Good(d) /\ Flows(e, d, <<>>)
    BY <2>1, <2>2, GoodKept
  <2>4. Flows(c, d, <<>>)
    BY <1>3, <2>3, FlowsSame
  <2> QED
    BY <1>3, <2>2, <2>3, <2>4 DEF SameLife, SameWork, SameQueue, MayClose
<1>9. CASE c.state < StateClosed /\ e.sendStreams = <<>>
  <2>1. d = IF f.state = StateClosing THEN ScheduleWriteTimeout(f) ELSE f
    BY <1>0, <1>1, <1>9, StatesAre DEF StateNames
  <2>2. Good(f) /\ Flows(c, f, <<>>)
    <3>1. Queued(f) = Queued(e) /\ Pend(f) = Pend(e) /\ f.acked = e.acked
      BY <1>4 DEF SameQueue, Queued, Pend, Unwritten
    <3>2. Queue(f) /\ Flows(c, f, <<>>)
      BY <1>3, <1>4, <3>1 DEF Queue, SameQueue, Flows
    <3> QED
      BY <1>4, <1>5, <1>9, <3>2 DEF Good
  <2>3. /\ Good(d) /\ SameQueue(f, d) /\ SameLife(f, d) /\ SameWork(f, d) /\ Flows(c, d, <<>>)
        /\ (f.state = StateClosing => Timed(d))
    <3>1. CASE f.state = StateClosing
      <4>1. d = ScheduleWriteTimeout(f)
        BY <2>1, <3>1
      <4>2. /\ d \in ConnectionRecord /\ SameQueue(f, d) /\ SameLife(f, d) /\ SameWork(f, d)
            /\ d.reg = f.reg /\ Timed(d)
        BY <2>2, <4>1, ScheduleWrite DEF Good
      <4>3. Good(d) /\ Flows(f, d, <<>>)
        BY <2>2, <4>2, GoodKept
      <4> QED
        BY <2>2, <4>2, <4>3, FlowsSame
    <3>2. CASE f.state # StateClosing
      BY <2>1, <2>2, <3>2 DEF SameQueue, SameLife, SameWork
    <3> QED
      BY <3>1, <3>2
  <2>4. Timed(d)
    <3>1. CASE f.state # StateClosing
      BY <1>0, <1>3, <1>4, <1>9, <2>3, <3>1, StatesAre DEF Timed, SameQueue, SameLife,
         StateNames, Good, Sound
    <3> QED
      BY <2>3, <3>1
  <2> QED
    BY <1>3, <1>4, <2>3, <2>4 DEF SameLife, SameWork, SameQueue, MayClose
<1>10. c.state >= StateClosed \/ c.state < StateClosed
  BY <1>0, StatesAre DEF StateNames
<1> QED
  BY <1>6, <1>7, <1>8, <1>9, <1>10

-----------------------------------------------------------------------------
(* What the handlers do with the record.                                   *)

\* parseMessage(): a reply finds its request.
LEMMA ParseKeeps ==
    ASSUME NEW c, Good(c), c.state \in StateActive .. StateClosing, NEW m \in Message,
           m.type = "reply" => m.req \in c.requests,
           NEW d, d = ParseMessage([c EXCEPT !.partial = FALSE], m)
    PROVE  /\ Good(d) /\ Flows(c, d, <<>>) /\ SameQueue(c, d) /\ d.shutdowns = c.shutdowns
           /\ Timed(c) => Timed(d)
           /\ d.requests = c.requests \ Replied(c, m)
           /\ d.dispatchCount = c.dispatchCount + (IF Dispatched(c, m) = {} THEN 0 ELSE 1)
           /\ m.type # "close" => d.state = c.state /\ d.exception = c.exception
           /\ m.type = "close" => /\ d.state = StateClosed
                                  /\ d.exception = IF c.exception = NoException THEN "close" ELSE c.exception
<1> DEFINE b == [c EXCEPT !.partial = FALSE]
<1>0. c \in ConnectionRecord /\ c.state \in 2 .. 4 /\ c.dispatchCount \in Nat
  BY RecordTypes, StatesAre DEF Good, StateNames
<1>1. /\ b \in ConnectionRecord /\ SameQueue(c, b) /\ SameLife(c, b) /\ SameWork(c, b) /\ SameTimers(c, b)
      /\ b.reg = c.reg
  BY <1>0 DEF ConnectionRecord, SameQueue, SameLife, SameWork, SameTimers
<1>2. d = ParseMessage(b, m)
  OBVIOUS
<1> HIDE DEF b
<1>3. Good(b) /\ Flows(c, b, <<>>)
  BY <1>1, GoodKept
<1>4. Timed(c) => Timed(b)
  BY <1>1 DEF Timed, SameQueue, SameLife, SameTimers
<1>5. m.type \in {"request", "reply", "close", "validate"}
  BY MessageKinds
<1>6. CASE m.type = "close"
  <2>1. d = SetClosed(b, "close")
    BY <1>2, <1>6 DEF ParseMessage
  <2>2. /\ Good(d) /\ ClosedFrom(b, d) /\ Flows(b, d, <<>>) /\ Timed(d)
        /\ b.exception = NoException => d.exception = "close"
    BY <1>3, <2>1, SetClosedKeeps
  <2>3. Flows(c, d, <<>>)
    BY <1>3, <2>2, FlowsSame
  <2>4. Replied(c, m) = {} /\ Dispatched(c, m) = {}
    BY <1>6 DEF Replied, Dispatched
  <2>5. /\ SameQueue(c, d) /\ d.shutdowns = c.shutdowns /\ d.requests = c.requests
        /\ d.dispatchCount = c.dispatchCount /\ d.state = StateClosed
    BY <1>0, <1>1, <2>2, StatesAre DEF ClosedFrom, SameQueue, SameLife, SameWork, StateNames
  <2>6. d.exception = IF c.exception = NoException THEN "close" ELSE c.exception
    BY <1>1, <2>2 DEF ClosedFrom, SameLife
  <2> QED
    BY <1>0, <1>6, <2>2, <2>3, <2>4, <2>5, <2>6
<1>7. ASSUME NEW x, x \in ConnectionRecord, SameQueue(b, x), SameLife(b, x), SameTimers(b, x), x.reg = b.reg,
             b.state # StateFinished
      PROVE  Good(x) /\ Flows(c, x, <<>>) /\ SameQueue(c, x) /\ (Timed(c) => Timed(x)) /\ SameLife(c, x)
  <2>1. Flows(b, x, <<>>) /\ Queued(x) = Queued(b)
    BY <1>3, <1>7, FlowsNothing
  <2>2. Queue(x)
    BY <1>3, <1>7, <2>1 DEF Queue, Good, SameQueue
  <2>3. Sound(x)
    BY <1>0, <1>1, <1>3, <1>7, StatesAre DEF Good, Sound, SameQueue, SameLife, StateNames
  <2>4. Flows(c, x, <<>>)
    BY <1>3, <2>1, FlowsSame
  <2>5. Timed(c) => Timed(x)
    BY <1>4, <1>7 DEF Timed, SameQueue, SameLife, SameTimers
  <2> QED
    BY <1>1, <1>7, <2>2, <2>3, <2>4, <2>5 DEF Good, SameQueue, SameLife
<1>8. b.state # StateFinished
  BY <1>0, <1>1, StatesAre DEF SameLife, StateNames
<1>9. CASE m.type = "request"
  <2>1. Replied(c, m) = {}
    BY <1>9 DEF Replied
  <2>2. CASE c.state = StateClosing
    <3>1. d = b
      BY <1>1, <1>2, <1>9, <2>2 DEF ParseMessage, SameLife
    <3>2. Dispatched(c, m) = {}
      BY <2>2 DEF Dispatched
    <3> QED
      BY <1>0, <1>1, <1>3, <1>4, <1>9, <2>1, <3>1, <3>2 DEF SameLife, SameWork
  <2>3. CASE c.state # StateClosing
    <3> DEFINE k == b.dispatchCount + 1
    <3>1. d = [b EXCEPT !.dispatchCount = k]
      BY <1>1, <1>2, <1>9, <2>3 DEF ParseMessage, SameLife
    <3>2. Dispatched(c, m) # {}
      BY <1>9, <2>3 DEF Dispatched
    <3>3. k \in Nat /\ k = c.dispatchCount + 1
      BY <1>0, <1>1 DEF SameWork
    <3> HIDE DEF k
    <3>4. /\ d \in ConnectionRecord /\ SameQueue(b, d) /\ SameLife(b, d) /\ SameTimers(b, d) /\ d.reg = b.reg
          /\ d.dispatchCount = k /\ d.requests = b.requests
      BY <1>1, <3>1, <3>3 DEF ConnectionRecord, SameQueue, SameLife, SameTimers
    <3>5. Good(d) /\ Flows(c, d, <<>>) /\ SameQueue(c, d) /\ (Timed(c) => Timed(d)) /\ SameLife(c, d)
      BY <1>7, <1>8, <3>4
    <3> QED
      BY <1>1, <1>9, <2>1, <3>2, <3>3, <3>4, <3>5 DEF SameLife, SameWork
  <2> QED
    BY <2>2, <2>3
<1>10. CASE m.type = "reply"
  <2>1. Replied(c, m) = {m.req} /\ Dispatched(c, m) = {}
    BY <1>10 DEF Replied, Dispatched
  <2> DEFINE rq == b.requests \ {m.req}
  <2>2. d = [b EXCEPT !.requests = rq]
    BY <1>1, <1>2, <1>10 DEF ParseMessage, SameWork
  <2>3. rq \in SUBSET Requests /\ rq = c.requests \ {m.req}
    BY <1>1, RecordTypes DEF SameWork
  <2> HIDE DEF rq
  <2>4. /\ d \in ConnectionRecord /\ SameQueue(b, d) /\ SameLife(b, d) /\ SameTimers(b, d) /\ d.reg = b.reg
        /\ d.dispatchCount = b.dispatchCount /\ d.requests = rq
    BY <1>1, <2>2, <2>3 DEF ConnectionRecord, SameQueue, SameLife, SameTimers
  <2>5. Good(d) /\ Flows(c, d, <<>>) /\ SameQueue(c, d) /\ (Timed(c) => Timed(d)) /\ SameLife(c, d)
    BY <1>7, <1>8, <2>4
  <2>6. d.dispatchCount = c.dispatchCount + (IF Dispatched(c, m) = {} THEN 0 ELSE 1)
    BY <1>0, <1>1, <2>1, <2>4 DEF SameWork
  <2>7. d.requests = c.requests \ Replied(c, m)
    BY <2>1, <2>3, <2>4
  <2> QED
    BY <1>10, <2>5, <2>6, <2>7 DEF SameLife
<1>11. CASE m.type = "validate"
  <2>1. d = b
    BY <1>2, <1>11 DEF ParseMessage
  <2>2. Replied(c, m) = {} /\ Dispatched(c, m) = {}
    BY <1>11 DEF Replied, Dispatched
  <2> QED
    BY <1>0, <1>1, <1>3, <1>4, <1>11, <2>1, <2>2 DEF SameLife, SameWork
<1> QED
  BY <1>5, <1>6, <1>9, <1>10, <1>11

\* Without combined events the selector reports one operation.
LEMMA OneOperation ==
    ASSUME NEW c, NEW op \in Operations, Ready(c, op), ~CombinedEvents
    PROVE  op = {"read"} \/ op = {"write"}
<1>1. Cardinality({"read", "write"}) # 1
  <2>1. IsFiniteSet({"read"}) /\ Cardinality({"read"}) = 1
    BY FS_Singleton
  <2>2. Cardinality({"read"} \cup {"write"}) = 2
    BY <2>1, FS_AddElement
  <2>3. {"read"} \cup {"write"} = {"read", "write"}
    OBVIOUS
  <2> QED
    BY <2>2, <2>3
<1> QED
  BY <1>1 DEF Operations, Ready

\* message() read m, which answers the requests rp and starts j dispatches, and
\* the head of the queue is in the socket.
HasRead(c, d, op, m, rp, j) ==
    /\ Good(d) /\ Flows(c, d, <<>>) /\ d.shutdowns = c.shutdowns
    /\ d.requests = c.requests \ rp /\ d.dispatchCount = c.dispatchCount + j
    /\ "write" \in op => d.written
    /\ "write" \notin op => d.written = c.written /\ (Timed(c) => Timed(d))
    /\ d.state \in 2 .. 5 /\ (c.state = 4 => d.state \in 4 .. 5)
    /\ c.exception # NoException => d.exception = c.exception
    /\ d.exception = "close" => c.exception = "close" \/ ("read" \in op /\ m.type = "close")
    /\ "read" \in op /\ m.type = "close" => d.state = 5

\* The part of message() that reads, and the part that writes.
HeadWritten(c, op) ==
    IF "write" \in op THEN WriteHead(UnscheduleTimeout(c, op)) ELSE UnscheduleTimeout(c, op)
Parsed(c, op, m) ==
    IF "read" \in op THEN ParseMessage([HeadWritten(c, op) EXCEPT !.partial = FALSE], m)
    ELSE HeadWritten(c, op)
RepliedBy(c, op, m) == IF "read" \in op THEN Replied(HeadWritten(c, op), m) ELSE {}
StartedBy(c, op, m) == IF "read" \in op THEN Dispatched(HeadWritten(c, op), m) ELSE {}
WrittenNext(c, op, n, fails) == IF "write" \in op THEN SendNextMessage(c, n, fails) ELSE c
Counted(c, calls) == [c EXCEPT !.dispatchCount = @ + Cardinality(calls)]

\* How many messages more than the head can be written.
WriteBound(c, op) == IF "write" \in op THEN Len(c.sendStreams) - 1 ELSE 0

\* message() reads: the record, the replies it takes and the dispatch it starts.
LEMMA ReadKeeps ==
    ASSUME NEW c, Good(c), NEW op \in Operations, Ready(c, op), NEW m,
           "read" \in op => m \in Message /\ (m.type = "reply" => m.req \in c.requests),
           NEW c2, c2 = Parsed(c, op, m), NEW rp, rp = RepliedBy(c, op, m),
           NEW st, st = StartedBy(c, op, m), NEW j, j = IF st = {} THEN 0 ELSE 1
    PROVE  /\ HasRead(c, c2, op, m, rp, j)
           /\ "read" \in op => rp = Replied(c, m) /\ st = Dispatched(c, m)
<1> DEFINE c0 == UnscheduleTimeout(c, op)
           c1 == HeadWritten(c, op)
<1>a. /\ c0 = UnscheduleTimeout(c, op)
      /\ c1 = IF "write" \in op THEN WriteHead(c0) ELSE c0
      /\ c2 = IF "read" \in op THEN ParseMessage([c1 EXCEPT !.partial = FALSE], m) ELSE c1
      /\ rp = IF "read" \in op THEN Replied(c1, m) ELSE {}
      /\ st = IF "read" \in op THEN Dispatched(c1, m) ELSE {}
  BY DEF HeadWritten, Parsed, RepliedBy, StartedBy
<1> HIDE DEF c0, c1
<1> USE <1>a
<1>0. /\ c \in ConnectionRecord /\ c.state \in 2 .. 4 /\ c.dispatchCount \in Nat /\ op \subseteq c.reg
      /\ c.requests \subseteq Requests
  BY RecordTypes, StatesAre DEF Good, StateNames, Ready
<1>1. /\ c0 \in ConnectionRecord /\ SameQueue(c, c0) /\ SameLife(c, c0) /\ SameWork(c, c0)
      /\ c0.reg = c.reg /\ ("write" \notin op /\ Timed(c) => Timed(c0))
  BY <1>0, Unschedule
<1>2. Good(c0) /\ Flows(c, c0, <<>>)
  BY <1>1, GoodKept
<1>3. "write" \in op => c0.sendStreams # <<>>
  BY <1>0, <1>1, StatesAre DEF Good, Sound, SameQueue, StateNames
<1>4. /\ Good(c1) /\ Flows(c, c1, <<>>) /\ SameLife(c, c1) /\ SameWork(c, c1)
      /\ "write" \in op => c1.written
      /\ "write" \notin op => c1.written = c.written /\ (Timed(c) => Timed(c1))
  <2>1. CASE "write" \in op
    <3>1. /\ Good(c1) /\ Flows(c0, c1, <<>>) /\ SameLife(c0, c1) /\ SameWork(c0, c1) /\ c1.written
      BY <1>2, <1>3, <2>1, WriteHeadKeeps
    <3>2. Flows(c, c1, <<>>)
      BY <1>2, <3>1, FlowsSame
    <3> QED
      BY <1>1, <2>1, <3>1, <3>2 DEF SameLife, SameWork
  <2>2. CASE "write" \notin op
    BY <1>1, <1>2, <2>2 DEF SameQueue
  <2> QED
    BY <2>1, <2>2
<1>5. /\ c1.state = c.state /\ c1.exception = c.exception /\ c1.requests = c.requests
      /\ c1.dispatchCount = c.dispatchCount /\ c1.shutdowns = c.shutdowns
  BY <1>4 DEF SameLife, SameWork
<1>6. "read" \in op => rp = Replied(c, m) /\ st = Dispatched(c, m)
  BY <1>5 DEF Replied, Dispatched
<1>7. /\ Good(c2) /\ Flows(c, c2, <<>>) /\ c2.shutdowns = c.shutdowns
      /\ c2.requests = c.requests \ rp
      /\ c2.dispatchCount = c.dispatchCount + j
      /\ c2.written = c1.written /\ (Timed(c1) => Timed(c2))
      /\ c2.state \in 2 .. 5 /\ (c.state = 4 => c2.state \in 4 .. 5)
      /\ c.exception # NoException => c2.exception = c.exception
      /\ c2.exception = "close" => c.exception = "close" \/ ("read" \in op /\ m.type = "close")
      /\ "read" \in op /\ m.type = "close" => c2.state = 5
  <2>1. CASE "read" \in op
    <3>1. c2 = ParseMessage([c1 EXCEPT !.partial = FALSE], m) /\ m \in Message
          /\ (m.type = "reply" => m.req \in c1.requests) /\ c1.state \in StateActive .. StateClosing
      BY <1>0, <1>5, <2>1, StatesAre DEF StateNames
    <3>2. /\ Good(c2) /\ Flows(c1, c2, <<>>) /\ SameQueue(c1, c2) /\ c2.shutdowns = c1.shutdowns
          /\ Timed(c1) => Timed(c2)
          /\ c2.requests = c1.requests \ Replied(c1, m)
          /\ c2.dispatchCount = c1.dispatchCount + (IF Dispatched(c1, m) = {} THEN 0 ELSE 1)
          /\ m.type # "close" => c2.state = c1.state /\ c2.exception = c1.exception
          /\ m.type = "close" =>
                /\ c2.state = StateClosed
                /\ c2.exception = IF c1.exception = NoException THEN "close" ELSE c1.exception
      BY <1>4, <3>1, ParseKeeps
    <3>3. Flows(c, c2, <<>>)
      BY <1>4, <3>2, FlowsSame
    <3>4. c2.requests = c.requests \ rp
      BY <1>5, <2>1, <3>2
    <3>5. c2.dispatchCount = c.dispatchCount + j
      BY <1>5, <2>1, <3>2
    <3>6. CASE m.type # "close"
      <4>1. c2.state = c.state /\ c2.exception = c.exception
        BY <1>5, <3>2, <3>6
      <4>2. /\ c2.state \in 2 .. 5 /\ (c.state = 4 => c2.state \in 4 .. 5)
            /\ c.exception # NoException => c2.exception = c.exception
            /\ c2.exception = "close" => c.exception = "close"
        BY <1>0, <4>1
      <4> QED
        BY <1>5, <3>2, <3>3, <3>4, <3>5, <3>6, <4>2 DEF SameQueue
    <3>7. CASE m.type = "close"
      <4>1. c2.state = 5 /\ (c.exception # NoException => c2.exception = c.exception)
        BY <1>5, <3>2, <3>7, StatesAre DEF StateNames
      <4>2. c2.state \in 2 .. 5 /\ (c.state = 4 => c2.state \in 4 .. 5)
        BY <4>1
      <4> QED
        BY <1>5, <2>1, <3>2, <3>3, <3>4, <3>5, <3>7, <4>1, <4>2 DEF SameQueue
    <3> QED
      BY <3>6, <3>7
  <2>2. CASE "read" \notin op
    BY <1>0, <1>4, <1>5, <2>2
  <2> QED
    BY <2>1, <2>2
<1> QED
  BY <1>4, <1>6, <1>7 DEF HasRead

\* What message() does after reading: n more messages are written, calls are counted.
HasWritten(c, op, m, rp, j, c2, n, fails, c3, calls, e) ==
    /\ Good(c) /\ c.state \in 2 .. 4 /\ j \in Nat /\ HasRead(c, c2, op, m, rp, j)
    /\ n \in 0 .. WriteBound(c2, op) /\ fails \in BOOLEAN
    /\ c3 = WrittenNext(c2, op, n, fails)
    /\ e = Counted(c3, calls) /\ Cardinality(calls) \in Nat

\* message() then writes what the socket takes, and counts the callbacks to call.
LEMMA WriteKeeps ==
    ASSUME NEW c, NEW op, NEW m, NEW rp, NEW j, NEW c2, NEW n, NEW fails, NEW c3, NEW calls, NEW e,
           HasWritten(c, op, m, rp, j, c2, n, fails, c3, calls, e)
    PROVE  /\ Advances(c, e, <<>>) /\ e.acked = c3.acked /\ e.shutdowns = c.shutdowns
           /\ e.requests = c.requests \ rp
           /\ e.dispatchCount = c.dispatchCount + j + Cardinality(calls)
           /\ e.exception = "close" => c.exception = "close" \/ ("read" \in op /\ m.type = "close")
           /\ "read" \in op /\ m.type = "close" => e.state >= StateClosed
<1> DEFINE k == Cardinality(calls)
<1>a. /\ Good(c) /\ c.state \in 2 .. 4 /\ j \in Nat /\ HasRead(c, c2, op, m, rp, j)
      /\ fails \in BOOLEAN /\ n \in 0 .. (IF "write" \in op THEN Len(c2.sendStreams) - 1 ELSE 0)
      /\ c3 = IF "write" \in op THEN SendNextMessage(c2, n, fails) ELSE c2
      /\ e = [c3 EXCEPT !.dispatchCount = @ + k] /\ k \in Nat
  BY DEF HasWritten, WriteBound, WrittenNext, Counted
<1> HIDE DEF k
<1> USE <1>a
<1>0. /\ c \in ConnectionRecord /\ c.dispatchCount \in Nat
  BY RecordTypes DEF Good
<1>7. /\ Good(c2) /\ Flows(c, c2, <<>>) /\ c2.shutdowns = c.shutdowns
      /\ c2.requests = c.requests \ rp
      /\ c2.dispatchCount = c.dispatchCount + j
      /\ "write" \in op => c2.written
      /\ "write" \notin op => c2.written = c.written /\ (Timed(c) => Timed(c2))
      /\ c2.state \in 2 .. 5 /\ (c.state = 4 => c2.state \in 4 .. 5)
      /\ c.exception # NoException => c2.exception = c.exception
      /\ c2.exception = "close" => c.exception = "close" \/ ("read" \in op /\ m.type = "close")
      /\ "read" \in op /\ m.type = "close" => c2.state = 5
  BY DEF HasRead
<1>8. /\ Good(c3) /\ Flows(c, c3, <<>>) /\ SameWork(c2, c3) /\ c3.shutdowns = c.shutdowns
      /\ MayClose(c2, c3)
      /\ Timed(c) => Timed(c3)
      /\ ~c.written => ~c3.written
  <2>1. CASE "write" \in op
    <3>1. c3 = SendNextMessage(c2, n, fails) /\ n \in 0 .. Len(c2.sendStreams) - 1 /\ c2.written
          /\ c2.state \in StateActive .. StateClosed
      BY <1>7, <2>1, StatesAre DEF StateNames
    <3>2. /\ Good(c3) /\ Flows(c2, c3, <<>>) /\ SameWork(c2, c3) /\ Timed(c3)
          /\ c3.written = FALSE /\ c3.shutdowns = c2.shutdowns /\ MayClose(c2, c3)
      <4>1. Good(c2)
        BY <1>7
      <4> QED
        BY <4>1, <3>1, SendNextKeeps
    <3>3. Flows(c, c3, <<>>)
      BY <1>7, <3>2, FlowsSame
    <3> QED
      BY <1>7, <3>2, <3>3
  <2>2. CASE "write" \notin op
    BY <1>7, <2>2 DEF SameWork, MayClose
  <2> QED
    BY <2>1, <2>2
<1>9. /\ e \in ConnectionRecord /\ SameQueue(c3, e) /\ SameLife(c3, e) /\ SameTimers(c3, e)
      /\ e.requests = c3.requests /\ e.dispatchCount = c3.dispatchCount + k /\ e.reg = c3.reg
  <2> DEFINE cnt == c3.dispatchCount + k
  <2>1. cnt \in Nat /\ e = [c3 EXCEPT !.dispatchCount = cnt] /\ c3 \in ConnectionRecord
    BY <1>8, RecordTypes DEF Good
  <2> HIDE DEF cnt
  <2>2. /\ e \in ConnectionRecord /\ SameQueue(c3, e) /\ SameLife(c3, e) /\ SameTimers(c3, e)
        /\ e.requests = c3.requests /\ e.dispatchCount = cnt /\ e.reg = c3.reg
    BY <2>1 DEF ConnectionRecord, SameQueue, SameLife, SameTimers
  <2> QED
    BY <2>2 DEF cnt
<1>10. /\ c3.state \in 2 .. 5 /\ (c.state = 4 => c3.state \in 4 .. 5)
       /\ c.exception # NoException => c3.exception = c.exception
       /\ c3.exception = "close" => c.exception = "close" \/ ("read" \in op /\ m.type = "close")
       /\ "read" \in op /\ m.type = "close" => c3.state = 5
  BY <1>7, <1>8, StatesAre DEF MayClose, StateNames, NoException
<1>11. Good(e) /\ Flows(c, e, <<>>)
  <2>1. Flows(c3, e, <<>>) /\ Queued(e) = Queued(c3)
    BY <1>8, <1>9, FlowsNothing
  <2>2. Queue(e)
    BY <1>8, <1>9, <2>1 DEF Queue, Good, SameQueue
  <2>3. Sound(e)
    <3>1. Sound(c3) /\ e.requests = c3.requests /\ c3.reaped \in Nat
      BY <1>8, <1>9, RecordTypes DEF Good
    <3> QED
      BY <1>9, <1>10, <3>1, StatesAre DEF Sound, SameQueue, SameLife, StateNames
  <2>4. Flows(c, e, <<>>)
    BY <1>8, <2>1, FlowsSame
  <2> QED
    BY <1>9, <2>2, <2>3, <2>4 DEF Good
<1>12. Timed(c) => Timed(e)
  BY <1>8, <1>9 DEF Timed, SameQueue, SameLife, SameTimers
<1>13. e.shutdowns = c.shutdowns /\ e.state = c3.state /\ e.exception = c3.exception /\ e.written = c3.written
  BY <1>8, <1>9 DEF SameLife, SameQueue
<1>14. Advances(c, e, <<>>)
  <2>1. /\ c.state >= 4 => e.state >= 4
        /\ c.state >= 5 => e.state >= 5
        /\ e.state # 6 /\ c.state # 6
        /\ c.exception # NoException => e.exception = c.exception
    BY <1>0, <1>10, <1>13
  <2>2. CloseConnection \notin Elems(<<>>)
    BY ElemsEmpty
  <2>3. ~c.written => ~e.written
    BY <1>8, <1>13
  <2> QED
    BY <1>11, <1>12, <1>13, <2>1, <2>2, <2>3, StatesAre DEF Advances, StateNames
<1>15. e.dispatchCount = c.dispatchCount + j + k
  BY <1>0, <1>7, <1>8, <1>9 DEF SameWork
<1>16. e.requests = c.requests \ rp
  BY <1>7, <1>8, <1>9 DEF SameWork
<1>17. /\ e.acked = c3.acked
       /\ e.exception = "close" => c.exception = "close" \/ ("read" \in op /\ m.type = "close")
       /\ "read" \in op /\ m.type = "close" => e.state >= StateClosed
  BY <1>9, <1>10, <1>13, StatesAre DEF SameQueue, StateNames
<1> QED
  BY <1>13, <1>14, <1>15, <1>16, <1>17 DEF k
\* A step that follows one that left the queue and the state alone.
LEMMA AdvancesThen ==
    ASSUME NEW c, Good(c), NEW b, SameQueue(c, b), b.state = c.state, b.exception = c.exception,
           b.shutdowns = c.shutdowns, ~CombinedEvents => (Timed(c) => Timed(b)),
           NEW d, NEW ms, Advances(b, d, ms)
    PROVE  Advances(c, d, ms)
<1>1. Pend(b) = Pend(c) /\ Queued(b) = Queued(c) /\ b.acked = c.acked /\ b.written = c.written
  BY FlowsNothing DEF SameQueue
<1>2. Flows(c, d, ms)
  BY <1>1 DEF Advances, Flows
<1> QED
  BY <1>1, <1>2 DEF Advances

\* What a step does to the invocations and the dispatches of its end: nothing.
SameCalls(c, d) == SameWork(c, d) /\ d.acked = c.acked

\* start().
LEMMA StartKeeps ==
    ASSUME NEW c, Good(c), NEW flag \in BOOLEAN, NEW b,
           \/ b = [c EXCEPT !.started = TRUE]
           \/ /\ c.state < StateClosed
              /\ b = [c EXCEPT !.started = TRUE, !.startCallback = flag]
    PROVE  /\ Good(b) /\ SameQueue(c, b) /\ SameCalls(c, b) /\ b.state = c.state
           /\ b.exception = c.exception /\ b.shutdowns = c.shutdowns /\ b.started
           /\ Timed(c) => Timed(b)
<1>0. c \in ConnectionRecord /\ c.state \in 0 .. 6
  BY RecordTypes DEF Good
<1>1. /\ b \in ConnectionRecord /\ SameQueue(c, b) /\ SameWork(c, b) /\ SameTimers(c, b)
      /\ b.state = c.state /\ b.exception = c.exception /\ b.shutdowns = c.shutdowns
      /\ b.finishQueued = c.finishQueued /\ b.reaped = c.reaped /\ b.reg = c.reg
      /\ b.startCallback = c.startCallback \/ c.state < StateClosed
      /\ b.started = TRUE
  BY ZenonT(60), <1>0 DEF ConnectionRecord, SameQueue, SameWork, SameTimers
<1>2. Queued(b) = Queued(c)
  BY <1>1, FlowsNothing
<1>3. Queue(b)
  BY <1>1, <1>2 DEF Queue, Good, SameQueue
<1>4. Sound(b)
  BY <1>0, <1>1, StatesAre DEF Sound, Good, SameQueue, SameWork, StateNames
<1>5. Timed(c) => Timed(b)
  BY <1>1 DEF Timed, SameQueue, SameTimers
<1> QED
  BY <1>1, <1>3, <1>4, <1>5 DEF Good, SameCalls, SameQueue

\* message() while the connection is established.
Resumes(c, how) == [UnscheduleTimeout(c, c.reg) EXCEPT !.startCallback = @ /\ how # "done"]

\* message() during establishment cancels the timeout and may drop the start callback.
LEMMA CallbackKeeps ==
    ASSUME NEW c, Good(c), c.started, c.state <= StateNotValidated, NEW how, NEW b,
           b = Resumes(c, how)
    PROVE  /\ Good(b) /\ SameQueue(c, b) /\ SameCalls(c, b) /\ b.state = c.state
           /\ b.exception = c.exception /\ b.shutdowns = c.shutdowns /\ Timed(b) /\ b.started
<1>0. c \in ConnectionRecord /\ c.state \in {0, 1} /\ c.started = TRUE
  BY RecordTypes, StatesAre DEF Good, StateNames
<1> DEFINE a == UnscheduleTimeout(c, c.reg)
           flag == a.startCallback /\ how # "done"
<1>1. a \in ConnectionRecord /\ SameQueue(c, a) /\ SameLife(c, a) /\ SameWork(c, a) /\ a.reg = c.reg
  BY <1>0, Unschedule
<1> HIDE DEF a
<1>2. flag \in BOOLEAN /\ b = [a EXCEPT !.startCallback = flag]
  BY <1>1, RecordTypes DEF a, Resumes
<1> HIDE DEF flag
<1>3. /\ b \in ConnectionRecord /\ SameQueue(a, b) /\ SameWork(a, b)
      /\ b.state = a.state /\ b.exception = a.exception /\ b.shutdowns = a.shutdowns
      /\ b.finishQueued = a.finishQueued /\ b.reaped = a.reaped /\ b.reg = a.reg
      /\ b.started = a.started
  BY SMTT(30), <1>1, <1>2 DEF ConnectionRecord, SameQueue, SameWork
<1>4. /\ SameQueue(c, b) /\ SameWork(c, b) /\ b.state = c.state /\ b.exception = c.exception
      /\ b.shutdowns = c.shutdowns /\ b.finishQueued = c.finishQueued /\ b.reaped = c.reaped
      /\ b.reg = c.reg /\ b.started = c.started
  BY <1>1, <1>3 DEF SameQueue, SameLife, SameWork
<1>5. Queued(b) = Queued(c)
  BY <1>4, FlowsNothing
<1>6. Queue(b)
  BY <1>4, <1>5 DEF Queue, Good, SameQueue
<1>7. Sound(b)
  <2>1. /\ c.sendStreams = <<>> /\ c.shutdowns = 0 /\ c.exception = NoException
        /\ ~c.finishQueued /\ c.reaped = 0 /\ c.requests = {} /\ c.dispatchCount = 0
    BY <1>0, RecordTypes, StatesAre DEF Sound, Good, StateNames
  <2>2. /\ b.sendStreams = <<>> /\ b.shutdowns = 0 /\ b.exception = NoException
        /\ ~b.finishQueued /\ b.reaped = 0 /\ b.requests = {} /\ b.dispatchCount = 0
        /\ b.state \in {0, 1} /\ b.started
    BY <1>0, <1>4, <2>1 DEF SameQueue, SameWork
  <2> QED
    BY <2>2, StatesAre DEF Sound, StateNames, NoException
<1>8. Timed(b)
  BY <1>0, <1>4, StatesAre DEF Timed, StateNames
<1> QED
  BY <1>3, <1>4, <1>6, <1>7, <1>8 DEF Good, SameCalls, SameQueue

\* message() reads a part of a message.
LEMMA PartialKeeps ==
    ASSUME NEW c, Good(c), NEW op \in Operations, Ready(c, op), "read" \in op,
           NEW c0, c0 = UnscheduleTimeout(c, op),
           NEW c1, c1 = IF "write" \in op THEN WriteHead(c0) ELSE c0,
           NEW d, d = c1 \/ d = ScheduleReadTimeout([c1 EXCEPT !.partial = TRUE])
    PROVE  Advances(c, d, <<>>) /\ SameCalls(c, d) /\ d.state = c.state /\ d.exception = c.exception
<1>0. /\ c \in ConnectionRecord /\ c.state \in 2 .. 4 /\ op \subseteq c.reg
  BY RecordTypes, StatesAre DEF Good, StateNames, Ready
<1>1. /\ c0 \in ConnectionRecord /\ SameQueue(c, c0) /\ SameLife(c, c0) /\ SameWork(c, c0)
      /\ c0.reg = c.reg /\ ("write" \notin op /\ Timed(c) => Timed(c0))
  BY <1>0, Unschedule
<1>2. Good(c0) /\ Flows(c, c0, <<>>)
  BY <1>1, GoodKept
<1>3. "write" \in op => c0.sendStreams # <<>> /\ CombinedEvents
  BY <1>0, <1>1, StatesAre, OneOperation DEF Good, Sound, SameQueue, StateNames
<1>4. /\ Good(c1) /\ Flows(c, c1, <<>>) /\ SameLife(c, c1) /\ SameCalls(c, c1)
      /\ ~CombinedEvents => c1.written = c.written /\ (Timed(c) => Timed(c1))
  <2>1. CASE "write" \in op
    <3>1. /\ Good(c1) /\ Flows(c0, c1, <<>>) /\ SameLife(c0, c1) /\ SameWork(c0, c1) /\ c1.acked = c0.acked
      BY <1>2, <1>3, <2>1, WriteHeadKeeps
    <3>2. Flows(c, c1, <<>>)
      BY <1>2, <3>1, FlowsSame
    <3> QED
      BY <1>1, <1>3, <2>1, <3>1, <3>2 DEF SameLife, SameWork, SameCalls, SameQueue
  <2>2. CASE "write" \notin op
    BY <1>1, <1>2, <2>2 DEF SameQueue, SameCalls
  <2> QED
    BY <2>1, <2>2
<1>5. Advances(c, c1, <<>>)
  BY <1>4, ElemsEmpty DEF Advances, SameLife
<1>6. CASE d = c1
  BY <1>4, <1>5, <1>6 DEF SameLife
<1>7. CASE d = ScheduleReadTimeout([c1 EXCEPT !.partial = TRUE])
  <2> DEFINE b == [c1 EXCEPT !.partial = TRUE]
  <2>1. /\ b \in ConnectionRecord /\ SameQueue(c1, b) /\ SameLife(c1, b) /\ SameWork(c1, b)
        /\ SameTimers(c1, b) /\ b.reg = c1.reg
    BY ZenonT(60), <1>4 DEF Good, ConnectionRecord, SameQueue, SameLife, SameWork, SameTimers
  <2>2. d = ScheduleReadTimeout(b)
    BY <1>7
  <2> HIDE DEF b
  <2>3. /\ d \in ConnectionRecord /\ SameQueue(b, d) /\ SameLife(b, d) /\ SameWork(b, d)
        /\ d.reg = b.reg /\ d.firing = b.firing /\ d.writeTimer = b.writeTimer
    BY <2>1, <2>2, ScheduleRead
  <2>4. /\ SameQueue(c1, d) /\ SameLife(c1, d) /\ SameWork(c1, d) /\ d.reg = c1.reg
        /\ d.firing = c1.firing /\ d.writeTimer = c1.writeTimer
    BY <2>1, <2>3 DEF SameQueue, SameLife, SameWork, SameTimers
  <2>5. Good(d) /\ Flows(c1, d, <<>>)
    BY <1>4, <2>3, <2>4, GoodKept
  <2>6. Flows(c, d, <<>>)
    BY <1>4, <2>5, FlowsSame
  <2>7. Timed(c1) => Timed(d)
    BY <2>4 DEF Timed, SameQueue, SameLife
  <2>8. SameLife(c, d) /\ SameCalls(c, d) /\ d.written = c1.written
    BY <1>4, <2>4 DEF SameLife, SameCalls, SameWork, SameQueue
  <2>9. Advances(c, d, <<>>)
    BY <1>4, <2>5, <2>6, <2>7, <2>8, ElemsEmpty DEF Advances, SameLife
  <2> QED
    BY <2>8, <2>9 DEF SameLife
<1> QED
  BY <1>6, <1>7

\* The socket fails in message().
LEMMA FailsKeeps ==
    ASSUME NEW c, Good(c), NEW op \in Operations, Ready(c, op),
           NEW c0, c0 = UnscheduleTimeout(c, op),
           NEW d, \/ d = SetClosed(c0, "other")
                  \/ op = {"read", "write"} /\ d = SetClosed(WriteHead(c0), "other")
    PROVE  /\ Advances(c, d, <<>>) /\ SameCalls(c, d) /\ d.state >= StateClosed
           /\ d.exception = "close" => c.exception = "close"
<1>0. /\ c \in ConnectionRecord /\ c.state \in 2 .. 4 /\ op \subseteq c.reg
  BY RecordTypes, StatesAre DEF Good, StateNames, Ready
<1>1. /\ c0 \in ConnectionRecord /\ SameQueue(c, c0) /\ SameLife(c, c0) /\ SameWork(c, c0)
      /\ c0.reg = c.reg
  BY <1>0, Unschedule
<1>2. Good(c0) /\ Flows(c, c0, <<>>)
  BY <1>1, GoodKept
<1>3. ASSUME NEW b, Good(b), Flows(c, b, <<>>), SameLife(c, b), SameCalls(c, b),
             ~CombinedEvents => b.written = c.written, d = SetClosed(b, "other")
      PROVE  /\ Advances(c, d, <<>>) /\ SameCalls(c, d) /\ d.state >= StateClosed
             /\ d.exception = "close" => c.exception = "close"
  <2>1. /\ Good(d) /\ ClosedFrom(b, d) /\ Flows(b, d, <<>>) /\ Timed(d)
        /\ b.exception = NoException => d.exception = "other"
    BY <1>3, SetClosedKeeps
  <2>2. Flows(c, d, <<>>)
    BY <1>3, <2>1, FlowsSame
  <2>3. /\ d.state = StateClosed /\ d.shutdowns = c.shutdowns /\ d.written = b.written
        /\ d.acked = b.acked /\ SameWork(b, d)
    BY <1>0, <1>3, <2>1, StatesAre DEF ClosedFrom, SameLife, SameQueue, StateNames
  <2>4. /\ c.exception # NoException => d.exception = c.exception
        /\ d.exception = "close" => c.exception = "close"
    BY <1>3, <2>1 DEF ClosedFrom, SameLife
  <2>5. Advances(c, d, <<>>)
    BY <1>0, <1>3, <2>1, <2>2, <2>3, <2>4, ElemsEmpty, StatesAre DEF Advances, StateNames
  <2> QED
    BY <1>3, <2>3, <2>4, <2>5, StatesAre DEF SameCalls, SameWork, StateNames
<1>4. CASE d = SetClosed(c0, "other")
  <2>1. SameCalls(c, c0) /\ c0.written = c.written
    BY <1>1 DEF SameCalls, SameQueue
  <2> QED
    BY <1>1, <1>2, <1>3, <1>4, <2>1
<1>5. CASE op = {"read", "write"} /\ d = SetClosed(WriteHead(c0), "other")
  <2> DEFINE b == WriteHead(c0)
  <2>1. c0.sendStreams # <<>>
    BY <1>0, <1>1, <1>5, StatesAre DEF Good, Sound, SameQueue, StateNames
  <2>2. /\ Good(b) /\ Flows(c0, b, <<>>) /\ SameLife(c0, b) /\ SameWork(c0, b) /\ b.acked = c0.acked
    BY <1>2, <2>1, WriteHeadKeeps
  <2>3. d = SetClosed(b, "other")
    BY <1>5
  <2> HIDE DEF b
  <2>4. Flows(c, b, <<>>)
    BY <1>2, <2>2, FlowsSame
  <2>5. SameLife(c, b) /\ SameCalls(c, b)
    BY <1>1, <2>2 DEF SameLife, SameCalls, SameWork, SameQueue
  <2>6. CombinedEvents
    BY <1>5, OneOperation
  <2> QED
    BY <1>3, <2>2, <2>3, <2>4, <2>5, <2>6
<1> QED
  BY <1>4, <1>5

\* The timer takes a task out of its queue.
LEMMA TimerKeeps ==
    ASSUME NEW c, Good(c), NEW d,
           \/ d = [c EXCEPT !.firing = TRUE, !.readTimer = FALSE]
           \/ d = [c EXCEPT !.firing = TRUE, !.writeTimer = FALSE]
    PROVE  Advances(c, d, <<>>) /\ SameCalls(c, d) /\ d.exception = c.exception
<1>1. /\ d \in ConnectionRecord /\ SameQueue(c, d) /\ SameLife(c, d) /\ SameWork(c, d)
      /\ d.reg = c.reg /\ d.firing
  BY ZenonT(60) DEF Good, ConnectionRecord, SameQueue, SameLife, SameWork
<1>2. Timed(d)
  BY <1>1 DEF Timed
<1> QED
  BY <1>1, <1>2, AdvancesKept DEF SameCalls, SameQueue, SameLife

\* timedOut().
LEMMA TimedOutKeeps ==
    ASSUME NEW c, Good(c), NEW d, d = SetClosed([c EXCEPT !.firing = FALSE], "other")
    PROVE  /\ Advances(c, d, <<>>) /\ SameCalls(c, d) /\ d.state >= StateClosed
           /\ d.exception = "close" => c.exception = "close"
<1> DEFINE b == [c EXCEPT !.firing = FALSE]
<1>1. /\ b \in ConnectionRecord /\ SameQueue(c, b) /\ SameLife(c, b) /\ SameWork(c, b) /\ b.reg = c.reg
  BY DEF Good, ConnectionRecord, SameQueue, SameLife, SameWork
<1>2. d = SetClosed(b, "other")
  OBVIOUS
<1> HIDE DEF b
<1>3. Good(b) /\ Flows(c, b, <<>>)
  BY <1>1, GoodKept
<1>4. /\ Advances(b, d, <<>>) /\ SameWork(b, d) /\ d.acked = b.acked /\ d.state >= StateClosed
      /\ b.exception = NoException => d.exception = "other"
  BY <1>2, <1>3, AdvancesClosed
<1>5. Timed(d)
  BY <1>4, RecordTypes, StatesAre DEF Timed, StateNames, Advances, Good
<1>6. Flows(c, d, <<>>)
  BY <1>3, <1>4, FlowsSame DEF Advances
<1>7. Advances(c, d, <<>>)
  BY <1>1, <1>4, <1>5, <1>6 DEF Advances, SameLife, SameQueue
<1> QED
  BY <1>1, <1>4, <1>7 DEF SameCalls, SameWork, SameQueue, SameLife, Advances

\* The stream p and the close connection message.
ThenClose(p) == p \o <<CloseConnection>>

\* The close connection message follows what a closing connection sent before.
LEMMA ShutAfter ==
    ASSUME NEW c, Good(c), NEW b, Good(b), NEW p \in Seq(Message), Flows(c, b, p),
           CloseConnection \notin Elems(p),
           c.state = StateClosing, b.state = StateClosing, b.exception = c.exception,
           c.shutdowns = 0, b.shutdowns = 0, b.dispatchCount = 0, b.written = c.written,
           Timed(c) => Timed(b), NEW w \in Writes, NEW d, d = InitiateShutdown(b, w)
    PROVE  /\ Advances(c, d, p) \/ Advances(c, d, ThenClose(p))
           /\ SameCalls(b, d) /\ d.exception = c.exception /\ d.state >= StateClosing
<1>1. PICK ms \in {<<>>, <<CloseConnection>>} : ShutDownFrom(b, d, ms)
  BY ShutdownKeeps
<1>2. ms \in Seq(Message)
  BY ZenonT(60), <1>1, EmptySeq, ElemsOne, MessageFields
<1>3. Flows(c, d, p \o ms)
  BY <1>1, <1>2, FlowsOn DEF ShutDownFrom
<1>4. Timed(c) => Timed(d)
  <2>1. Timed(c) => TimedQueue(b)
    BY StatesAre DEF Timed, TimedQueue, StateNames
  <2> QED
    BY <1>1, <2>1 DEF ShutDownFrom
<1>5. /\ Good(d) /\ SameWork(b, d) /\ d.written = c.written /\ d.shutdowns = 1
      /\ d.exception = c.exception /\ d.acked = b.acked /\ d.state \in {4, 5}
  BY <1>1, StatesAre DEF ShutDownFrom, StateNames
<1>6. d.dispatchCount = 0
  BY <1>5 DEF SameWork
<1>7. Advances(c, d, p \o ms)
  BY <1>3, <1>4, <1>5, <1>6, StatesAre DEF Advances, StateNames
<1>8. p \o ms = p \/ p \o ms = ThenClose(p)
  BY <1>1, ConcatEmptySeq DEF ThenClose
<1> QED
  <2>1. SameCalls(b, d) /\ d.exception = c.exception /\ d.state >= StateClosing
    BY <1>5, StatesAre DEF SameCalls, StateNames
  <2>2. Advances(c, d, p) \/ Advances(c, d, ThenClose(p))
    BY <1>7, <1>8
  <2> QED
    BY <2>1, <2>2

\* A dispatch or a callback ended, and the connection may now shut down.
Ends(c, d, ms) ==
    /\ Advances(c, d, ms) /\ d.requests = c.requests /\ d.dispatchCount = c.dispatchCount - 1
    /\ d.acked = c.acked /\ (d.exception = "close" => c.exception = "close")

\* A dispatch without a reply, or an upcall, ends: the last one may shut the connection down.
LEMMA EndKeeps ==
    ASSUME NEW c, Good(c), c.dispatchCount # 0, NEW b, b = DispatchDone(c), NEW w \in Writes,
           NEW d, \/ d = b
                  \/ /\ d = InitiateShutdown(b, w)
                     /\ b.state = StateClosing /\ b.dispatchCount = 0 /\ c.shutdowns = 0
    PROVE  Ends(c, d, <<>>) \/ Ends(c, d, <<CloseConnection>>)
<1>1. /\ Advances(c, b, <<>>) /\ SameQueue(c, b) /\ b.requests = c.requests
      /\ b.dispatchCount = c.dispatchCount - 1
      /\ b.state = c.state /\ b.exception = c.exception /\ b.shutdowns = c.shutdowns
      /\ Timed(c) => Timed(b)
  <2>1. /\ Advances(c, b, <<>>) /\ SameQueue(c, b) /\ b.requests = c.requests
        /\ b.dispatchCount = c.dispatchCount - 1
        /\ b.state = c.state /\ b.exception = c.exception /\ b.shutdowns = c.shutdowns
        /\ SameTimers(c, b)
    BY DispatchDoneKeeps
  <2> QED
    BY <2>1 DEF Timed, SameQueue, SameTimers
<1>2. CASE d = b
  BY <1>1, <1>2 DEF Ends, SameQueue
<1>3. CASE d = InitiateShutdown(b, w) /\ b.state = StateClosing /\ b.dispatchCount = 0 /\ c.shutdowns = 0
  <2>1. <<>> \in Seq(Message) /\ CloseConnection \notin Elems(<<>>) /\ Flows(c, b, <<>>) /\ Good(b)
        /\ b.written = c.written
    BY <1>1, EmptySeq, ElemsEmpty DEF Advances, SameQueue
  <2>2. /\ Advances(c, d, <<>>) \/ Advances(c, d, ThenClose(<<>>))
        /\ SameCalls(b, d) /\ d.exception = c.exception
    <3> DEFINE p == <<>>
    <3>1. p \in Seq(Message) /\ CloseConnection \notin Elems(p) /\ Flows(c, b, p)
      BY <2>1
    <3> HIDE DEF p
    <3>2. /\ Good(b) /\ b.written = c.written /\ c.state = StateClosing /\ b.state = StateClosing
          /\ c.shutdowns = 0 /\ b.shutdowns = 0 /\ b.dispatchCount = 0 /\ b.exception = c.exception
          /\ Timed(c) => Timed(b)
      BY <1>1, <1>3, <2>1
    <3>3. d = InitiateShutdown(b, w)
      BY <1>3
    <3>4. /\ Advances(c, d, p) \/ Advances(c, d, ThenClose(p))
          /\ SameCalls(b, d) /\ d.exception = c.exception
      BY <3>1, <3>2, <3>3, ShutAfter
    <3> QED
      BY <3>4 DEF p
  <2>3. ThenClose(<<>>) = <<CloseConnection>>
    BY ConcatEmptySeq, ElemsOne, MessageFields DEF ThenClose
  <2> QED
    BY <1>1, <2>2, <2>3 DEF Ends, SameCalls, SameWork, SameQueue
<1> QED
  BY <1>2, <1>3

\* sendResponse() on a connection that is not closed.
LEMMA ResponseKeeps ==
    ASSUME NEW c, Good(c), c.dispatchCount # 0, c.state < StateClosed,
           c.shutdowns = 0,
           NEW r \in Requests, NEW w1 \in Writes, NEW w2 \in Writes, NEW b, b = DispatchDone(c),
           NEW d, d = IF SendFails(b, w1) THEN SetClosed(b, "other")
                      ELSE ShutdownIfIdle(SendMessage(b, Reply(r), w1), w2)
    PROVE  \/ Ends(c, d, <<>>) /\ d.state >= StateClosed
           \/ Ends(c, d, <<Reply(r)>>)
           \/ Ends(c, d, ThenClose(<<Reply(r)>>))
<1>0. c.dispatchCount \in Nat \ {0} /\ c.state \in 2 .. 4 /\ c.acked \subseteq Requests
  BY RecordTypes, StatesAre DEF Good, StateNames, Sound
<1>1. /\ Advances(c, b, <<>>) /\ SameQueue(c, b) /\ b.requests = c.requests
      /\ b.dispatchCount = c.dispatchCount - 1
      /\ b.state = c.state /\ b.exception = c.exception /\ b.shutdowns = c.shutdowns
      /\ SameTimers(c, b)
  BY DispatchDoneKeeps
<1>2. Good(b) /\ (Timed(c) => Timed(b)) /\ b.written = c.written /\ b.acked = c.acked
  BY <1>1 DEF Advances, Timed, SameQueue, SameTimers
<1>3. CASE SendFails(b, w1)
  <2>1. d = SetClosed(b, "other")
    BY <1>3
  <2>2. /\ Advances(b, d, <<>>) /\ SameWork(b, d) /\ d.acked = b.acked /\ d.state >= StateClosed
        /\ b.exception = NoException => d.exception = "other"
    BY <1>2, <2>1, AdvancesClosed
  <2>3. Advances(c, d, <<>>)
    BY <1>1, <1>2, <2>2, AdvancesThen
  <2> QED
    BY <1>1, <1>2, <2>2, <2>3 DEF Ends, SameWork, Advances
<1>4. CASE ~SendFails(b, w1)
  <2> DEFINE m == Reply(r)
             e == SendMessage(b, m, w1)
  <2>1. d = ShutdownIfIdle(e, w2)
    BY <1>4
  <2>2. m \in Message /\ m.type = "reply" /\ <<m>> \in Seq(Message) /\ Reqs(<<m>>) = {}
        /\ CloseConnection \notin Elems(<<m>>)
    BY MessageFields, ElemsOne
  <2> HIDE DEF m
  <2>3. b.state \in StateActive .. StateClosing
    BY <1>0, <1>1, StatesAre DEF StateNames
  <2>4. /\ Good(e) /\ SameLife(b, e) /\ SameWork(b, e) /\ Flows(b, e, <<m>>)
        /\ e.written = b.written /\ e.acked \subseteq b.acked \cup Reqs(<<m>>)
        /\ Timed(b) => Timed(e)
    BY <1>2, <1>4, <2>2, <2>3, SendMessageKeeps
  <2> HIDE DEF e
  <2>5. e.acked = c.acked /\ Flows(c, e, <<m>>) /\ (Timed(c) => Timed(e)) /\ e.written = c.written
    <3>1. Pend(b) = Pend(c) /\ Queued(b) = Queued(c) /\ b.acked = c.acked
      BY <1>1, FlowsNothing DEF SameQueue
    <3> QED
      BY <1>2, <2>2, <2>4, <3>1 DEF Flows
  <2>6. /\ e.state = c.state /\ e.exception = c.exception /\ e.shutdowns = c.shutdowns
        /\ e.requests = c.requests /\ e.dispatchCount = c.dispatchCount - 1
    BY <1>1, <2>4 DEF SameLife, SameWork
  <2>7. CASE e.state = StateClosing /\ e.dispatchCount = 0
    <3>1. d = InitiateShutdown(e, w2) /\ c.shutdowns = 0
      BY <1>0, <2>1, <2>6, <2>7 DEF ShutdownIfIdle
    <3>2. /\ Advances(c, d, <<m>>) \/ Advances(c, d, ThenClose(<<m>>))
          /\ SameCalls(e, d) /\ d.exception = c.exception
      <4> DEFINE p == <<m>>
      <4>1. p \in Seq(Message) /\ CloseConnection \notin Elems(p) /\ Flows(c, e, p)
        BY <2>2, <2>5
      <4>2. c.state = StateClosing /\ e.shutdowns = 0
        BY <2>6, <2>7, <3>1
      <4> HIDE DEF p
      <4>3. /\ Advances(c, d, p) \/ Advances(c, d, ThenClose(p))
            /\ SameCalls(e, d) /\ d.exception = c.exception
        BY <2>4, <2>5, <2>6, <2>7, <3>1, <4>1, <4>2, ShutAfter
      <4> QED
        BY <4>3 DEF p
    <3>3. Ends(c, d, <<m>>) \/ Ends(c, d, ThenClose(<<m>>))
      BY <2>5, <2>6, <3>2 DEF Ends, SameCalls, SameWork
    <3> QED
      BY <3>3 DEF m
  <2>8. CASE ~(e.state = StateClosing /\ e.dispatchCount = 0)
    <3>1. d = e
      BY <2>1, <2>8 DEF ShutdownIfIdle
    <3>2. Advances(c, e, <<m>>)
      BY <2>2, <2>4, <2>5, <2>6 DEF Advances
    <3>3. Ends(c, d, <<m>>)
      BY <2>5, <2>6, <3>1, <3>2 DEF Ends
    <3> QED
      BY <3>3 DEF m
  <2> QED
    BY <2>7, <2>8
<1> QED
  BY <1>3, <1>4

\* invokeException().
LEMMA ExceptionKeeps ==
    ASSUME NEW c, Good(c), c.dispatchCount # 0, NEW d, d = DispatchDone(SetClosed(c, "other"))
    PROVE  Ends(c, d, <<>>) /\ d.state >= StateClosed
<1> DEFINE b == SetClosed(c, "other")
<1>1. /\ Good(b) /\ ClosedFrom(c, b) /\ Flows(c, b, <<>>) /\ Timed(b)
      /\ c.exception = NoException => b.exception = "other"
  BY SetClosedKeeps
<1>2. d = DispatchDone(b)
  OBVIOUS
<1> HIDE DEF b
<1>3. b.dispatchCount = c.dispatchCount /\ b.requests = c.requests /\ b.acked = c.acked
      /\ b.shutdowns = c.shutdowns /\ b.state >= StateClosed /\ b.written = c.written
      /\ (b.state = StateFinished <=> c.state = StateFinished)
      /\ (c.exception # NoException => b.exception = c.exception)
      /\ (b.exception = "close" => c.exception = "close")
  BY <1>1, RecordTypes, StatesAre DEF ClosedFrom, SameWork, SameQueue, StateNames, Good
<1>4. /\ Advances(b, d, <<>>) /\ SameQueue(b, d) /\ d.requests = b.requests
      /\ d.dispatchCount = b.dispatchCount - 1
      /\ d.state = b.state /\ d.exception = b.exception /\ d.shutdowns = b.shutdowns
  BY <1>1, <1>2, <1>3, DispatchDoneKeeps
<1>5. Timed(d) /\ Good(d) /\ d.state \in 0 .. 6
  BY <1>1, <1>3, <1>4, RecordTypes, StatesAre DEF Timed, StateNames, Advances, Good
<1>6. Flows(c, d, <<>>)
  BY <1>1, <1>4, FlowsSame DEF Advances
<1>7. Advances(c, d, <<>>)
  BY <1>3, <1>4, <1>5, <1>6, ElemsEmpty, StatesAre DEF Advances, StateNames, SameQueue
<1> QED
  BY <1>3, <1>4, <1>7 DEF Ends, SameQueue

\* sendRequest().
Recorded(d, r) == [d EXCEPT !.requests = IF r \in Twoway THEN @ \cup {r} ELSE @]

\* sendRequest() puts the request behind what is queued and records a twoway.
LEMMA RequestKeeps ==
    ASSUME NEW c, Good(c), c.exception = NoException, c.state > StateNotValidated,
           NEW r \in Requests, r \notin Queued(c), c.acked = {}, NEW w \in Writes, ~SendFails(c, w),
           NEW d, d = SendMessage(c, Request(r), w),
           NEW e, e = Recorded(d, r)
    PROVE  /\ Advances(c, e, <<Request(r)>>) /\ e.state = c.state /\ e.exception = NoException
           /\ e.requests = c.requests \cup ({r} \cap Twoway) /\ e.dispatchCount = c.dispatchCount
           /\ e.shutdowns = c.shutdowns
           /\ e.acked \subseteq {r}
<1>0. c.state \in 2 .. 3
  BY RecordTypes, StatesAre DEF Good, Sound, StateNames
<1> DEFINE m == Request(r)
<1>1. m \in Message /\ m.type = "request" /\ m.req = r /\ <<m>> \in Seq(Message) /\ Reqs(<<m>>) = {r}
      /\ CloseConnection \notin Elems(<<m>>)
  BY MessageFields, ElemsOne
<1>2. d = SendMessage(c, m, w)
  OBVIOUS
<1> HIDE DEF m
<1>3. /\ Good(d) /\ SameLife(c, d) /\ SameWork(c, d) /\ Flows(c, d, <<m>>)
      /\ d.written = c.written /\ d.acked \subseteq c.acked \cup Reqs(<<m>>)
      /\ Timed(c) => Timed(d)
  <2>1. c.state \in StateActive .. StateClosing
    BY <1>0, StatesAre DEF StateNames
  <2> QED
    BY <1>1, <1>2, <2>1, SendMessageKeeps
<1> DEFINE rq == d.requests \cup ({r} \cap Twoway)
<1>4. rq \in SUBSET Requests /\ e = [d EXCEPT !.requests = rq] /\ d \in ConnectionRecord
  <2>1. d \in ConnectionRecord /\ d.requests \in SUBSET Requests
    BY <1>3, RecordTypes DEF Good
  <2>2. rq = IF r \in Twoway THEN d.requests \cup {r} ELSE d.requests
    OBVIOUS
  <2> QED
    BY <2>1, <2>2 DEF Recorded
<1> HIDE DEF rq
<1>5. /\ e \in ConnectionRecord /\ SameQueue(d, e) /\ SameLife(d, e) /\ SameTimers(d, e)
      /\ e.reg = d.reg /\ e.dispatchCount = d.dispatchCount /\ e.requests = rq
  BY <1>4 DEF ConnectionRecord, SameQueue, SameLife, SameTimers
<1>6. Queued(e) = Queued(d) /\ Pend(e) = Pend(d)
  BY <1>3, <1>5, FlowsNothing
<1>7. Queue(e)
  BY <1>3, <1>5, <1>6 DEF Queue, Good, SameQueue
<1>8. d.state = c.state /\ e.state = c.state /\ d.exception = c.exception /\ e.exception = c.exception
      /\ e.shutdowns = c.shutdowns /\ e.written = c.written /\ e.acked = d.acked
      /\ e.dispatchCount = c.dispatchCount
  BY <1>3, <1>5 DEF SameLife, SameQueue, SameWork
<1>9. Sound(e)
  BY <1>0, <1>3, <1>5, <1>8, StatesAre DEF Sound, Good, SameQueue, SameLife, StateNames
<1>10. Flows(c, e, <<m>>)
  BY <1>3, <1>6, <1>8 DEF Flows
<1>11. Timed(c) => Timed(e)
  BY <1>3, <1>5 DEF Timed, SameQueue, SameLife, SameTimers
<1>12. c.shutdowns = 0 /\ c.state < StateClosed
  BY <1>0, RecordTypes, StatesAre DEF Good, Sound, StateNames
<1>13. Good(e)
  BY <1>5, <1>7, <1>9 DEF Good
<1>14. Advances(c, e, <<m>>)
  BY <1>1, <1>8, <1>10, <1>11, <1>12, <1>13 DEF Advances
<1> QED
  BY <1>1, <1>3, <1>5, <1>8, <1>14 DEF m, rq, SameWork

\* The record that finish() leaves.
FinishedRecord(c) ==
    [UnscheduleTimeout(c, {"read", "write"})
    EXCEPT !.state = StateFinished,
           !.finishQueued = FALSE,
           !.startCallback = FALSE,
           !.sendStreams = <<>>,
           !.written = FALSE,
           !.requests = {},
           !.reaped = IF c.dispatchCount = 0 THEN @ + 1 ELSE @]

\* finish() leaves a finished connection with nothing queued and nothing outstanding.
LEMMA FinishKeeps ==
    ASSUME NEW c, Good(c), c.out = <<>>, c.acked = {}, c.finishQueued, NEW d,
           d = FinishedRecord(c)
    PROVE  /\ Good(d) /\ d.state = StateFinished /\ d.sendStreams = <<>> /\ ~d.written
           /\ d.requests = {} /\ d.out = <<>> /\ d.acked = {} /\ d.dispatchCount = c.dispatchCount
           /\ d.shutdowns = c.shutdowns /\ d.exception = c.exception /\ Timed(d)
           /\ c.state = StateClosed
<1>0. c \in ConnectionRecord /\ c.state = StateClosed /\ c.reaped = 0 /\ c.dispatchCount \in Nat
  BY RecordTypes, StatesAre DEF Good, Sound, StateNames
<1> DEFINE a == UnscheduleTimeout(c, {"read", "write"})
           k == IF c.dispatchCount = 0 THEN a.reaped + 1 ELSE a.reaped
<1>1. a \in ConnectionRecord /\ SameQueue(c, a) /\ SameLife(c, a) /\ SameWork(c, a)
  BY <1>0, Unschedule
<1>2. d = [a EXCEPT !.state = StateFinished, !.finishQueued = FALSE, !.startCallback = FALSE,
                    !.sendStreams = <<>>, !.written = FALSE, !.requests = {}, !.reaped = k]
  BY DEF FinishedRecord
<1> HIDE DEF a
<1>3. k \in Nat /\ k = (IF c.dispatchCount = 0 THEN 1 ELSE 0)
  BY <1>0, <1>1 DEF SameLife
<1> HIDE DEF k
<1>4. /\ d \in ConnectionRecord /\ d.state = StateFinished /\ d.finishQueued = FALSE
      /\ d.startCallback = FALSE /\ d.sendStreams = <<>> /\ d.written = FALSE /\ d.requests = {}
      /\ d.reaped = k /\ d.out = a.out /\ d.acked = a.acked /\ d.dispatchCount = a.dispatchCount
      /\ d.shutdowns = a.shutdowns /\ d.exception = a.exception
  <2>1. <<>> \in Seq(Message) /\ {} \in SUBSET Requests
        /\ StateFinished \in StateNotInitialized .. StateFinished
    BY EmptySeq, StatesAre DEF StateNames
  <2>2. /\ d.state = StateFinished /\ d.finishQueued = FALSE
        /\ d.startCallback = FALSE /\ d.sendStreams = <<>> /\ d.written = FALSE /\ d.requests = {}
        /\ d.reaped = k /\ d.out = a.out /\ d.acked = a.acked /\ d.dispatchCount = a.dispatchCount
        /\ d.shutdowns = a.shutdowns /\ d.exception = a.exception
    BY <1>1, <1>2 DEF ConnectionRecord
  <2>3. d \in ConnectionRecord
    <3> DEFINE nil == <<>>
               x == [a EXCEPT !.state = StateFinished, !.finishQueued = FALSE,
                              !.startCallback = FALSE]
               y == [x EXCEPT !.sendStreams = nil, !.written = FALSE]
    <3>1. d = [y EXCEPT !.requests = {}, !.reaped = k]
      BY <1>2
    <3>2. nil \in Seq(Message)
      BY <2>1
    <3> HIDE DEF nil
    <3>3. x \in ConnectionRecord
      BY <1>1, <2>1 DEF ConnectionRecord
    <3> HIDE DEF x
    <3>4. y \in ConnectionRecord
      BY <3>2, <3>3 DEF ConnectionRecord
    <3> HIDE DEF y
    <3> QED
      BY <1>3, <2>1, <3>1, <3>4 DEF ConnectionRecord
  <2> QED
    BY <2>2, <2>3
<1>5. /\ d.out = <<>> /\ d.acked = {} /\ d.dispatchCount = c.dispatchCount
      /\ d.shutdowns = c.shutdowns /\ d.exception = c.exception
  BY <1>1, <1>4 DEF SameQueue, SameLife, SameWork
<1>6. Queue(d)
  BY <1>4, <1>5, ElemsEmpty DEF Queue, Queued
<1>7. Sound(d)
  BY <1>0, <1>3, <1>4, <1>5, StatesAre DEF Good, Sound, StateNames
<1>8. Timed(d)
  BY <1>4, StatesAre DEF Timed, StateNames
<1> QED
  BY <1>0, <1>4, <1>5, <1>6, <1>7, <1>8 DEF Good

-----------------------------------------------------------------------------
(* The inductive invariant.                                                *)

\* What side s has sent and its peer has not read, in the order it is read.
Stream(s) == wire[Peer(s)] \o Unwritten(conn[s])
SentRq(s) == Reqs(Stream(s))
SentRp(s) == Reps(Stream(s))
Shuts(s) == CloseConnection \in Elems(Stream(s))

\* The types, and that the sets that are counted are finite.
IType ==
    /\ TypeOK
    /\ \A s \in Side : IsFiniteSet(running[s]) /\ IsFiniteSet(upcalls[s])

\* Between steps both records are good and settled.
IGood == \A s \in Side : Good(conn[s]) /\ conn[s].out = <<>> /\ conn[s].acked = {}

\* What a side sends is tidy, and a side that shut down dispatches nothing.
IShut ==
    \A s \in Side :
        /\ Tidy(Stream(s))
        /\ conn[s].shutdowns = 1 => running[s] = {}
        /\ Shuts(s) => conn[s].shutdowns = 1

\* An invocation is with its caller, on its way, being dispatched, or its reply
\* is on its way.
IExecuted == \A r \in Requests : r \in executed => outcome[r] # "idle"

\* A request on its way was not executed.
ISentRq ==
    \A s \in Side : \A r \in SentRq(s) :
        Caller[r] = s /\ outcome[r] # "idle" /\ r \notin executed

\* A reply on its way answers a twoway of the peer that was executed and has ended.
ISentRp ==
    \A s \in Side : \A r \in SentRp(s) :
        Caller[r] = Peer(s) /\ r \in Twoway /\ r \in executed /\ r \notin running[s]

\* What a side dispatches was sent by its peer.
IRunning == \A s \in Side : \A r \in running[s] : Caller[r] = Peer(s) /\ r \in executed

\* What is queued was sent by this side.
IQueued == \A s \in Side : \A r \in Queued(conn[s]) : Caller[r] = s /\ outcome[r] # "idle"

\* _requests holds pending twoways of this side.
IRequests ==
    \A s \in Side : \A r \in conn[s].requests :
        Caller[r] = s /\ r \in Twoway /\ outcome[r] = "pending"

\* The peer of s may still answer r.
Awaited(s, r) == r \in SentRq(s) \/ r \in running[Peer(s)] \/ r \in SentRp(Peer(s))

\* Until it is finished, a side has in _requests all that its peer may answer.
IAwaited ==
    \A s \in Side : \A r \in Twoway :
        Caller[r] = s /\ conn[s].state # StateFinished /\ Awaited(s, r)
            => r \in conn[s].requests

ICalls ==
    /\ IExecuted /\ ISentRq /\ ISentRp /\ IRunning /\ IQueued /\ IRequests /\ IAwaited

\* An upcall delivers replies that were taken out of _requests, each reply once, and reports
\* as sent what was taken out of the queue.
IUp ==
    \A s \in Side :
        /\ \A u \in upcalls[s] : \A r \in u.reply :
            /\ Caller[r] = s /\ r \in Twoway /\ r \in executed
            /\ r \notin conn[s].requests /\ outcome[r] # "idle"
        /\ \A u \in upcalls[s] : \A r \in u.sent :
            Caller[r] = s /\ r \notin Queued(conn[s]) /\ outcome[r] # "idle"
        /\ \A u, v \in upcalls[s] : u # v => u.reply \cap v.reply = {}

\* A pending twoway is in _requests or its reply is being delivered, a pending oneway is queued.
IForgot ==
    \A r \in Requests : outcome[r] = "pending" =>
        IF r \in Twoway
        THEN \/ r \in conn[Caller[r]].requests
             \/ \E u \in upcalls[Caller[r]] : r \in u.reply
        ELSE r \in Queued(conn[Caller[r]])

\* A twoway that succeeded was executed.
IOk == \A r \in Twoway : outcome[r] = "ok" => r \in executed

\* With a selector that reports one operation at a time.
ILife == \A s \in Side : ~conn[s].written /\ Timed(conn[s])

\* What is queued, and what an upcall delivers, is still pending.
IPending ==
    \A s \in Side :
        /\ \A u \in upcalls[s] : \A r \in u.reply : outcome[r] = "pending"
        /\ \A r \in Requests : r \in Queued(conn[s]) => outcome[r] = "pending"

\* A peer that closes the connection gracefully answered all it dispatched.
IClose ==
    \A s \in Side :
        /\ conn[s].exception = "close" /\ conn[s].requests # {} =>
            conn[Peer(s)].shutdowns = 1 /\ Stream(Peer(s)) = <<>>
        /\ \A r \in conn[s].requests : r \in executed =>
            \/ r \in running[Peer(s)]
            \/ r \in SentRp(Peer(s))
            \/ conn[Peer(s)].state >= StateClosed /\ ~Shuts(Peer(s)) /\ conn[s].exception # "close"

\* What may be retried was not executed, and will not be: if it is on its way, the peer is
\* closing and ignores it.
IRetry ==
    \A r \in Requests : outcome[r] = "retry" =>
        /\ r \notin executed
        /\ \A s \in Side : r \in SentRq(s) => conn[Peer(s)].state >= StateClosing

\* What holds when the selector reports one operation at a time.
INow == ILife /\ IPending /\ IClose /\ IRetry

\* The inductive invariant.
IInv ==
    /\ IType /\ IGood /\ DispatchCountExact /\ IShut /\ ICalls /\ IUp /\ IForgot /\ IOk
    /\ ~CombinedEvents => INow

\* There are two sides, each the peer of the other.
LEMMA PeerFacts ==
    \A s \in Side : Peer(s) \in Side /\ Peer(s) # s /\ Peer(Peer(s)) = s
                    /\ \A t \in Side : t = s \/ t = Peer(s)
  BY DEF Side, Peer

\* Two tidy streams with nothing in common are tidy together.
LEMMA TidySend ==
    ASSUME NEW p \in Seq(Message), NEW q \in Seq(Message), Tidy(p), Tidy(q),
           q # <<>> => CloseConnection \notin Elems(p),
           Reqs(p) \cap Reqs(q) = {}, Reps(p) \cap Reps(q) = {}
    PROVE  Tidy(p \o q)
<1> DEFINE t == p \o q
<1>1. /\ t \in Seq(Message) /\ Len(t) = Len(p) + Len(q) /\ Len(p) \in Nat /\ Len(q) \in Nat
      /\ \A i \in 1 .. Len(p) : t[i] = p[i]
      /\ \A i \in 1 .. Len(q) : t[i + Len(p)] = q[i]
  <2>1. /\ t \in Seq(Message) /\ Len(t) = Len(p) + Len(q) /\ Len(p) \in Nat /\ Len(q) \in Nat
        /\ \A i \in 1 .. Len(p) + Len(q) : t[i] = IF i <= Len(p) THEN p[i] ELSE q[i - Len(p)]
    BY ConcatProperties, LenProperties
  <2> HIDE DEF t
  <2>2. ASSUME NEW i \in 1 .. Len(q) PROVE t[i + Len(p)] = q[i]
    <3>1. i + Len(p) \in 1 .. Len(p) + Len(q) /\ ~(i + Len(p) <= Len(p)) /\ (i + Len(p)) - Len(p) = i
      BY <2>1
    <3> QED
      BY <2>1, <3>1
  <2>3. ASSUME NEW i \in 1 .. Len(p) PROVE t[i] = p[i]
    BY <2>1
  <2> QED
    BY <2>1, <2>2, <2>3
<1> HIDE DEF t
<1>2. \A i \in 1 .. Len(t) : i \in 1 .. Len(p) \/ \E k \in 1 .. Len(q) : i = k + Len(p)
  <2> SUFFICES ASSUME NEW i \in 1 .. Len(t), i \notin 1 .. Len(p)
               PROVE  \E k \in 1 .. Len(q) : i = k + Len(p)
    OBVIOUS
  <2>1. i - Len(p) \in 1 .. Len(q) /\ i = (i - Len(p)) + Len(p)
    BY <1>1
  <2> QED
    BY <2>1
<1>3. ASSUME NEW i \in 1 .. Len(p), NEW j \in 1 .. Len(q), p[i] = q[j],
             p[i].type \in {"request", "reply"}
      PROVE  FALSE
  <2>1. p[i] \in Message
    BY ElementOfSeq
  <2>2. p[i] \in Elems(p) /\ p[i] \in Elems(q)
    BY <1>3 DEF Elems
  <2>3. CASE p[i].type = "request"
    BY <2>1, <2>2, <2>3, MessageKinds DEF Reqs
  <2>4. CASE p[i].type = "reply"
    BY <2>1, <2>2, <2>4, MessageKinds DEF Reps
  <2> QED
    BY <1>3, <2>3, <2>4
<1>4. ASSUME NEW i \in 1 .. Len(t), NEW j \in 1 .. Len(t), t[i] = t[j],
             t[i].type \in {"request", "reply"}
      PROVE  i = j
  <2>1. CASE i \in 1 .. Len(p) /\ j \in 1 .. Len(p)
    BY <1>1, <1>4, <2>1 DEF Tidy
  <2>2. CASE \E k, l \in 1 .. Len(q) : i = k + Len(p) /\ j = l + Len(p)
    <3>1. PICK k \in 1 .. Len(q), l \in 1 .. Len(q) : i = k + Len(p) /\ j = l + Len(p)
      BY <2>2
    <3>2. t[i] = q[k] /\ t[j] = q[l]
      BY <1>1, <3>1
    <3>3. k = l
      BY <1>4, <3>2 DEF Tidy
    <3> QED
      BY <3>1, <3>3
  <2>3. CASE i \in 1 .. Len(p) /\ \E k \in 1 .. Len(q) : j = k + Len(p)
    <3>1. PICK k \in 1 .. Len(q) : j = k + Len(p)
      BY <2>3
    <3>2. t[i] = p[i] /\ t[j] = q[k]
      BY <1>1, <2>3, <3>1
    <3> QED
      BY <1>3, <1>4, <2>3, <3>2
  <2>4. CASE j \in 1 .. Len(p) /\ \E k \in 1 .. Len(q) : i = k + Len(p)
    <3>1. PICK k \in 1 .. Len(q) : i = k + Len(p)
      BY <2>4
    <3>2. t[j] = p[j] /\ t[i] = q[k]
      BY <1>1, <2>4, <3>1
    <3> QED
      BY <1>3, <1>4, <2>4, <3>2
  <2> QED
    BY <1>2, <2>1, <2>2, <2>3, <2>4
<1>5. ASSUME NEW i \in 1 .. Len(t), t[i] = CloseConnection
      PROVE  i = Len(t)
  <2>1. CASE i \in 1 .. Len(p)
    <3>1. CloseConnection \in Elems(p)
      BY <1>1, <1>5, <2>1 DEF Elems
    <3>2. q = <<>>
      BY <3>1
    <3>3. Len(q) = 0
      BY <3>2
    <3> QED
      BY <1>1, <1>5, <2>1, <3>3 DEF Tidy
  <2>2. CASE \E k \in 1 .. Len(q) : i = k + Len(p)
    <3>1. PICK k \in 1 .. Len(q) : i = k + Len(p)
      BY <2>2
    <3>2. q[k] = CloseConnection
      BY <1>1, <1>5, <3>1
    <3>3. k = Len(q)
      BY <3>2 DEF Tidy
    <3> QED
      BY <1>1, <3>1, <3>3
  <2> QED
    BY <1>2, <2>1, <2>2
<1>6. Tidy(t)
  BY <1>4, <1>5 DEF Tidy
<1> QED
  BY <1>6 DEF t

\* The replies of a message.
ReplyOf(m) == IF m.type = "reply" THEN {m.req} ELSE {}

\* What side s does to the streams and to its record.
Sends(s, e, ms) ==
    /\ conn'[Peer(s)] = conn[Peer(s)]
    /\ conn'[s].state = e.state /\ conn'[s].exception = e.exception
    /\ conn'[s].shutdowns = e.shutdowns /\ conn'[s].written = e.written
    /\ conn'[s].requests = e.requests /\ conn'[s].dispatchCount = e.dispatchCount
    /\ Queued(conn'[s]) \cup e.acked = Queued(conn[s]) \cup Reqs(ms)
    /\ Queued(conn'[s]) \cap e.acked = {}
    /\ Timed(e) => Timed(conn'[s])
    /\ Stream(s)' = Stream(s) \o ms
    /\ SentRq(s)' = SentRq(s) \cup Reqs(ms)
    /\ SentRp(s)' = SentRp(s) \cup Reps(ms)
    /\ Shuts(s)' <=> Shuts(s) \/ CloseConnection \in Elems(ms)

\* It reads nothing.
ReadsNone(s) ==
    /\ Stream(Peer(s))' = Stream(Peer(s)) /\ SentRq(Peer(s))' = SentRq(Peer(s))
    /\ SentRp(Peer(s))' = SentRp(Peer(s)) /\ (Shuts(Peer(s))' <=> Shuts(Peer(s)))

\* It reads m.
Reads(s, m) ==
    /\ m \in Message /\ m \in Elems(Stream(Peer(s)))
    /\ SentRq(Peer(s))' = SentRq(Peer(s)) \ RequestOf(m)
    /\ SentRp(Peer(s))' = SentRp(Peer(s)) \ ReplyOf(m)
    /\ Shuts(Peer(s))' => Shuts(Peer(s))
    /\ m = CloseConnection => Stream(Peer(s))' = <<>>
    /\ Stream(Peer(s)) # <<>>

\* The streams are sequences of messages.
LEMMA StreamType ==
    ASSUME IType, IGood, NEW s \in Side
    PROVE  /\ wire[s] \in Seq(Message) /\ Unwritten(conn[s]) \in Seq(Message)
           /\ Stream(s) \in Seq(Message)
<1>1. wire[s] \in Seq(Message) /\ wire[Peer(s)] \in Seq(Message)
  BY PeerFacts DEF IType, TypeOK
<1>2. Unwritten(conn[s]) \in Seq(Message)
  BY PendType DEF IGood
<1> QED
  BY <1>1, <1>2, ElemsConcat DEF Stream

\* The head and the tail of a concatenation.
LEMMA TailConcat ==
    ASSUME NEW p \in Seq(Message), NEW q \in Seq(Message), p # <<>>
    PROVE  Tail(p \o q) = Tail(p) \o q /\ Head(p \o q) = Head(p) /\ p \o q # <<>>
<1> DEFINE h == <<Head(p)>>
           u == Tail(p)
           v == u \o q
<1>1. h \in Seq(Message) /\ u \in Seq(Message) /\ h \o u = p /\ Head(p) \in Message
  BY HeadAndTail
<1> HIDE DEF u, h
<1>2. p \o q = h \o v /\ v \in Seq(Message)
  <2>1. (h \o u) \o q = h \o (u \o q)
    BY ZenonT(60), <1>1, Regroup
  <2>2. u \o q \in Seq(Message)
    BY <1>1, ElemsConcat
  <2> QED
    BY <1>1, <2>1, <2>2
<1> HIDE DEF v
<1> USE DEF h
<1>3. /\ Len(p \o q) = Len(p) + Len(q) /\ Len(p) \in Nat \ {0} /\ Len(q) \in Nat
      /\ p \o q \in Seq(Message) /\ (p \o q)[1] = p[1]
  BY ConcatProperties, EmptySeq, LenProperties
<1>4. p \o q # <<>> /\ Head(p \o q) = Head(p)
  BY <1>3, EmptySeq
<1>5. Tail(p \o q) \in Seq(Message) /\ <<Head(p \o q)>> \o Tail(p \o q) = p \o q
  BY <1>3, <1>4, HeadAndTail
<1>6. h \o Tail(p \o q) = h \o v
  BY <1>2, <1>4, <1>5
<1> HIDE DEF h
<1>7. Tail(p \o q) = v
  BY <1>1, <1>2, <1>5, <1>6, ConcatSimplifications
<1> QED
  BY <1>4, <1>7 DEF v, u

\* Commit() takes no message or the first one.
LEMMA DropFirst ==
    ASSUME NEW q \in Seq(Message)
    PROVE  /\ SubSeq(q, 0 + 1, Len(q)) = q
           /\ q # <<>> => SubSeq(q, 1 + 1, Len(q)) = Tail(q)
  BY SubSeqFull, TailIsSubSeq

\* A step of side s that leaves e, sends ms and takes n messages from its wire.
LEMMA CommitRecord ==
    ASSUME IType, IGood, NEW s \in Side, NEW e, NEW ms \in Seq(Message), NEW n \in {0, 1},
           Advances(conn[s], e, ms), Commit(s, e, n)
    PROVE  /\ conn' \in [Side -> ConnectionRecord] /\ wire' \in [Side -> Seq(Message)]
           /\ Good(conn'[s]) /\ conn'[s].out = <<>> /\ conn'[s].acked = {}
           /\ conn'[Peer(s)] = conn[Peer(s)]
           /\ conn'[s] = Settled(e)
           /\ Unwritten(conn'[s]) = Unwritten(e) /\ Queued(conn'[s]) = Queued(e)
           /\ wire'[Peer(s)] = wire[Peer(s)] \o e.out
           /\ wire'[s] = SubSeq(wire[s], n + 1, Len(wire[s]))
<1>1. /\ conn \in [Side -> ConnectionRecord] /\ wire \in [Side -> Seq(Message)]
      /\ Peer(s) \in Side /\ Peer(s) # s
  BY PeerFacts DEF IType, TypeOK
<1> DEFINE f == Settled(e)
           p == wire[Peer(s)] \o e.out
           q == SubSeq(wire[s], n + 1, Len(wire[s]))
<1>2. Good(e) /\ e.out \in Seq(Message)
  BY RecordTypes DEF Advances, Good
<1>3. Good(f) /\ f \in ConnectionRecord /\ f.out = <<>> /\ f.acked = {} /\ Unwritten(f) = Unwritten(e)
      /\ Queued(f) = Queued(e)
  BY <1>2, SettledKeeps DEF Good
<1>4. p \in Seq(Message)
  BY <1>1, <1>2, ElemsConcat
<1>5. q \in Seq(Message)
  <2>1. wire[s] \in Seq(Message)
    BY <1>1
  <2>2. q = wire[s] \/ (wire[s] # <<>> /\ q = Tail(wire[s])) \/ wire[s] = <<>>
    BY <2>1, DropFirst
  <2>3. CASE wire[s] = <<>>
    <3>1. q = <<>>
      BY <2>3
    <3> QED
      BY <2>1, <2>3, <3>1
  <2> QED
    BY <2>1, <2>2, <2>3, HeadTailProperties
<1>6. conn' = [conn EXCEPT ![s] = f] /\ wire' = [wire EXCEPT ![Peer(s)] = p, ![s] = q]
  BY <1>1 DEF Commit
<1> HIDE DEF f, p, q
<1>7. conn' \in [Side -> ConnectionRecord] /\ conn'[s] = f /\ conn'[Peer(s)] = conn[Peer(s)]
  BY <1>1, <1>3, <1>6
<1>8. wire' \in [Side -> Seq(Message)] /\ wire'[s] = q /\ wire'[Peer(s)] = p
  BY <1>1, <1>4, <1>5, <1>6
<1> QED
  BY <1>3, <1>7, <1>8 DEF f, p, q

\* What a committed step adds to its own stream.
LEMMA CommitSends ==
    ASSUME IType, IGood, NEW s \in Side, NEW e, NEW ms \in Seq(Message), NEW n \in {0, 1},
           Advances(conn[s], e, ms), Commit(s, e, n)
    PROVE  Sends(s, e, ms)
<1>1. /\ Good(conn'[s]) /\ conn'[Peer(s)] = conn[Peer(s)] /\ conn'[s] = Settled(e)
      /\ Unwritten(conn'[s]) = Unwritten(e) /\ Queued(conn'[s]) = Queued(e)
      /\ wire'[Peer(s)] = wire[Peer(s)] \o e.out
  BY CommitRecord
<1>2. /\ Good(e) /\ Flows(conn[s], e, ms) /\ Good(conn[s]) /\ conn[s].out = <<>> /\ conn[s].acked = {}
      /\ e \in ConnectionRecord
  BY DEF Advances, IGood, Good
<1>3. /\ conn'[s].state = e.state /\ conn'[s].exception = e.exception
      /\ conn'[s].shutdowns = e.shutdowns /\ conn'[s].written = e.written
      /\ conn'[s].requests = e.requests /\ conn'[s].dispatchCount = e.dispatchCount
      /\ conn'[s].sendStreams = e.sendStreams
      /\ conn'[s].writeTimer = e.writeTimer /\ conn'[s].firing = e.firing
  BY <1>1, <1>2 DEF Settled, ConnectionRecord
<1>4. Timed(e) => Timed(conn'[s])
  BY <1>3 DEF Timed
<1>5. /\ Queued(e) \cup e.acked = Queued(conn[s]) \cup Reqs(ms)
      /\ Queued(e) \cap e.acked = {}
  BY <1>2 DEF Flows, Good, Queue
<1> DEFINE w == wire[Peer(s)]
           u == Unwritten(conn[s])
           v == Unwritten(e)
           o == e.out
<1>6. w \in Seq(Message) /\ u \in Seq(Message) /\ v \in Seq(Message) /\ o \in Seq(Message)
  <2>1. w \in Seq(Message)
    BY PeerFacts, StreamType
  <2>2. u \in Seq(Message) /\ v \in Seq(Message)
    BY <1>2, PendType
  <2> QED
    BY <1>2, <2>1, <2>2, RecordTypes
<1>7. o \o v = u \o ms
  <2>1. Pend(conn[s]) = u
    BY <1>2, <1>6, ConcatEmptySeq DEF Pend
  <2> QED
    BY <1>2, <2>1 DEF Flows, Pend
<1>8. Stream(s)' = (w \o o) \o v /\ Stream(s) = w \o u
  BY <1>1 DEF Stream
<1> HIDE DEF w, u, v, o
<1>9. Stream(s)' = Stream(s) \o ms
  <2>1. (w \o o) \o v = w \o (o \o v)
    BY SMTT(30), <1>6, Regroup
  <2>2. (w \o u) \o ms = w \o (u \o ms)
    BY ZenonT(60), <1>6, Regroup
  <2> QED
    BY <1>7, <1>8, <2>1, <2>2
<1>10. Stream(s) \in Seq(Message)
  BY StreamType
<1>11. /\ SentRq(s)' = SentRq(s) \cup Reqs(ms) /\ SentRp(s)' = SentRp(s) \cup Reps(ms)
       /\ Shuts(s)' <=> Shuts(s) \/ CloseConnection \in Elems(ms)
  <2>1. /\ SentRq(s)' = Reqs(Stream(s)') /\ SentRp(s)' = Reps(Stream(s)')
        /\ Shuts(s)' <=> CloseConnection \in Elems(Stream(s)')
    BY DEF SentRq, SentRp, Shuts
  <2>2. /\ Reqs(Stream(s) \o ms) = SentRq(s) \cup Reqs(ms) /\ Reps(Stream(s) \o ms) = SentRp(s) \cup Reps(ms)
        /\ Elems(Stream(s) \o ms) = Elems(Stream(s)) \cup Elems(ms)
    BY <1>10, ElemsConcat DEF SentRq, SentRp
  <2> QED
    BY <1>9, <2>1, <2>2 DEF Shuts
<1> QED
  BY <1>1, <1>3, <1>4, <1>5, <1>9, <1>11 DEF Sends

\* What a committed step takes from the stream of its peer.
LEMMA CommitReads ==
    ASSUME IType, IGood, IShut, NEW s \in Side, NEW e, NEW ms \in Seq(Message), NEW n \in {0, 1},
           n = 1 => wire[s] # <<>>, Advances(conn[s], e, ms), Commit(s, e, n)
    PROVE  /\ n = 0 => ReadsNone(s)
           /\ n = 1 => Reads(s, Head(wire[s])) /\ Stream(Peer(s))' = Tail(Stream(Peer(s)))
<1> DEFINE t == Peer(s)
           q == wire[s]
           u == Unwritten(conn[t])
<1>1. /\ t \in Side /\ Peer(t) = s /\ q \in Seq(Message) /\ u \in Seq(Message)
      /\ Stream(t) = q \o u /\ Stream(t) \in Seq(Message) /\ Tidy(Stream(t))
  <2>1. t \in Side /\ Peer(t) = s
    BY PeerFacts
  <2> QED
    BY <2>1, StreamType DEF Stream, IShut
<1>2. Stream(t)' = SubSeq(q, n + 1, Len(q)) \o u
  <2>1. wire'[s] = SubSeq(q, n + 1, Len(q)) /\ conn'[t] = conn[t]
    BY CommitRecord
  <2>2. Stream(t)' = wire'[Peer(t)] \o Unwritten(conn'[t])
    BY DEF Stream
  <2> QED
    BY <1>1, <2>1, <2>2
<1>3. /\ SentRq(t)' = Reqs(Stream(t)') /\ SentRp(t)' = Reps(Stream(t)')
      /\ Shuts(t)' <=> CloseConnection \in Elems(Stream(t)')
      /\ SentRq(t) = Reqs(Stream(t)) /\ SentRp(t) = Reps(Stream(t))
      /\ Shuts(t) <=> CloseConnection \in Elems(Stream(t))
  BY DEF SentRq, SentRp, Shuts
<1> HIDE DEF t, q, u
<1>4. CASE n = 0
  <2>1. Stream(t)' = Stream(t)
    BY <1>1, <1>2, <1>4, DropFirst
  <2> QED
    BY <1>3, <1>4, <2>1 DEF ReadsNone, t
<1>5. CASE n = 1
  <2>1. q # <<>>
    BY <1>5 DEF q
  <2> DEFINE z == Stream(t)
             m == Head(q)
  <2>2. Stream(t)' = Tail(q) \o u
    BY <1>1, <1>2, <1>5, <2>1, DropFirst
  <2>3. Tail(z) = Tail(q) \o u /\ Head(z) = m /\ z # <<>>
    BY <1>1, <2>1, TailConcat
  <2>4. /\ Tidy(z) /\ z \in Seq(Message)
    BY <1>1
  <2>5. Stream(t)' = Tail(z)
    BY <2>2, <2>3
  <2> HIDE DEF z, m
  <2>6. /\ m \in Message /\ Elems(z) = Elems(Tail(z)) \cup {m}
        /\ m.type \in {"request", "reply"} => m \notin Elems(Tail(z))
        /\ m = CloseConnection => Tail(z) = <<>>
    BY <2>3, <2>4, TidyTail
  <2>7. Reqs(Tail(z)) = Reqs(z) \ RequestOf(m) /\ Reps(Tail(z)) = Reps(z) \ ReplyOf(m)
    <3>1. m.type = "request" => m = Request(m.req)
      BY <2>6, MessageKinds
    <3>2. m.type = "reply" => m = Reply(m.req)
      BY <2>6, MessageKinds
    <3>3. Reqs(Tail(z)) = Reqs(z) \ RequestOf(m)
      BY <2>6, <3>1, MessageFields DEF Reqs, RequestOf
    <3>4. Reps(Tail(z)) = Reps(z) \ ReplyOf(m)
      BY <2>6, <3>2, MessageFields DEF Reps, ReplyOf
    <3> QED
      BY <3>3, <3>4
  <2>8. Reads(s, m) /\ Stream(t)' = Tail(Stream(t))
    BY <1>3, <2>3, <2>5, <2>6, <2>7 DEF Reads, t, z
  <2> QED
    BY <1>5, <2>8 DEF m, q, t
<1> QED
  BY <1>4, <1>5

\* What every step keeps, whatever it sends.
Framed ==
    /\ conn' \in [Side -> ConnectionRecord] /\ wire' \in [Side -> Seq(Message)] /\ IGood'
    /\ \A x \in Side : Tidy(Stream(x))' /\ (Shuts(x)' => conn'[x].shutdowns = 1)

\* A committed step that sends new messages leaves good records and tidy streams.
LEMMA CommitKeeps ==
    ASSUME IType, IGood, IShut, NEW s \in Side, NEW e, NEW ms \in Seq(Message), NEW n \in {0, 1},
           n = 1 => wire[s] # <<>>, Advances(conn[s], e, ms), Commit(s, e, n),
           Tidy(ms), Reqs(ms) \cap SentRq(s) = {}, Reps(ms) \cap SentRp(s) = {}
    PROVE  /\ Framed /\ Sends(s, e, ms)
           /\ n = 0 => ReadsNone(s)
           /\ n = 1 => Reads(s, Head(wire[s]))
<1> DEFINE t == Peer(s)
<1>1. t \in Side /\ t # s /\ Peer(t) = s /\ \A x \in Side : x = s \/ x = t
  BY PeerFacts
<1>2. Sends(s, e, ms)
  BY CommitSends
<1>3. /\ n = 0 => ReadsNone(s)
      /\ n = 1 => Reads(s, Head(wire[s])) /\ Stream(t)' = Tail(Stream(t))
  BY CommitReads
<1>4. /\ conn' \in [Side -> ConnectionRecord] /\ wire' \in [Side -> Seq(Message)]
      /\ Good(conn'[s]) /\ conn'[s].out = <<>> /\ conn'[s].acked = {} /\ conn'[t] = conn[t]
  BY CommitRecord
<1> HIDE DEF t
<1>5. IGood'
  BY <1>1, <1>4 DEF IGood
<1>6. conn[s].shutdowns \in 0 .. 1 /\ (ms # <<>> => conn[s].shutdowns = 0)
      /\ (conn[s].shutdowns = 1 => e.shutdowns = 1)
      /\ (CloseConnection \in Elems(ms) => e.shutdowns = 1)
  <2>1. Good(conn[s])
    BY DEF IGood
  <2>2. conn[s].shutdowns \in 0 .. 1
    BY <2>1, RecordTypes DEF Good, Sound
  <2> QED
    BY <2>2 DEF Advances
<1>7. Tidy(Stream(s)') /\ (Shuts(s)' => conn'[s].shutdowns = 1)
  <2>1. Stream(s) \in Seq(Message) /\ Tidy(Stream(s)) /\ (Shuts(s) => conn[s].shutdowns = 1)
    BY StreamType DEF IShut
  <2>2. ms # <<>> => CloseConnection \notin Elems(Stream(s))
    BY <1>6, <2>1 DEF Shuts
  <2>3. Reqs(Stream(s)) \cap Reqs(ms) = {} /\ Reps(Stream(s)) \cap Reps(ms) = {}
    BY DEF SentRq, SentRp
  <2>4. Tidy(Stream(s) \o ms)
    BY <2>1, <2>2, <2>3, TidySend
  <2>5. Stream(s)' = Stream(s) \o ms /\ (Shuts(s)' <=> Shuts(s) \/ CloseConnection \in Elems(ms))
        /\ conn'[s].shutdowns = e.shutdowns
    BY <1>2 DEF Sends
  <2> QED
    BY <1>6, <2>1, <2>4, <2>5
<1>8. Tidy(Stream(t)') /\ (Shuts(t)' => conn'[t].shutdowns = 1)
  <2>1. Stream(t) \in Seq(Message) /\ Tidy(Stream(t)) /\ (Shuts(t) => conn[t].shutdowns = 1)
    BY <1>1, StreamType DEF IShut
  <2>2. CASE n = 0
    <3>1. Stream(t)' = Stream(t) /\ (Shuts(t)' <=> Shuts(t))
      BY <1>3, <2>2 DEF ReadsNone, t
    <3> QED
      BY <1>4, <2>1, <3>1
  <2>3. CASE n = 1
    <3>1. Stream(t)' = Tail(Stream(t)) /\ (Shuts(t)' => Shuts(t)) /\ Stream(t) # <<>>
      BY <1>3, <2>3 DEF Reads, t
    <3>2. Tidy(Tail(Stream(t)))
      BY <2>1, <3>1, TidyTail
    <3> QED
      BY <1>4, <2>1, <3>1, <3>2
  <2> QED
    BY <2>2, <2>3
<1>9. ASSUME NEW x \in Side
      PROVE  Tidy(Stream(x))' /\ (Shuts(x)' => conn'[x].shutdowns = 1)
  BY <1>1, <1>7, <1>8
<1> QED
  BY <1>2, <1>3, <1>4, <1>5, <1>9 DEF Framed

\* The requests and the replies of ms are sent for the first time.
Fresh(s, ms) ==
    Tidy(ms) /\ Reqs(ms) \cap SentRq(s) = {} /\ Reps(ms) \cap SentRp(s) = {}

\* The same for a step that reads nothing, with its hypotheses in one predicate.
LEMMA FreshKeeps ==
    ASSUME IInv, NEW s \in Side, NEW e, NEW ms \in Seq(Message),
           Advances(conn[s], e, ms), Commit(s, e, 0), Fresh(s, ms)
    PROVE  Framed /\ Sends(s, e, ms) /\ ReadsNone(s)
<1>1. Tidy(ms) /\ Reqs(ms) \cap SentRq(s) = {} /\ Reps(ms) \cap SentRp(s) = {}
  BY DEF Fresh
<1> QED
  BY <1>1, CommitKeeps DEF IInv

\* A request or a reply is the first of its kind, a close connection message the
\* last message, of the stream.
LEMMA TidyOne ==
    ASSUME NEW m \in Message
    PROVE  Tidy(<<m>>)
<1>1. Len(<<m>>) = 1
  OBVIOUS
<1> DEFINE p == <<m>>
<1> HIDE DEF p
<1>2. Len(p) = 1
  BY <1>1 DEF p
<1>3. Tidy(p)
  BY <1>2 DEF Tidy
<1> QED
  BY <1>3 DEF p

\* What a queue holds is not in the socket, unless its head is.
LEMMA QueuedIsSent ==
    ASSUME IType, IGood, NEW s \in Side, ~conn[s].written
    PROVE  Queued(conn[s]) \subseteq SentRq(s)
<1>1. Unwritten(conn[s]) = conn[s].sendStreams
  BY DEF Unwritten
<1>2. wire[Peer(s)] \in Seq(Message) /\ Unwritten(conn[s]) \in Seq(Message)
  BY PeerFacts, StreamType
<1>3. Reqs(Stream(s)) = Reqs(wire[Peer(s)]) \cup Reqs(Unwritten(conn[s]))
  BY <1>2, ElemsConcat DEF Stream
<1> QED
  BY <1>1, <1>3 DEF SentRq, Queued

-----------------------------------------------------------------------------
(* The steps that take no request and no reply off the wire, and send no   *)
(* request.                                                                *)

\* What such a step of s may tell the caller of q.
Learns(s, q) ==
    \/ outcome'[q] = outcome[q] /\ \A u \in upcalls[s] \ upcalls'[s] : q \notin u.reply
    \/ outcome[q] = "idle" /\ outcome'[q] = "retry"
    \/ outcome'[q] = "ok" /\ \E u \in upcalls[s] \ upcalls'[s] : q \in u.reply

\* Dispatches and callbacks may end, with or without a reply.
Local(s, e, ms) ==
    /\ e.requests = conn[s].requests /\ e.acked = {} /\ Reqs(ms) = {}
    /\ Reps(ms) \subseteq (running[s] \ running'[s]) \cap Twoway
    /\ e.exception = "close" => conn[s].exception = "close" \/ conn[s].requests = {}
    /\ ReadsNone(s) \/ Reads(s, ValidateConnection)
    /\ executed' = executed
    /\ running' \in [Side -> SUBSET Requests] /\ running'[s] \subseteq running[s]
    /\ running'[Peer(s)] = running[Peer(s)]
    /\ upcalls' \in [Side -> SUBSET Upcall] /\ upcalls'[s] \subseteq upcalls[s]
    /\ upcalls'[Peer(s)] = upcalls[Peer(s)]
    /\ e.dispatchCount = Cardinality(running'[s]) + Cardinality(upcalls'[s])
    /\ outcome' \in [Requests -> Outcomes] /\ \A q \in Requests : Learns(s, q)
    /\ \A q \in (running[s] \ running'[s]) \cap Twoway :
        q \in Reps(ms) \/ (e.state >= StateClosed /\ ms = <<>>)

\* What the abstract specification allows.
Promised ==
    /\ executed \subseteq executed'
    /\ \A q \in executed' \ executed : outcome[q] \notin {"idle", "retry"} /\ outcome'[q] # "retry"
    /\ \A q \in Requests : Promise!MayBecome(q, outcome'[q])

\* What is shown of every step.
Preserved == IInv' /\ (~CombinedEvents => Promised)

\* A step that sends no request and starts no dispatch preserves the invariant and the promise.
LEMMA LocalKeeps ==
    ASSUME IInv, NEW s \in Side, NEW e, NEW ms \in Seq(Message),
           Advances(conn[s], e, ms), Framed, Sends(s, e, ms), Local(s, e, ms)
    PROVE  Preserved
<1> DEFINE t == Peer(s)
<1>1. t \in Side /\ t # s /\ Peer(t) = s /\ Peer(s) = t /\ \A x \in Side : x = s \/ x = t
  BY PeerFacts
<1>2. /\ executed' = executed
      /\ running' \in [Side -> SUBSET Requests] /\ running'[s] \subseteq running[s] /\ running'[t] = running[t]
      /\ upcalls' \in [Side -> SUBSET Upcall] /\ upcalls'[s] \subseteq upcalls[s] /\ upcalls'[t] = upcalls[t]
      /\ outcome' \in [Requests -> Outcomes] /\ \A q \in Requests : Learns(s, q)
      /\ e.dispatchCount = Cardinality(running'[s]) + Cardinality(upcalls'[s])
  BY DEF Local, t
<1>3. /\ conn'[t] = conn[t] /\ conn'[s].requests = conn[s].requests
      /\ conn'[s].dispatchCount = e.dispatchCount
      /\ Queued(conn'[s]) = Queued(conn[s])
      /\ conn'[s].state = e.state /\ conn'[s].exception = e.exception
      /\ conn'[s].shutdowns = e.shutdowns /\ conn'[s].written = e.written
      /\ Timed(e) => Timed(conn'[s])
  BY DEF Sends, Local, t
<1>4. /\ SentRq(s)' = SentRq(s) /\ SentRp(s)' = SentRp(s) \cup Reps(ms)
      /\ SentRq(t)' = SentRq(t) /\ SentRp(t)' = SentRp(t)
      /\ Shuts(t)' => Shuts(t)
      /\ Stream(t)' = Stream(t) \/ Stream(t) # <<>>
      /\ Stream(s)' = Stream(s) \o ms
      /\ Shuts(s)' <=> Shuts(s) \/ CloseConnection \in Elems(ms)
  <2>1. RequestOf(ValidateConnection) = {} /\ ReplyOf(ValidateConnection) = {}
    BY MessageFields DEF RequestOf, ReplyOf
  <2> QED
    BY <2>1 DEF Sends, Local, ReadsNone, Reads, t
<1>5. Reps(ms) \subseteq (running[s] \ running'[s]) \cap Twoway
  BY DEF Local
<1> HIDE DEF t
<1>6. \A x \in Side : /\ SentRq(x)' = SentRq(x)
                      /\ conn'[x].requests = conn[x].requests /\ Queued(conn'[x]) = Queued(conn[x])
                      /\ running'[x] \subseteq running[x] /\ upcalls'[x] \subseteq upcalls[x]
  BY <1>1, <1>2, <1>3, <1>4
<1>7. \A x \in Side : /\ conn[x].state >= StateClosing => conn'[x].state >= StateClosing
                      /\ conn[x].state >= StateClosed => conn'[x].state >= StateClosed
                      /\ conn'[x].state = StateFinished <=> conn[x].state = StateFinished
  BY <1>1, <1>3 DEF Advances
<1>8. \A x \in Side : IsFiniteSet(running'[x]) /\ IsFiniteSet(upcalls'[x])
  <2>1. \A x \in Side : IsFiniteSet(running[x]) /\ IsFiniteSet(upcalls[x])
    BY DEF IInv, IType
  <2> QED
    BY <1>6, <2>1, FS_Subset
<1>9. IType'
  BY <1>2, <1>8 DEF IInv, IType, TypeOK, Framed
<1>10. DispatchCountExact'
  BY <1>1, <1>2, <1>3 DEF IInv, DispatchCountExact
<1>11. IShut'
  <2>1. e.dispatchCount = 0 => running'[s] = {}
    <3>1. Cardinality(running'[s]) \in Nat /\ Cardinality(upcalls'[s]) \in Nat
      BY <1>8, FS_CardinalityType
    <3>2. Cardinality(running'[s]) = 0 <=> running'[s] = {}
      BY <1>8, FS_EmptySet
    <3> QED
      BY <1>2, <3>1, <3>2
  <2>2. conn'[s].shutdowns = 1 => conn[s].shutdowns = 1 \/ e.dispatchCount = 0
    BY <1>3 DEF Advances
  <2>3. \A x \in Side : conn'[x].shutdowns = 1 => running'[x] = {}
    BY SMTT(30), <1>1, <1>2, <1>3, <2>1, <2>2 DEF IInv, IShut
  <2> QED
    BY <2>3 DEF Framed, IShut
<1>12. \A q \in Requests : outcome'[q] = "idle" => outcome[q] = "idle"
  BY <1>2 DEF Learns
<1>13. \A q \in Requests : outcome'[q] = "pending" =>
          outcome[q] = "pending" /\ \A u \in upcalls[s] \ upcalls'[s] : q \notin u.reply
  BY <1>2 DEF Learns
<1>14. ICalls'
  <2>0. ICalls /\ executed \subseteq Requests
    BY DEF IInv, IType, TypeOK
  <2>1. IExecuted'
    BY <1>2, <1>12, <2>0 DEF ICalls, IExecuted
  <2>2. IRunning'
    BY <1>2, <1>6, <2>0 DEF ICalls, IRunning
  <2>3. ISentRq'
    <3>1. \A x \in Side : SentRq(x) \subseteq Requests
      BY DEF SentRq, Reqs
    <3> QED
      BY <1>2, <1>6, <1>12, <2>0, <3>1 DEF ICalls, ISentRq
  <2>4. ISentRp'
    <3>1. \A q \in SentRp(s)' : Caller[q] = t /\ q \in Twoway /\ q \in executed /\ q \notin running'[s]
      BY <1>1, <1>2, <1>4, <1>5, <2>0 DEF ICalls, ISentRp, IRunning
    <3>2. \A q \in SentRp(t)' : Caller[q] = s /\ q \in Twoway /\ q \in executed /\ q \notin running'[t]
      BY <1>1, <1>2, <1>4, <2>0 DEF ICalls, ISentRp
    <3> QED
      BY <1>1, <1>2, <3>1, <3>2 DEF ISentRp
  <2>5. IQueued'
    <3>1. \A x \in Side : Queued(conn[x]) \subseteq Requests
      BY DEF Queued, Reqs
    <3> QED
      BY <1>6, <1>12, <2>0, <3>1 DEF ICalls, IQueued
  <2>6. IRequests'
    <3> SUFFICES ASSUME NEW x \in Side, NEW q \in conn'[x].requests
                 PROVE  Caller[q] = x /\ q \in Twoway /\ outcome'[q] = "pending"
      BY DEF IRequests
    <3>1. q \in conn[x].requests /\ Caller[q] = x /\ q \in Twoway /\ outcome[q] = "pending"
      BY <1>6, <2>0 DEF ICalls, IRequests
    <3>2. \A u \in upcalls[s] : q \notin u.reply
      BY <1>1, <3>1 DEF IInv, IUp
    <3>3. q \in Requests
      BY <3>1, ConnectionAssumption
    <3> QED
      BY <1>2, <3>1, <3>2, <3>3 DEF Learns
  <2>7. IAwaited'
    <3> SUFFICES ASSUME NEW x \in Side, NEW q \in Twoway, Caller[q] = x,
                        conn'[x].state # StateFinished, Awaited(x, q)'
                 PROVE  q \in conn'[x].requests
      BY DEF IAwaited
    <3>1. Awaited(x, q)
      BY <1>1, <1>2, <1>4, <1>5, <1>6 DEF Awaited
    <3> QED
      BY <1>6, <1>7, <2>0, <3>1 DEF ICalls, IAwaited
  <2> QED
    BY <2>1, <2>2, <2>3, <2>4, <2>5, <2>6, <2>7 DEF ICalls
<1>15. IUp'
  <2>1. \A x \in Side : \A u \in upcalls[x] : u.reply \subseteq Requests /\ u.sent \subseteq Requests
    BY DEF IInv, IType, TypeOK, Upcall
  <2> QED
    BY <1>2, <1>6, <1>12, <2>1 DEF IInv, IUp
<1>16. IForgot'
  <2> SUFFICES ASSUME NEW q \in Requests, outcome'[q] = "pending"
               PROVE  IF q \in Twoway
                      THEN \/ q \in conn'[Caller[q]].requests
                           \/ \E u \in upcalls'[Caller[q]] : q \in u.reply
                      ELSE q \in Queued(conn'[Caller[q]])
    BY DEF IForgot
  <2>1. Caller[q] \in Side
    BY ConnectionAssumption
  <2>2. outcome[q] = "pending" /\ \A u \in upcalls[s] \ upcalls'[s] : q \notin u.reply
    BY <1>13
  <2>3. IF q \in Twoway
        THEN \/ q \in conn[Caller[q]].requests
             \/ \E u \in upcalls[Caller[q]] : q \in u.reply
        ELSE q \in Queued(conn[Caller[q]])
    BY <2>2 DEF IInv, IForgot
  <2> QED
    BY <1>1, <1>2, <1>6, <2>1, <2>2, <2>3
<1>17. IOk'
  <2>1. \A u \in upcalls[s] : \A q \in u.reply : q \in executed
    BY DEF IInv, IUp
  <2>2. \A q \in Twoway : outcome[q] = "ok" => q \in executed
    BY DEF IInv, IOk
  <2>3. Twoway \subseteq Requests
    BY ConnectionAssumption
  <2> QED
    BY <1>2, <2>1, <2>2, <2>3 DEF IOk, Learns
<1>18. ASSUME ~CombinedEvents
       PROVE  INow' /\ Promised
  <2>0. INow
    BY <1>18 DEF IInv
  <2>1. ILife'
    BY <1>1, <1>3, <1>18, <2>0 DEF INow, ILife, Advances
  <2>11. \A u \in upcalls[s] : \A q \in u.reply : outcome[q] = "pending" /\ q \in executed /\ q \in Requests
    BY <2>0 DEF INow, IPending, IInv, IUp, IType, TypeOK, Upcall
  <2>12. \A x \in Side : \A q \in Queued(conn[x]) : q \in Requests /\ q \notin executed /\ outcome[q] = "pending"
    <3>1. \A x \in Side : Queued(conn[x]) \subseteq SentRq(x)
      BY <2>0, QueuedIsSent DEF INow, ILife, IInv
    <3> QED
      BY <2>0, <3>1 DEF INow, IPending, IInv, ICalls, ISentRq, Queued, Reqs
  <2>2. IPending'
    <3>1. ASSUME NEW x \in Side, NEW u \in upcalls'[x], NEW q \in u.reply
          PROVE  outcome'[q] = "pending"
      <4>1. u \in upcalls[x] /\ outcome[q] = "pending" /\ q \in Requests
        BY <1>6, <2>0, <3>1 DEF INow, IPending, IInv, IType, TypeOK, Upcall
      <4>2. \A v \in upcalls[s] \ upcalls'[s] : q \notin v.reply
        <5>1. CASE x = s
          BY <3>1, <4>1, <5>1 DEF IInv, IUp
        <5>2. CASE x = t
          BY <1>1, <3>1, <4>1, <5>2 DEF IInv, IUp
        <5> QED
          BY <1>1, <5>1, <5>2
      <4> QED
        BY <1>2, <4>1, <4>2 DEF Learns
    <3>2. ASSUME NEW x \in Side, NEW q \in Requests, q \in Queued(conn'[x])
          PROVE  outcome'[q] = "pending"
      <4>1. outcome[q] = "pending" /\ q \notin executed
        BY <1>6, <2>12, <3>2
      <4> QED
        BY <1>2, <2>11, <4>1 DEF Learns
    <3> QED
      BY <3>1, <3>2 DEF IPending
  <2>3. IRetry'
    <3> SUFFICES ASSUME NEW q \in Requests, outcome'[q] = "retry"
                 PROVE  /\ q \notin executed'
                        /\ \A x \in Side : q \in SentRq(x)' => conn'[Peer(x)].state >= StateClosing
      BY DEF IRetry
    <3>1. \A x \in Side : Peer(x) \in Side
      BY PeerFacts
    <3>2. CASE outcome[q] = "retry"
      BY <1>2, <1>6, <1>7, <2>0, <3>1, <3>2 DEF INow, IRetry
    <3>3. CASE outcome[q] = "idle"
      BY <1>2, <1>6, <3>3 DEF IInv, ICalls, IExecuted, ISentRq
    <3> QED
      BY <1>2, <3>2, <3>3 DEF Learns
  <2>4. conn[s].shutdowns = 1 \/ conn[s].state >= StateClosed => ms = <<>>
    <3>1. Good(conn[s])
      BY DEF IInv, IGood
    <3>2. conn[s].state \in 0 .. 6
      BY <3>1, RecordTypes DEF Good
    <3> QED
      BY <3>2, StatesAre DEF Advances, StateNames
  <2>5. ms = <<>> => Stream(s)' = Stream(s) /\ (Shuts(s)' <=> Shuts(s))
    <3>1. Stream(s) \in Seq(Message)
      BY StreamType DEF IInv
    <3> QED
      BY <1>4, <3>1, ElemsEmpty, ConcatEmptySeq
  <2>6. conn'[s].exception = "close" => conn[s].exception = "close" \/ conn[s].requests = {}
    BY <1>3 DEF Local
  <2>13. /\ conn[s].exception = "close" /\ conn[s].requests # {} =>
            conn[t].shutdowns = 1 /\ Stream(t) = <<>>
         /\ conn[t].exception = "close" /\ conn[t].requests # {} =>
            conn[s].shutdowns = 1 /\ Stream(s) = <<>>
    BY <1>1, <2>0 DEF INow, IClose
  <2>7. /\ conn'[s].exception = "close" /\ conn'[s].requests # {} =>
            conn'[t].shutdowns = 1 /\ Stream(t)' = <<>>
        /\ conn'[t].exception = "close" /\ conn'[t].requests # {} =>
            conn'[s].shutdowns = 1 /\ Stream(s)' = <<>>
    <3>2. conn[s].shutdowns = 1 => conn'[s].shutdowns = 1
      BY <1>3 DEF Advances
    <3> QED
      BY <1>3, <1>4, <2>4, <2>5, <2>6, <2>13, <3>2
  <2>8. ASSUME NEW r \in conn'[s].requests, r \in executed'
        PROVE  \/ r \in running'[t] \/ r \in SentRp(t)'
               \/ conn'[t].state >= StateClosed /\ ~Shuts(t)' /\ conn'[s].exception # "close"
    <3>1. \/ r \in running[t] \/ r \in SentRp(t)
          \/ conn[t].state >= StateClosed /\ ~Shuts(t) /\ conn[s].exception # "close"
      BY <1>1, <1>2, <1>3, <2>0, <2>8 DEF INow, IClose
    <3>2. conn[s].requests # {}
      BY <1>3, <2>8
    <3> QED
      BY <1>2, <1>3, <1>4, <2>6, <3>1, <3>2
  <2>9. ASSUME NEW r \in conn'[t].requests, r \in executed'
        PROVE  \/ r \in running'[s] \/ r \in SentRp(s)'
               \/ conn'[s].state >= StateClosed /\ ~Shuts(s)' /\ conn'[t].exception # "close"
    <3>1. \/ r \in running[s] \/ r \in SentRp(s)
          \/ conn[s].state >= StateClosed /\ ~Shuts(s) /\ conn[t].exception # "close"
      BY <1>1, <1>2, <1>3, <2>0, <2>9 DEF INow, IClose
    <3>2. r \in conn[t].requests /\ r \in Twoway
      BY <1>1, <1>3, <2>9 DEF IInv, ICalls, IRequests
    <3>3. CASE r \in running[s] /\ r \notin running'[s]
      <4>1. r \in Reps(ms) \/ (e.state >= StateClosed /\ ms = <<>>)
        BY <3>2, <3>3 DEF Local
      <4>2. conn[s].shutdowns # 1 /\ ~Shuts(s)
        BY <3>3 DEF IInv, IShut
      <4>3. conn[t].exception # "close"
        BY <2>13, <3>2, <4>2
      <4> QED
        BY <1>3, <1>4, <2>5, <4>1, <4>2, <4>3
    <3>4. CASE r \in SentRp(s)
      BY <1>4, <3>4
    <3>5. CASE conn[s].state >= StateClosed /\ ~Shuts(s) /\ conn[t].exception # "close"
      BY <1>3, <1>7, <2>4, <2>5, <3>5
    <3> QED
      BY <3>1, <3>3, <3>4, <3>5
  <2>10. IClose'
    BY <1>1, <2>7, <2>8, <2>9 DEF IClose
  <2>14. Promised
    <3>1. ASSUME NEW q \in Requests
          PROVE  Promise!MayBecome(q, outcome'[q])
      BY <1>2, <2>11, <3>1 DEF Learns, Promise!MayBecome, IInv, ICalls, IExecuted
    <3> QED
      BY <1>2, <3>1 DEF Promised
  <2> QED
    BY <2>1, <2>2, <2>3, <2>10, <2>14 DEF INow
<1> QED
  BY <1>9, <1>10, <1>11, <1>14, <1>15, <1>16, <1>17, <1>18 DEF IInv, Framed, Preserved

\* The streams without requests and replies that a step may send.
Notice == {<<>>, <<CloseConnection>>, <<ValidateConnection>>}

\* A notice carries no request and no reply.
LEMMA NoticeFacts ==
    /\ <<>> \in Notice /\ <<CloseConnection>> \in Notice /\ <<ValidateConnection>> \in Notice
    /\ \A ms \in Notice : ms \in Seq(Message) /\ Reqs(ms) = {} /\ Reps(ms) = {} /\ Tidy(ms)
<1> DEFINE p == <<CloseConnection>>
           q == <<ValidateConnection>>
           nil == <<>>
<1>1. p \in Seq(Message) /\ Reqs(p) = {} /\ Reps(p) = {} /\ Tidy(p)
  BY MessageFields, ElemsOne, TidyOne
<1>2. q \in Seq(Message) /\ Reqs(q) = {} /\ Reps(q) = {} /\ Tidy(q)
  BY MessageFields, ElemsOne, TidyOne
<1>3. nil \in Seq(Message) /\ Reqs(nil) = {} /\ Reps(nil) = {} /\ Tidy(nil)
  BY ElemsEmpty
<1>4. Notice = {nil, p, q}
  BY DEF Notice
<1> HIDE DEF p, q, nil
<1>5. \A ms \in Notice : ms \in Seq(Message) /\ Reqs(ms) = {} /\ Reps(ms) = {} /\ Tidy(ms)
  BY <1>1, <1>2, <1>3, <1>4
<1> QED
  BY <1>5 DEF Notice

\* Only the connection changes.
Idle == UNCHANGED <<running, upcalls, executed, outcome>>

\* Between steps the record of a side is good and settled.
LEMMA GoodRecord ==
    ASSUME IInv, NEW s \in Side
    PROVE  Good(conn[s]) /\ conn[s].out = <<>> /\ conn[s].acked = {} /\ conn[s].state \in 0 .. 6
  BY RecordTypes DEF IInv, IGood, Good

\* A step of one side that changes no invocation.
LEMMA QuietStep ==
    ASSUME IInv, NEW s \in Side, NEW e, NEW ms \in Notice, NEW n \in {0, 1},
           n = 1 => wire[s] # <<>> /\ Head(wire[s]) = ValidateConnection,
           Advances(conn[s], e, ms), Commit(s, e, n), SameCalls(conn[s], e),
           e.exception = "close" => conn[s].exception = "close" \/ conn[s].requests = {},
           Idle
    PROVE  Preserved
<1>1. ms \in Seq(Message) /\ Reqs(ms) = {} /\ Reps(ms) = {} /\ Tidy(ms)
  BY NoticeFacts
<1>2. IType /\ IGood /\ IShut
  BY DEF IInv
<1>3. /\ Framed /\ Sends(s, e, ms)
      /\ n = 0 => ReadsNone(s)
      /\ n = 1 => Reads(s, Head(wire[s]))
  BY <1>1, <1>2, CommitKeeps
<1>4. conn[s].acked = {} /\ e.requests = conn[s].requests /\ e.acked = {}
      /\ e.dispatchCount = conn[s].dispatchCount
  BY GoodRecord DEF SameCalls, SameWork
<1>5. running' = running /\ upcalls' = upcalls /\ executed' = executed /\ outcome' = outcome
  BY DEF Idle
<1>6. /\ running \in [Side -> SUBSET Requests] /\ upcalls \in [Side -> SUBSET Upcall]
      /\ outcome \in [Requests -> Outcomes]
      /\ conn[s].dispatchCount = Cardinality(running[s]) + Cardinality(upcalls[s])
  BY DEF IInv, IType, TypeOK, DispatchCountExact
<1>7. Local(s, e, ms)
  BY <1>1, <1>3, <1>4, <1>5, <1>6 DEF Local, Learns
<1> QED
  BY <1>1, <1>3, <1>7, LocalKeeps

\* Nothing is sent and nothing read.
LEMMA SilentStep ==
    ASSUME IInv, NEW s \in Side, NEW e, Advances(conn[s], e, <<>>), Commit(s, e, 0),
           SameCalls(conn[s], e),
           e.exception = "close" => conn[s].exception = "close" \/ conn[s].requests = {},
           Idle
    PROVE  Preserved
<1> DEFINE nil == <<>>
<1>1. nil \in Notice /\ Advances(conn[s], e, nil)
  BY NoticeFacts
<1> HIDE DEF nil
<1> QED
  BY <1>1, QuietStep

\* Establish() from a record b that differs from conn[s] in what it may.
LEMMA EstablishStep ==
    ASSUME IInv, NEW s \in Side, conn[s].state <= StateNotValidated, NEW b, Good(b), b.started,
           SameQueue(conn[s], b), SameCalls(conn[s], b), b.state = conn[s].state,
           b.exception = conn[s].exception, b.shutdowns = conn[s].shutdowns,
           Timed(conn[s]) => Timed(b),
           NEW how \in Steps, Reachable(s, how),
           Commit(s, Establish(s, b, how), Consumed(s, how)), Idle
    PROVE  Preserved
<1> DEFINE c == conn[s]
           e == Establish(s, b, how)
           n == Consumed(s, how)
<1>1. Good(c) /\ c.out = <<>> /\ b.out = <<>>
  BY GoodRecord DEF SameQueue
<1>2. n \in {0, 1} /\ (n = 1 => wire[s] # <<>> /\ Head(wire[s]) = ValidateConnection)
  BY DEF Consumed, Reachable
<1> HIDE DEF n
<1>3. /\ Advances(b, e, <<>>) \/ Advances(b, e, <<ValidateConnection>>)
      /\ SameWork(b, e) /\ e.acked = b.acked
  BY <1>1, AdvancesEstablish
<1>4. PICK ms \in Notice : Advances(b, e, ms)
  BY <1>3, NoticeFacts
<1>5. Commit(s, e, n)
  BY DEF n
<1> HIDE DEF e
<1>6. Advances(c, e, ms)
  BY <1>1, <1>4, AdvancesThen
<1>7. SameCalls(c, e) /\ c.requests = {}
  <2>1. c.requests = {}
    BY <1>1 DEF Good, Sound
  <2> QED
    BY <1>3, <2>1 DEF SameCalls, SameWork
<1> QED
  BY <1>2, <1>5, <1>6, <1>7, QuietStep

\* start().
LEMMA StartInv ==
    ASSUME IInv, NEW s \in Side, Start(s)
    PROVE  Preserved
<1> DEFINE c == conn[s]
<1>1. Good(c) /\ c.state \in 0 .. 6 /\ Idle /\ ~c.started
  BY GoodRecord DEF Start, Idle
<1>2. CASE c.state >= StateClosed /\ Commit(s, [conn[s] EXCEPT !.started = TRUE], 0)
  <2> DEFINE b == [conn[s] EXCEPT !.started = TRUE]
  <2>0. Commit(s, b, 0) /\ b = [c EXCEPT !.started = TRUE]
    BY <1>2
  <2> HIDE DEF b
  <2>1. /\ Good(b) /\ SameQueue(c, b) /\ SameCalls(c, b) /\ b.state = c.state
        /\ b.exception = c.exception /\ b.shutdowns = c.shutdowns /\ (Timed(c) => Timed(b))
    BY ZenonT(60), <1>1, <2>0, StartKeeps
  <2>2. Advances(c, b, <<>>)
    <3>1. Flows(c, b, <<>>)
      BY <1>1, <2>1, FlowsNothing
    <3> QED
      BY <2>1, <3>1, ElemsEmpty DEF Advances, SameQueue
  <2> QED
    BY <1>1, <2>0, <2>1, <2>2, SilentStep
<1>3. CASE /\ c.state < StateClosed
           /\ \E how \in Steps :
                /\ Reachable(s, how)
                /\ LET d == [conn[s] EXCEPT !.started = TRUE,
                                 !.startCallback = how \in {"connect", "validate"}]
                   IN Commit(s, Establish(s, d, how), Consumed(s, how))
  <2>1. PICK how \in Steps :
                /\ Reachable(s, how)
                /\ LET d == [conn[s] EXCEPT !.started = TRUE,
                                 !.startCallback = how \in {"connect", "validate"}]
                   IN Commit(s, Establish(s, d, how), Consumed(s, how))
    BY <1>3
  <2> DEFINE flag == how \in {"connect", "validate"}
             b == [conn[s] EXCEPT !.started = TRUE, !.startCallback = flag]
  <2>2. flag \in BOOLEAN /\ b = [c EXCEPT !.started = TRUE, !.startCallback = flag]
        /\ Commit(s, Establish(s, b, how), Consumed(s, how)) /\ Reachable(s, how)
    BY <2>1
  <2> HIDE DEF flag, b
  <2>3. c.state < StateClosed /\ Good(c)
    BY <1>1, <1>3
  <2> HIDE DEF c
  <2>4. /\ Good(b) /\ SameQueue(c, b) /\ SameCalls(c, b) /\ b.state = c.state
        /\ b.exception = c.exception /\ b.shutdowns = c.shutdowns /\ (Timed(c) => Timed(b))
        /\ b.started
    BY ZenonT(60), <2>2, <2>3, StartKeeps
  <2>5. c.state <= StateNotValidated
    BY <1>1, <2>3, StatesAre DEF Good, Sound, StateNames
  <2> QED
    BY <1>1, <2>2, <2>4, <2>5, EstablishStep DEF c
<1> QED
  BY <1>2, <1>3 DEF Start

\* message() during establishment.
LEMMA MessageEstablishInv ==
    ASSUME IInv, NEW s \in Side, MessageEstablish(s)
    PROVE  Preserved
<1> DEFINE c == conn[s]
<1>1. Good(c) /\ Idle /\ c.started /\ c.state <= StateNotValidated
  BY GoodRecord DEF MessageEstablish, Idle
<1>2. PICK how \in Steps :
        /\ Reachable(s, how)
        /\ LET d == [UnscheduleTimeout(conn[s], conn[s].reg)
                        EXCEPT !.startCallback = @ /\ how # "done"]
           IN Commit(s, Establish(s, d, how), Consumed(s, how))
  BY DEF MessageEstablish
<1> DEFINE b == Resumes(c, how)
<1>3. Commit(s, Establish(s, b, how), Consumed(s, how)) /\ Reachable(s, how)
  BY <1>2 DEF Resumes
<1>4. b = Resumes(c, how)
  OBVIOUS
<1> HIDE DEF b, c
<1>5. /\ Good(b) /\ SameQueue(c, b) /\ SameCalls(c, b) /\ b.state = c.state
      /\ b.exception = c.exception /\ b.shutdowns = c.shutdowns /\ Timed(b) /\ b.started
  BY <1>1, <1>4, CallbackKeeps
<1> QED
  BY <1>1, <1>3, <1>5, EstablishStep DEF c

\* activate() and hold().
LEMMA ActivateInv ==
    ASSUME IInv, NEW s \in Side, Activate(s) \/ Hold(s)
    PROVE  Preserved
<1>1. Good(conn[s]) /\ Idle
  BY GoodRecord DEF Activate, Hold, Idle
<1>2. CASE Activate(s)
  <2> DEFINE e == SetActive(conn[s])
  <2>1. Commit(s, e, 0) /\ conn[s].state = StateHolding
    BY <1>2 DEF Activate
  <2>2. Advances(conn[s], e, <<>>) /\ SameWork(conn[s], e) /\ e.acked = conn[s].acked /\ e.exception = conn[s].exception
    BY <1>1, <2>1, AdvancesActive
  <2> HIDE DEF e
  <2> QED
    BY <1>1, <2>1, <2>2, SilentStep DEF SameCalls
<1>3. CASE Hold(s)
  <2> DEFINE e == SetHolding(conn[s])
  <2>1. Commit(s, e, 0) /\ conn[s].state = StateActive
    BY <1>3 DEF Hold
  <2>2. Advances(conn[s], e, <<>>) /\ SameWork(conn[s], e) /\ e.acked = conn[s].acked /\ e.exception = conn[s].exception
    BY <1>1, <2>1, AdvancesHolding
  <2> HIDE DEF e
  <2> QED
    BY <1>1, <2>1, <2>2, SilentStep DEF SameCalls
<1> QED
  BY <1>2, <1>3

\* setState(StateClosed) alone: close(true) and the timeout of an invocation.
LEMMA ClosedStep ==
    ASSUME IInv, NEW s \in Side, Commit(s, SetClosed(conn[s], "other"), 0), Idle
    PROVE  Preserved
<1> DEFINE c == conn[s]
           e == SetClosed(c, "other")
<1>1. Good(c) /\ c.exception \in Exceptions
  BY GoodRecord, RecordTypes DEF Good
<1>2. /\ Advances(c, e, <<>>) /\ SameWork(c, e) /\ e.acked = c.acked
      /\ (c.exception = NoException => e.exception = "other")
  BY <1>1, AdvancesClosed
<1>3. Commit(s, e, 0)
  OBVIOUS
<1> HIDE DEF e
<1>4. SameCalls(c, e) /\ (e.exception = "close" => c.exception = "close")
  BY <1>2 DEF SameCalls, Advances
<1> QED
  BY <1>2, <1>3, <1>4, SilentStep

\* close(true) and the timeout of an invocation.
LEMMA ForcefulInv ==
    ASSUME IInv, NEW s \in Side,
           CloseForcefully(s) \/ \E r \in Requests : InvocationTimeout(s, r)
    PROVE  Preserved
<1>1. Commit(s, SetClosed(conn[s], "other"), 0) /\ Idle
  BY DEF CloseForcefully, InvocationTimeout, Idle
<1> QED
  BY <1>1, ClosedStep

\* setState(StateClosing).
LEMMA ClosingStep ==
    ASSUME IInv, NEW s \in Side, conn[s].state < StateClosing, NEW w \in Writes,
           NEW ex \in {"close", "other"}, ex = "close" => conn[s].requests = {},
           Commit(s, SetClosing(conn[s], ex, w), 0), Idle
    PROVE  Preserved
<1> DEFINE c == conn[s]
           e == SetClosing(c, ex, w)
<1>1. Good(c)
  BY GoodRecord
<1>2. /\ Advances(c, e, <<>>) \/ Advances(c, e, <<CloseConnection>>)
      /\ SameWork(c, e) /\ e.exception = ex /\ e.acked = c.acked
  BY <1>1, AdvancesClosing
<1>3. PICK ms \in Notice : Advances(c, e, ms)
  BY <1>2, NoticeFacts
<1>4. Commit(s, e, 0)
  OBVIOUS
<1> HIDE DEF e
<1>5. SameCalls(c, e) /\ (e.exception = "close" => c.requests = {})
  BY <1>2 DEF SameCalls
<1> QED
  BY <1>3, <1>4, <1>5, QuietStep

\* close(false), destroy() and monitor().
LEMMA GracefulInv ==
    ASSUME IInv, NEW s \in Side, CloseGracefully(s) \/ Destroy(s) \/ Monitor(s)
    PROVE  Preserved
<1>1. Idle
  BY DEF CloseGracefully, Destroy, Monitor, Idle
<1>2. CASE CloseGracefully(s)
  <2>1. PICK w \in Writes : Commit(s, SetClosing(conn[s], "close", w), 0)
    BY <1>2 DEF CloseGracefully
  <2>2. conn[s].state < StateClosing /\ conn[s].requests = {}
    BY <1>2 DEF CloseGracefully
  <2> QED
    BY <1>1, <2>1, <2>2, ClosingStep
<1>3. CASE Destroy(s) \/ Monitor(s)
  <2>1. PICK w \in Writes : Commit(s, SetClosing(conn[s], "other", w), 0)
    BY <1>3 DEF Destroy, Monitor
  <2>2. conn[s].state < StateClosing
    BY <1>3, StatesAre DEF Destroy, Monitor, StateNames
  <2> QED
    BY <1>1, <2>1, <2>2, ClosingStep
<1> QED
  BY <1>2, <1>3

\* The timer takes a timeout task, and timedOut().
LEMMA TimersInv ==
    ASSUME IInv, NEW s \in Side, TimerFires(s) \/ TimedOut(s)
    PROVE  Preserved
<1> DEFINE c == conn[s]
<1>1. Good(c) /\ Idle
  BY GoodRecord DEF TimerFires, TimedOut, Idle
<1>2. CASE TimerFires(s)
  <2>1. PICK e \in {[c EXCEPT !.firing = TRUE, !.readTimer = FALSE],
                    [c EXCEPT !.firing = TRUE, !.writeTimer = FALSE]} : Commit(s, e, 0)
    BY <1>2 DEF TimerFires
  <2>2. Advances(c, e, <<>>) /\ SameCalls(c, e) /\ e.exception = c.exception
    <3>1. \/ e = [c EXCEPT !.firing = TRUE, !.readTimer = FALSE]
          \/ e = [c EXCEPT !.firing = TRUE, !.writeTimer = FALSE]
      OBVIOUS
    <3> QED
      BY <1>1, <3>1, TimerKeeps
  <2> QED
    BY <1>1, <2>1, <2>2, SilentStep
<1>3. CASE TimedOut(s)
  <2> DEFINE e == SetClosed([c EXCEPT !.firing = FALSE], "other")
  <2>1. Commit(s, e, 0)
    BY <1>3 DEF TimedOut
  <2>2. /\ Advances(c, e, <<>>) /\ SameCalls(c, e)
        /\ e.exception = "close" => c.exception = "close"
    BY <1>1, TimedOutKeeps
  <2> HIDE DEF e
  <2> QED
    BY <1>1, <2>1, <2>2, SilentStep
<1> QED
  BY <1>2, <1>3

\* message() reads a part of a message.
LEMMA PartialInv ==
    ASSUME IInv, NEW s \in Side, NEW op \in Operations, MessagePartial(s, op)
    PROVE  Preserved
<1> DEFINE c == conn[s]
           c0 == UnscheduleTimeout(c, op)
           c1 == IF "write" \in op THEN WriteHead(c0) ELSE c0
<1>1. Good(c) /\ Idle /\ Ready(c, op) /\ "read" \in op
  BY GoodRecord DEF MessagePartial, Idle
<1>2. PICK e : /\ e = c1 \/ e = ScheduleReadTimeout([c1 EXCEPT !.partial = TRUE])
               /\ Commit(s, e, 0)
  BY DEF MessagePartial
<1>3. Advances(c, e, <<>>) /\ SameCalls(c, e) /\ e.exception = c.exception
  BY <1>1, <1>2, PartialKeeps
<1> QED
  BY <1>1, <1>2, <1>3, SilentStep

\* The socket fails in message().
LEMMA FailsInv ==
    ASSUME IInv, NEW s \in Side, NEW op \in Operations, MessageFails(s, op)
    PROVE  Preserved
<1> DEFINE c == conn[s]
           c0 == UnscheduleTimeout(c, op)
<1>1. Good(c) /\ Idle /\ Ready(c, op)
  BY GoodRecord DEF MessageFails, Idle
<1>2. PICK e : /\ \/ e = SetClosed(c0, "other")
                  \/ op = {"read", "write"} /\ e = SetClosed(WriteHead(c0), "other")
               /\ Commit(s, e, 0)
  BY DEF MessageFails
<1>3. /\ Advances(c, e, <<>>) /\ SameCalls(c, e)
      /\ e.exception = "close" => c.exception = "close"
  BY <1>1, <1>2, FailsKeeps
<1> QED
  BY <1>1, <1>2, <1>3, SilentStep

-----------------------------------------------------------------------------
(* The ends of dispatches and callbacks.                                   *)

\* What the end of a dispatch may send.
LEMMA ReplyStreams ==
    ASSUME NEW r \in Requests, NEW ms,
           ms \in Notice \/ ms = <<Reply(r)>> \/ ms = ThenClose(<<Reply(r)>>)
    PROVE  /\ ms \in Seq(Message) /\ Tidy(ms) /\ Reqs(ms) = {}
           /\ ms \in Notice => Reps(ms) = {}
           /\ ms \notin Notice => Reps(ms) = {r}
<1> DEFINE p == <<Reply(r)>>
           q == <<CloseConnection>>
<1>1. /\ p \in Seq(Message) /\ Tidy(p) /\ Reqs(p) = {} /\ Reps(p) = {r}
      /\ CloseConnection \notin Elems(p)
  BY MessageFields, ElemsOne, TidyOne
<1>2. q \in Seq(Message) /\ Tidy(q) /\ Reqs(q) = {} /\ Reps(q) = {}
  BY NoticeFacts
<1>3. ms \in Notice \/ ms = p \/ ms = p \o q
  BY DEF ThenClose
<1> HIDE DEF p, q
<1>4. /\ p \o q \in Seq(Message) /\ Reqs(p \o q) = Reqs(p) \cup Reqs(q)
      /\ Reps(p \o q) = Reps(p) \cup Reps(q)
  BY <1>1, <1>2, ElemsConcat
<1>5. Tidy(p \o q)
  BY <1>1, <1>2, TidySend
<1>6. ms \in Notice => ms \in Seq(Message) /\ Tidy(ms) /\ Reqs(ms) = {} /\ Reps(ms) = {}
  BY NoticeFacts
<1> QED
  BY <1>1, <1>2, <1>3, <1>4, <1>5, <1>6

\* The dispatches and upcalls are finitely many, and counted.
LEMMA CountFacts ==
    ASSUME IInv, NEW s \in Side
    PROVE  /\ IsFiniteSet(running[s]) /\ IsFiniteSet(upcalls[s])
           /\ Cardinality(running[s]) \in Nat /\ Cardinality(upcalls[s]) \in Nat
           /\ conn[s].dispatchCount = Cardinality(running[s]) + Cardinality(upcalls[s])
           /\ running[s] # {} \/ upcalls[s] # {} => conn[s].dispatchCount # 0
<1>1. IsFiniteSet(running[s]) /\ IsFiniteSet(upcalls[s])
  BY DEF IInv, IType
<1>2. /\ Cardinality(running[s]) \in Nat /\ (Cardinality(running[s]) = 0 <=> running[s] = {})
  BY <1>1, FS_CardinalityType, FS_EmptySet
<1>3. /\ Cardinality(upcalls[s]) \in Nat /\ (Cardinality(upcalls[s]) = 0 <=> upcalls[s] = {})
  BY <1>1, FS_CardinalityType, FS_EmptySet
<1>4. conn[s].dispatchCount = Cardinality(running[s]) + Cardinality(upcalls[s])
  BY DEF IInv, DispatchCountExact
<1> QED
  BY <1>1, <1>2, <1>3, <1>4

\* The dispatch of r ends.
LEMMA DispatchEnds ==
    ASSUME IInv, NEW s \in Side, NEW r \in running[s], NEW e, NEW ms,
           ms \in Notice \/ ms = <<Reply(r)>> \/ ms = ThenClose(<<Reply(r)>>),
           ms \notin Notice => r \in Twoway,
           r \in Twoway /\ ms \in Notice => e.state >= StateClosed /\ ms = <<>>,
           Ends(conn[s], e, ms), Commit(s, e, 0),
           running' = [running EXCEPT ![s] = @ \ {r}],
           UNCHANGED <<upcalls, executed, outcome>>
    PROVE  Preserved
<1>0. r \in Requests /\ running \in [Side -> SUBSET Requests] /\ Peer(s) \in Side /\ Peer(s) # s
  BY PeerFacts DEF IInv, IType, TypeOK
<1>1. /\ ms \in Seq(Message) /\ Tidy(ms) /\ Reqs(ms) = {}
      /\ Reps(ms) \subseteq {r} \cap Twoway
      /\ r \in Twoway => r \in Reps(ms) \/ (e.state >= StateClosed /\ ms = <<>>)
  BY <1>0, ReplyStreams
<1>2. r \notin SentRp(s)
  BY DEF IInv, ICalls, ISentRp
<1>3. IType /\ IGood /\ IShut /\ Advances(conn[s], e, ms)
  BY DEF IInv, Ends
<1>4. Framed /\ Sends(s, e, ms) /\ ReadsNone(s)
  <2>1. Reqs(ms) \cap SentRq(s) = {} /\ Reps(ms) \cap SentRp(s) = {}
    BY <1>1, <1>2
  <2> QED
    BY <1>1, <1>3, <2>1, CommitKeeps
<1>5. /\ running'[s] = running[s] \ {r} /\ running'[Peer(s)] = running[Peer(s)]
      /\ running' \in [Side -> SUBSET Requests]
  BY <1>0
<1>6. e.dispatchCount = Cardinality(running'[s]) + Cardinality(upcalls'[s])
  <2>1. Cardinality(running[s] \ {r}) = Cardinality(running[s]) - 1
    BY CountFacts, FS_RemoveElement
  <2>2. e.dispatchCount = conn[s].dispatchCount - 1 /\ upcalls' = upcalls
    BY DEF Ends
  <2> QED
    BY <1>5, <2>1, <2>2, CountFacts
<1>7. /\ e.requests = conn[s].requests /\ e.acked = {}
      /\ e.exception = "close" => conn[s].exception = "close"
  BY GoodRecord DEF Ends
<1>8. /\ upcalls' \in [Side -> SUBSET Upcall] /\ upcalls' = upcalls /\ executed' = executed
      /\ outcome' \in [Requests -> Outcomes] /\ outcome' = outcome
  BY DEF IInv, IType, TypeOK
<1>9. Local(s, e, ms)
  BY <1>1, <1>4, <1>5, <1>6, <1>7, <1>8 DEF Local, Learns
<1> QED
  BY <1>1, <1>3, <1>4, <1>9, LocalKeeps

\* invokeException().
LEMMA InvokeExceptionInv ==
    ASSUME IInv, NEW s \in Side, NEW r \in Requests, InvokeException(s, r)
    PROVE  Preserved
<1> DEFINE e == DispatchDone(SetClosed(conn[s], "other"))
           nil == <<>>
<1>1. /\ r \in running[s] /\ running' = [running EXCEPT ![s] = @ \ {r}]
      /\ Commit(s, e, 0) /\ UNCHANGED <<upcalls, executed, outcome>>
  BY DEF InvokeException
<1>2. Good(conn[s]) /\ conn[s].dispatchCount # 0
  BY <1>1, GoodRecord, CountFacts
<1>3. Ends(conn[s], e, nil) /\ e.state >= StateClosed
  BY <1>2, ExceptionKeeps
<1>4. nil \in Notice /\ nil = <<>>
  BY NoticeFacts
<1> HIDE DEF e, nil
<1> QED
  BY <1>1, <1>3, <1>4, DispatchEnds

\* sendNoResponse().
LEMMA SendNoResponseInv ==
    ASSUME IInv, NEW s \in Side, NEW r \in Requests, SendNoResponse(s, r)
    PROVE  Preserved
<1> DEFINE c == conn[s]
           b == DispatchDone(c)
<1>1. /\ r \in running[s] /\ r \notin Twoway /\ running' = [running EXCEPT ![s] = @ \ {r}]
      /\ UNCHANGED <<upcalls, executed, outcome>>
  BY DEF SendNoResponse
<1>2. PICK w \in Writes : Commit(s, ShutdownIfIdle(b, w), 0)
  BY DEF SendNoResponse
<1> DEFINE e == ShutdownIfIdle(b, w)
<1>3. Good(c) /\ c.dispatchCount # 0
  BY <1>1, GoodRecord, CountFacts
<1>4. c.shutdowns = 0
  <2>1. c.shutdowns \in 0 .. 1
    BY <1>3, RecordTypes DEF Good, Sound
  <2> QED
    BY <1>1, <2>1 DEF IInv, IShut
<1>5. Ends(c, e, <<>>) \/ Ends(c, e, <<CloseConnection>>)
  <2>1. \/ e = b
        \/ /\ e = InitiateShutdown(b, w)
           /\ b.state = StateClosing /\ b.dispatchCount = 0 /\ c.shutdowns = 0
    BY <1>4 DEF ShutdownIfIdle
  <2> QED
    BY <1>3, <2>1, EndKeeps
<1>6. PICK ms \in Notice : Ends(c, e, ms)
  BY <1>5, NoticeFacts
<1>7. Commit(s, e, 0)
  BY <1>2
<1> HIDE DEF e
<1> QED
  BY <1>1, <1>6, <1>7, DispatchEnds

\* sendResponse().
LEMMA SendResponseInv ==
    ASSUME IInv, NEW s \in Side, NEW r \in Requests, SendResponse(s, r)
    PROVE  Preserved
<1> DEFINE c == conn[s]
           b == DispatchDone(c)
<1>1. /\ r \in running[s] /\ r \in Twoway /\ running' = [running EXCEPT ![s] = @ \ {r}]
      /\ UNCHANGED <<upcalls, executed, outcome>>
  BY DEF SendResponse
<1>3. Good(c) /\ c.dispatchCount # 0
  BY <1>1, GoodRecord, CountFacts
<1>4. c.shutdowns = 0
  <2>1. c.shutdowns \in 0 .. 1
    BY <1>3, RecordTypes DEF Good, Sound
  <2> QED
    BY <1>1, <2>1 DEF IInv, IShut
<1>5. CASE b.state >= StateClosed /\ Commit(s, b, 0)
  <2> DEFINE nil == <<>>
  <2>1. Advances(c, b, nil) /\ b.requests = c.requests /\ b.dispatchCount = c.dispatchCount - 1
        /\ SameQueue(c, b) /\ b.exception = c.exception
    BY <1>3, DispatchDoneKeeps
  <2>2. Ends(c, b, nil)
    BY <2>1 DEF Ends, SameQueue
  <2>3. nil \in Notice /\ nil = <<>>
    BY NoticeFacts
  <2> HIDE DEF nil, b
  <2> QED
    BY <1>1, <1>5, <2>2, <2>3, DispatchEnds
<1>6. CASE /\ b.state < StateClosed
           /\ \E w1, w2 \in Writes :
                Commit(s, IF SendFails(b, w1) THEN SetClosed(b, "other")
                          ELSE ShutdownIfIdle(SendMessage(b, Reply(r), w1), w2), 0)
  <2>1. PICK w1 \in Writes, w2 \in Writes :
                Commit(s, IF SendFails(b, w1) THEN SetClosed(b, "other")
                          ELSE ShutdownIfIdle(SendMessage(b, Reply(r), w1), w2), 0)
    BY <1>6
  <2> DEFINE e == IF SendFails(b, w1) THEN SetClosed(b, "other")
                  ELSE ShutdownIfIdle(SendMessage(b, Reply(r), w1), w2)
  <2>2. Commit(s, e, 0)
    BY <2>1
  <2>3. c.state < StateClosed
    <3>1. b.state = c.state
      BY <1>3, DispatchDoneKeeps
    <3> QED
      BY <1>6, <3>1
  <2>4. \/ Ends(c, e, <<>>) /\ e.state >= StateClosed
        \/ Ends(c, e, <<Reply(r)>>)
        \/ Ends(c, e, ThenClose(<<Reply(r)>>))
    BY <1>3, <1>4, <2>3, ResponseKeeps
  <2> HIDE DEF e
  <2>5. CASE Ends(c, e, <<>>) /\ e.state >= StateClosed
    <3> DEFINE nil == <<>>
    <3>1. nil \in Notice /\ nil = <<>> /\ Ends(c, e, nil)
      BY <2>5, NoticeFacts
    <3> HIDE DEF nil
    <3> QED
      BY <1>1, <2>2, <2>5, <3>1, DispatchEnds
  <2>6. CASE Ends(c, e, <<Reply(r)>>) \/ Ends(c, e, ThenClose(<<Reply(r)>>))
    <3> DEFINE p == <<Reply(r)>>
               q == ThenClose(<<Reply(r)>>)
    <3>1. PICK ms \in {p, q} : Ends(c, e, ms)
      BY <2>6
    <3>2. ms = <<Reply(r)>> \/ ms = ThenClose(<<Reply(r)>>)
      OBVIOUS
    <3>3. ms \notin Notice
      <4> SUFFICES ASSUME ms \in Notice PROVE FALSE
        OBVIOUS
      <4>1. Reps(ms) = {}
        BY NoticeFacts
      <4>2. Reps(p) = {r} /\ Reps(q) = {r}
        <5> DEFINE o == <<CloseConnection>>
        <5>1. p \in Seq(Message) /\ Reps(p) = {r}
          BY MessageFields, ElemsOne
        <5>2. o \in Seq(Message) /\ Reps(o) = {} /\ q = p \o o
          BY NoticeFacts DEF ThenClose
        <5> HIDE DEF p, o, q
        <5> QED
          BY <5>1, <5>2, ElemsConcat
      <4> HIDE DEF p, q
      <4> QED
        BY <3>1, <4>1, <4>2
    <3> HIDE DEF p, q
    <3> QED
      BY <1>1, <2>2, <3>1, <3>2, <3>3, DispatchEnds
  <2> QED
    BY <2>4, <2>5, <2>6
<1> QED
  BY <1>5, <1>6 DEF SendResponse

\* The callbacks of u returned.
LEMMA UpcallReturnsInv ==
    ASSUME IInv, NEW s \in Side, NEW u \in upcalls[s], UpcallReturns(s, u)
    PROVE  Preserved
<1> DEFINE c == conn[s]
           b == DispatchDone(c)
<1>1. /\ upcalls' = [upcalls EXCEPT ![s] = @ \ {u}]
      /\ outcome' = [q \in Requests |-> IF q \in u.reply THEN "ok" ELSE outcome[q]]
      /\ running' = running /\ executed' = executed
  BY DEF UpcallReturns
<1>2. PICK w \in Writes :
        Commit(s, IF /\ b.dispatchCount = 0
                     /\ b.state = StateClosing
                     /\ b.shutdowns = 0
                  THEN InitiateShutdown(b, w) ELSE b, 0)
  BY DEF UpcallReturns
<1> DEFINE e == IF /\ b.dispatchCount = 0
                   /\ b.state = StateClosing
                   /\ b.shutdowns = 0
                THEN InitiateShutdown(b, w) ELSE b
<1>3. Good(c) /\ c.dispatchCount # 0 /\ c.acked = {}
  BY GoodRecord, CountFacts
<1>4. Ends(c, e, <<>>) \/ Ends(c, e, <<CloseConnection>>)
  <2>1. b.shutdowns = c.shutdowns
    BY <1>3, DispatchDoneKeeps
  <2>2. \/ e = b
        \/ /\ e = InitiateShutdown(b, w)
           /\ b.state = StateClosing /\ b.dispatchCount = 0 /\ c.shutdowns = 0
    BY <2>1
  <2> QED
    BY <1>3, <2>2, EndKeeps
<1>5. PICK ms \in Notice : Ends(c, e, ms)
  BY <1>4, NoticeFacts
<1>6. Commit(s, e, 0)
  BY <1>2
<1> HIDE DEF e
<1>7. ms \in Seq(Message) /\ Reqs(ms) = {} /\ Reps(ms) = {} /\ Tidy(ms)
  BY NoticeFacts
<1>8. IType /\ IGood /\ IShut /\ Advances(c, e, ms)
  BY <1>5 DEF IInv, Ends
<1>9. Framed /\ Sends(s, e, ms) /\ ReadsNone(s)
  BY <1>6, <1>7, <1>8, CommitKeeps
<1>10. /\ running \in [Side -> SUBSET Requests] /\ upcalls \in [Side -> SUBSET Upcall]
       /\ outcome \in [Requests -> Outcomes] /\ Peer(s) \in Side /\ Peer(s) # s
  BY PeerFacts DEF IInv, IType, TypeOK
<1>11. /\ upcalls'[s] = upcalls[s] \ {u} /\ upcalls'[Peer(s)] = upcalls[Peer(s)]
       /\ upcalls' \in [Side -> SUBSET Upcall]
  BY <1>1, <1>10
<1>12. outcome' \in [Requests -> Outcomes] /\ \A q \in Requests : Learns(s, q)
  <2>1. upcalls[s] \ upcalls'[s] = {u}
    BY <1>11
  <2>2. "ok" \in Outcomes
    BY DEF Outcomes
  <2> QED
    BY <1>1, <1>10, <2>1, <2>2 DEF Learns
<1>13. e.dispatchCount = Cardinality(running'[s]) + Cardinality(upcalls'[s])
  <2>1. Cardinality(upcalls[s] \ {u}) = Cardinality(upcalls[s]) - 1
    BY CountFacts, FS_RemoveElement
  <2>2. e.dispatchCount = c.dispatchCount - 1
    BY <1>5 DEF Ends
  <2> QED
    BY <1>1, <1>11, <2>1, <2>2, CountFacts
<1>14. /\ e.requests = c.requests /\ e.acked = {}
       /\ e.exception = "close" => c.exception = "close"
  BY <1>3, <1>5 DEF Ends
<1>15. Local(s, e, ms)
  BY <1>1, <1>7, <1>9, <1>10, <1>11, <1>12, <1>13, <1>14 DEF Local
<1> QED
  BY <1>7, <1>8, <1>9, <1>15, LocalKeeps

-----------------------------------------------------------------------------
(* An invocation begins.                                                   *)

\* It is told at once that it may be retried.
RetriesNow(r) ==
    /\ outcome[r] = "idle" /\ outcome' = [outcome EXCEPT ![r] = "retry"]
    /\ UNCHANGED <<running, upcalls, executed>>

\* A caller that is told at once to retry changes no other invocation.
LEMMA RetryIsLocal ==
    ASSUME IInv, NEW s \in Side, NEW r \in Requests, RetriesNow(r), NEW e,
           SameCalls(conn[s], e), ReadsNone(s),
           e.exception = "close" => conn[s].exception = "close"
    PROVE  Local(s, e, <<>>)
<1>1. conn[s].acked = {}
  BY GoodRecord
<1>2. /\ running \in [Side -> SUBSET Requests] /\ upcalls \in [Side -> SUBSET Upcall]
      /\ outcome \in [Requests -> Outcomes]
  BY DEF IInv, IType, TypeOK
<1>3. running' = running /\ upcalls' = upcalls /\ executed' = executed
  BY DEF RetriesNow
<1>4. outcome' \in [Requests -> Outcomes] /\ \A q \in Requests : Learns(s, q)
  BY <1>2, <1>3 DEF RetriesNow, Learns, Outcomes
<1>5. /\ e.requests = conn[s].requests /\ e.acked = {}
      /\ e.dispatchCount = Cardinality(running'[s]) + Cardinality(upcalls'[s])
  BY <1>1, <1>3, CountFacts DEF SameCalls, SameWork
<1> QED
  BY <1>2, <1>3, <1>4, <1>5, ElemsEmpty DEF Local

\* sendRequest() on a connection that has an exception.
LEMMA RefusedInv ==
    ASSUME IInv, NEW s \in Side, NEW r \in Requests, RetriesNow(r), UNCHANGED <<conn, wire>>
    PROVE  Preserved
<1> DEFINE c == conn[s]
           nil == <<>>
<1>1. Good(c) /\ c.out = <<>> /\ c.acked = {}
  BY GoodRecord
<1>2. SameQueue(c, c) /\ SameLife(c, c) /\ SameWork(c, c) /\ SameCalls(c, c)
  BY DEF SameQueue, SameLife, SameWork, SameCalls
<1>3. Advances(c, c, nil)
  BY <1>1, <1>2, AdvancesKept DEF Good
<1>4. \A x \in Side : /\ Stream(x)' = Stream(x) /\ SentRq(x)' = SentRq(x)
                      /\ SentRp(x)' = SentRp(x) /\ (Shuts(x)' <=> Shuts(x))
  BY DEF Stream, SentRq, SentRp, Shuts
<1>5. Framed
  <2>1. conn' = conn /\ wire' = wire
    OBVIOUS
  <2>2. IGood'
    BY <2>1 DEF IInv, IGood
  <2> QED
    BY <1>4, <2>1, <2>2 DEF Framed, IInv, IType, TypeOK, IShut
<1>6. ReadsNone(s)
  BY <1>4, PeerFacts DEF ReadsNone
<1>7. Sends(s, c, nil)
  <2>1. Stream(s) \o <<>> = Stream(s)
    BY StreamType, ConcatEmptySeq DEF IInv
  <2> QED
    BY <1>1, <1>4, <2>1, ElemsEmpty DEF Sends
<1>8. Local(s, c, nil) /\ nil \in Seq(Message)
  BY <1>2, <1>6, RetryIsLocal, NoticeFacts
<1> HIDE DEF nil
<1> QED
  BY <1>3, <1>5, <1>7, <1>8, LocalKeeps

\* sendRequest() when the socket fails.
LEMMA SocketFailsInv ==
    ASSUME IInv, NEW s \in Side, NEW r \in Requests, RetriesNow(r),
           Commit(s, SetClosed(conn[s], "other"), 0)
    PROVE  Preserved
<1> DEFINE c == conn[s]
           e == SetClosed(c, "other")
           nil == <<>>
<1>1. Good(c)
  BY GoodRecord
<1>2. /\ Advances(c, e, nil) /\ SameWork(c, e) /\ e.acked = c.acked
      /\ (c.exception = NoException => e.exception = "other")
  BY <1>1, AdvancesClosed
<1>3. Commit(s, e, 0)
  OBVIOUS
<1> HIDE DEF e
<1>4. SameCalls(c, e) /\ (e.exception = "close" => c.exception = "close")
  BY <1>2 DEF SameCalls, Advances
<1>5. nil \in Seq(Message) /\ Tidy(nil) /\ Reqs(nil) = {} /\ Reps(nil) = {}
  BY ElemsEmpty
<1>6. Framed /\ Sends(s, e, nil) /\ ReadsNone(s)
  <2> HIDE DEF nil
  <2>1. IType /\ IGood /\ IShut /\ Reqs(nil) \cap SentRq(s) = {} /\ Reps(nil) \cap SentRp(s) = {}
    BY <1>5 DEF IInv
  <2> QED
    BY <1>2, <1>3, <1>5, <2>1, CommitKeeps
<1>7. Local(s, e, nil)
  BY <1>4, <1>6, RetryIsLocal
<1> HIDE DEF nil
<1> QED
  BY <1>2, <1>5, <1>6, <1>7, LocalKeeps

\* It is sent or queued.
LEMMA SentKeeps ==
    ASSUME IInv, NEW s \in Side, NEW r \in Requests, Caller[r] = s, outcome[r] = "idle",
           UNCHANGED <<running, upcalls, executed>>, NEW e, NEW ms \in Seq(Message),
           Advances(conn[s], e, ms), Commit(s, e, 0), Tidy(ms),
           ms # <<>>, Reqs(ms) = {r}, Reps(ms) = {}, CloseConnection \notin Elems(ms),
           e.exception = NoException, e.state = conn[s].state, e.acked \subseteq {r},
           e.requests = conn[s].requests \cup ({r} \cap Twoway),
           e.dispatchCount = conn[s].dispatchCount, e.shutdowns = conn[s].shutdowns,
           outcome' = Acked(e, [outcome EXCEPT ![r] = "pending"])
    PROVE  Preserved
<1>0. Framed /\ Sends(s, e, ms) /\ ReadsNone(s)
  <2>1. r \notin SentRq(s)
    BY DEF IInv, ICalls, ISentRq
  <2>2. Fresh(s, ms)
    BY <2>1 DEF Fresh
  <2> QED
    BY <2>2, FreshKeeps
<1> DEFINE t == Peer(s)
<1>1. t \in Side /\ t # s /\ Peer(t) = s /\ Peer(s) = t /\ \A x \in Side : x = s \/ x = t
  BY PeerFacts
<1>2. running' = running /\ upcalls' = upcalls /\ executed' = executed
  OBVIOUS
<1>3. /\ conn'[t] = conn[t] /\ conn'[s].requests = conn[s].requests \cup ({r} \cap Twoway)
      /\ conn'[s].dispatchCount = conn[s].dispatchCount
      /\ Queued(conn'[s]) \cup e.acked = Queued(conn[s]) \cup {r}
      /\ Queued(conn'[s]) \cap e.acked = {}
      /\ conn'[s].state = conn[s].state /\ conn'[s].exception = NoException
      /\ conn'[s].shutdowns = conn[s].shutdowns /\ conn'[s].written = e.written
      /\ Timed(e) => Timed(conn'[s])
  BY <1>0 DEF Sends, t
<1>4. /\ SentRq(s)' = SentRq(s) \cup {r} /\ SentRp(s)' = SentRp(s)
      /\ SentRq(t)' = SentRq(t) /\ SentRp(t)' = SentRp(t)
      /\ Shuts(t)' <=> Shuts(t)
      /\ Stream(t)' = Stream(t)
      /\ Shuts(s)' <=> Shuts(s)
  BY <1>0 DEF Sends, ReadsNone, t
<1> HIDE DEF t
<1>5. /\ outcome \in [Requests -> Outcomes] /\ outcome' \in [Requests -> Outcomes]
      /\ \A q \in Requests : q # r => outcome'[q] = outcome[q]
      /\ outcome'[r] = IF r \in e.acked \ Twoway THEN "ok" ELSE "pending"
  <2>1. outcome \in [Requests -> Outcomes] /\ "ok" \in Outcomes /\ "pending" \in Outcomes
    BY DEF IInv, IType, TypeOK, Outcomes
  <2> QED
    BY <2>1 DEF Acked
<1>6. /\ r \notin executed /\ (\A x \in Side : r \notin SentRq(x) /\ r \notin SentRp(x))
      /\ \A x \in Side : r \notin conn[x].requests /\ r \notin Queued(conn[x]) /\ r \notin running[x]
      /\ \A x \in Side : \A u \in upcalls[x] : r \notin u.reply /\ r \notin u.sent
  <2>1. IExecuted /\ ISentRq /\ ISentRp /\ IRunning /\ IQueued /\ IRequests /\ IUp
    BY DEF IInv, ICalls
  <2>2. r \notin executed
    BY <2>1 DEF IExecuted
  <2>3. \A x \in Side : r \notin SentRq(x) /\ r \notin SentRp(x) /\ r \notin running[x]
    BY <2>1, <2>2 DEF ISentRq, ISentRp, IRunning
  <2>4. \A x \in Side : r \notin conn[x].requests /\ r \notin Queued(conn[x])
    BY <2>1 DEF IQueued, IRequests
  <2>5. \A x \in Side : \A u \in upcalls[x] : r \notin u.reply /\ r \notin u.sent
    BY <2>1 DEF IUp
  <2> QED
    BY <2>2, <2>3, <2>4, <2>5
<1>7. IType'
  BY <1>0, <1>2, <1>5 DEF IInv, IType, TypeOK, Framed
<1>8. DispatchCountExact'
  BY <1>1, <1>2, <1>3 DEF IInv, DispatchCountExact
<1>9. IShut'
  <2>1. \A x \in Side : conn'[x].shutdowns = conn[x].shutdowns
    BY <1>1, <1>3
  <2>2. \A x \in Side : conn'[x].shutdowns = 1 => running'[x] = {}
    BY <1>2, <2>1 DEF IInv, IShut
  <2> QED
    BY <1>0, <2>2 DEF IShut, Framed
<1>10. ICalls'
  <2>0. ICalls /\ executed \subseteq Requests
    BY DEF IInv, IType, TypeOK
  <2>1. IExecuted' /\ IRunning'
    BY <1>2, <1>5, <1>6, <2>0 DEF ICalls, IExecuted, IRunning
  <2>2. ISentRq'
    <3> SUFFICES ASSUME NEW x \in Side, NEW q \in SentRq(x)'
                 PROVE  Caller[q] = x /\ outcome'[q] # "idle" /\ q \notin executed'
      BY DEF ISentRq
    <3>1. CASE q = r
      <4>1. x = s
        BY <1>1, <1>4, <1>6, <3>1
      <4>2. outcome'[r] # "idle"
        BY <1>5
      <4> QED
        BY <1>2, <1>6, <3>1, <4>1, <4>2
    <3>2. CASE q # r
      <4>1. q \in SentRq(x) /\ q \in Requests
        BY <1>1, <1>4, <3>2 DEF SentRq, Reqs
      <4> QED
        BY <1>2, <1>5, <2>0, <3>2, <4>1 DEF ICalls, ISentRq
    <3> QED
      BY <3>1, <3>2
  <2>3. ISentRp'
    BY <1>1, <1>2, <1>4, <2>0 DEF ICalls, ISentRp
  <2>4. IQueued'
    <3> SUFFICES ASSUME NEW x \in Side, NEW q \in Queued(conn'[x])
                 PROVE  Caller[q] = x /\ outcome'[q] # "idle"
      BY DEF IQueued
    <3>1. CASE q = r
      BY <1>1, <1>3, <1>5, <1>6, <3>1
    <3>2. CASE q # r
      <4>1. q \in Queued(conn[x]) /\ q \in Requests
        BY <1>1, <1>3, <3>2 DEF Queued, Reqs
      <4> QED
        BY <1>5, <2>0, <3>2, <4>1 DEF ICalls, IQueued
    <3> QED
      BY <3>1, <3>2
  <2>5. IRequests'
    <3> SUFFICES ASSUME NEW x \in Side, NEW q \in conn'[x].requests
                 PROVE  Caller[q] = x /\ q \in Twoway /\ outcome'[q] = "pending"
      BY DEF IRequests
    <3>1. CASE q = r
      BY <1>1, <1>3, <1>5, <1>6, <3>1
    <3>2. CASE q # r
      <4>1. q \in conn[x].requests
        BY <1>1, <1>3, <3>2
      <4>2. Caller[q] = x /\ q \in Twoway /\ outcome[q] = "pending"
        BY <2>0, <4>1 DEF ICalls, IRequests
      <4> QED
        BY <1>5, <3>2, <4>2, ConnectionAssumption
    <3> QED
      BY <3>1, <3>2
  <2>6. IAwaited'
    <3> SUFFICES ASSUME NEW x \in Side, NEW q \in Twoway, Caller[q] = x,
                        conn'[x].state # StateFinished, Awaited(x, q)'
                 PROVE  q \in conn'[x].requests
      BY DEF IAwaited
    <3>1. CASE q = r
      BY <1>1, <1>3, <3>1
    <3>2. CASE q # r
      <4>1. Awaited(x, q) /\ conn[x].state # StateFinished
        BY <1>1, <1>2, <1>3, <1>4, <3>2 DEF Awaited
      <4>2. q \in conn[x].requests
        BY <2>0, <4>1 DEF ICalls, IAwaited
      <4> QED
        BY <1>1, <1>3, <4>2
    <3> QED
      BY <3>1, <3>2
  <2> QED
    BY <2>1, <2>2, <2>3, <2>4, <2>5, <2>6 DEF ICalls
<1>11. IUp'
  <2>1. \A x \in Side : \A u \in upcalls[x] : u.reply \subseteq Requests /\ u.sent \subseteq Requests
    BY DEF IInv, IType, TypeOK, Upcall
  <2>2. IUp
    BY DEF IInv
  <2>3. ASSUME NEW x \in Side, NEW u \in upcalls[x], NEW q \in u.reply
        PROVE  /\ Caller[q] = x /\ q \in Twoway /\ q \in executed'
               /\ q \notin conn'[x].requests /\ outcome'[q] # "idle"
    <3>1. q # r /\ q \in Requests
      BY <1>6, <2>1, <2>3
    <3>2. /\ Caller[q] = x /\ q \in Twoway /\ q \in executed
          /\ q \notin conn[x].requests /\ outcome[q] # "idle"
      BY <2>2, <2>3 DEF IUp
    <3>3. q \notin conn'[x].requests
      BY <1>1, <1>3, <3>1, <3>2
    <3> QED
      BY <1>2, <1>5, <3>1, <3>2, <3>3
  <2>4. ASSUME NEW x \in Side, NEW u \in upcalls[x], NEW q \in u.sent
        PROVE  Caller[q] = x /\ q \notin Queued(conn'[x]) /\ outcome'[q] # "idle"
    <3>1. q # r /\ q \in Requests
      BY <1>6, <2>1, <2>4
    <3>2. Caller[q] = x /\ q \notin Queued(conn[x]) /\ outcome[q] # "idle"
      BY <2>2, <2>4 DEF IUp
    <3>3. q \notin Queued(conn'[x])
      BY <1>1, <1>3, <3>1, <3>2
    <3> QED
      BY <1>5, <3>1, <3>2, <3>3
  <2>5. \A x \in Side : \A u, v \in upcalls[x] : u # v => u.reply \cap v.reply = {}
    BY <2>2 DEF IUp
  <2>6. \A x \in Side : \A u \in upcalls'[x] : \A q \in u.reply :
          /\ Caller[q] = x /\ q \in Twoway /\ q \in executed'
          /\ q \notin conn'[x].requests /\ outcome'[q] # "idle"
    BY <1>2, <2>3
  <2>7. \A x \in Side : \A u \in upcalls'[x] : \A q \in u.sent :
          Caller[q] = x /\ q \notin Queued(conn'[x]) /\ outcome'[q] # "idle"
    BY <1>2, <2>4
  <2> QED
    BY <1>2, <2>5, <2>6, <2>7 DEF IUp
<1>12. IForgot'
  <2> SUFFICES ASSUME NEW q \in Requests, outcome'[q] = "pending"
               PROVE  IF q \in Twoway
                      THEN \/ q \in conn'[Caller[q]].requests
                           \/ \E u \in upcalls'[Caller[q]] : q \in u.reply
                      ELSE q \in Queued(conn'[Caller[q]])
    BY DEF IForgot
  <2>1. Caller[q] \in Side
    BY ConnectionAssumption
  <2>2. CASE q = r
    BY <1>3, <1>5, <2>2
  <2>3. CASE q # r
    <3>1. outcome[q] = "pending"
      BY <1>5, <2>3
    <3>2. IF q \in Twoway
          THEN \/ q \in conn[Caller[q]].requests
               \/ \E u \in upcalls[Caller[q]] : q \in u.reply
          ELSE q \in Queued(conn[Caller[q]])
      BY <3>1 DEF IInv, IForgot
    <3>3. q \in conn[Caller[q]].requests => q \in conn'[Caller[q]].requests
      BY <1>1, <1>3, <2>1
    <3>4. q \in Queued(conn[Caller[q]]) => q \in Queued(conn'[Caller[q]])
      BY <1>1, <1>3, <2>1, <2>3
    <3> QED
      BY <1>2, <3>2, <3>3, <3>4
  <2> QED
    BY <2>2, <2>3
<1>13. IOk'
  <2>1. IOk /\ Twoway \subseteq Requests
    BY ConnectionAssumption DEF IInv
  <2> QED
    BY <1>2, <1>5, <2>1 DEF IOk
<1>14. ASSUME ~CombinedEvents
       PROVE  INow' /\ Promised
  <2>0. INow
    BY <1>14 DEF IInv
  <2>1. ILife'
    BY <1>1, <1>3, <1>14, <2>0 DEF INow, ILife, Advances
  <2>2. IPending'
    <3>1. ASSUME NEW x \in Side, NEW u \in upcalls'[x], NEW q \in u.reply
          PROVE  outcome'[q] = "pending"
      <4>1. u \in upcalls[x] /\ outcome[q] = "pending" /\ q \in Requests /\ q # r
        BY <1>2, <1>6, <2>0, <3>1 DEF INow, IPending, IInv, IType, TypeOK, Upcall
      <4> QED
        BY <1>5, <4>1
    <3>2. ASSUME NEW x \in Side, NEW q \in Requests, q \in Queued(conn'[x])
          PROVE  outcome'[q] = "pending"
      <4>1. CASE q = r
        BY <1>1, <1>3, <1>5, <1>6, <3>2, <4>1
      <4>2. CASE q # r
        <5>1. q \in Queued(conn[x])
          BY <1>1, <1>3, <3>2, <4>2
        <5>2. outcome[q] = "pending"
          BY <2>0, <5>1 DEF INow, IPending
        <5> QED
          BY <1>5, <4>2, <5>2
      <4> QED
        BY <4>1, <4>2
    <3> QED
      BY <3>1, <3>2 DEF IPending
  <2>3. \A x \in Side : conn'[x].state = conn[x].state /\ running'[x] = running[x]
                        /\ SentRp(x)' = SentRp(x) /\ (Shuts(x)' <=> Shuts(x))
    BY <1>1, <1>2, <1>3, <1>4
  <2>4. IRetry'
    <3> SUFFICES ASSUME NEW q \in Requests, outcome'[q] = "retry"
                 PROVE  /\ q \notin executed'
                        /\ \A x \in Side : q \in SentRq(x)' => conn'[Peer(x)].state >= StateClosing
      BY DEF IRetry
    <3>1. q # r /\ outcome[q] = "retry"
      BY <1>5
    <3>2. \A x \in Side : Peer(x) \in Side /\ (q \in SentRq(x)' => q \in SentRq(x))
      BY <1>1, <1>4, <3>1
    <3> QED
      BY <1>2, <2>0, <2>3, <3>1, <3>2 DEF INow, IRetry
  <2>5. conn[s].shutdowns = 0 /\ ~(conn[s].state >= StateClosed)
    <3>1. conn[s].state \in 0 .. 6
      BY GoodRecord
    <3> QED
      BY <3>1, StatesAre DEF Advances, StateNames
  <2>6. /\ conn'[s].exception # "close"
        /\ ~(conn'[t].exception = "close" /\ conn'[t].requests # {})
    <3>1. ~(conn[t].exception = "close" /\ conn[t].requests # {})
      BY <1>1, <2>0, <2>5 DEF INow, IClose
    <3> QED
      BY <1>3, <3>1 DEF NoException
  <2>7. ASSUME NEW q \in conn'[s].requests, q \in executed'
        PROVE  \/ q \in running'[t] \/ q \in SentRp(t)'
               \/ conn'[t].state >= StateClosed /\ ~Shuts(t)' /\ conn'[s].exception # "close"
    <3>1. q \in conn[s].requests /\ q \in executed
      BY <1>2, <1>3, <1>6, <2>7
    <3>2. \/ q \in running[t] \/ q \in SentRp(t)
          \/ conn[t].state >= StateClosed /\ ~Shuts(t)
      BY <1>1, <2>0, <3>1 DEF INow, IClose
    <3> QED
      BY <1>1, <2>3, <2>6, <3>2
  <2>8. ASSUME NEW q \in conn'[t].requests, q \in executed'
        PROVE  \/ q \in running'[s] \/ q \in SentRp(s)'
               \/ conn'[s].state >= StateClosed /\ ~Shuts(s)' /\ conn'[t].exception # "close"
    <3>1. q \in conn[t].requests /\ q \in executed
      BY <1>2, <1>3, <2>8
    <3>2. \/ q \in running[s] \/ q \in SentRp(s)
          \/ conn[s].state >= StateClosed /\ ~Shuts(s) /\ conn[t].exception # "close"
      BY <1>1, <2>0, <3>1 DEF INow, IClose
    <3> QED
      BY <1>1, <1>3, <2>3, <3>2
  <2>9. IClose'
    BY <1>1, <2>6, <2>7, <2>8 DEF IClose
  <2>10. Promised
    BY <1>2, <1>5 DEF Promised, Promise!MayBecome
  <2> QED
    BY <2>1, <2>2, <2>4, <2>9, <2>10 DEF INow
<1> QED
  BY <1>0, <1>7, <1>8, <1>9, <1>10, <1>11, <1>12, <1>13, <1>14 DEF IInv, Framed, Preserved

\* sendRequest() and sendAsyncRequest().
LEMMA SendRequestInv ==
    ASSUME IInv, NEW s \in Side, NEW r \in Requests, SendRequest(s, r)
    PROVE  Preserved
<1> DEFINE c == conn[s]
<1>1. /\ Caller[r] = s /\ outcome[r] = "idle" /\ UNCHANGED <<running, upcalls, executed>>
  BY DEF SendRequest
<1>2. CASE /\ outcome' = [outcome EXCEPT ![r] = "retry"]
           /\ UNCHANGED <<conn, wire>>
  BY <1>1, <1>2, RefusedInv DEF RetriesNow
<1>3. CASE /\ c.exception = NoException
           /\ c.state > StateNotValidated
           /\ \E w \in Writes :
                IF SendFails(c, w)
                THEN /\ Commit(s, SetClosed(c, "other"), 0)
                     /\ outcome' = [outcome EXCEPT ![r] = "retry"]
                ELSE LET d == SendMessage(c, Request(r), w)
                         e == [d EXCEPT !.requests = IF r \in Twoway THEN @ \cup {r} ELSE @]
                     IN /\ Commit(s, e, 0)
                        /\ outcome' = Acked(e, [outcome EXCEPT ![r] = "pending"])
  <2>1. PICK w \in Writes :
                IF SendFails(c, w)
                THEN /\ Commit(s, SetClosed(c, "other"), 0)
                     /\ outcome' = [outcome EXCEPT ![r] = "retry"]
                ELSE LET d == SendMessage(c, Request(r), w)
                         e == [d EXCEPT !.requests = IF r \in Twoway THEN @ \cup {r} ELSE @]
                     IN /\ Commit(s, e, 0)
                        /\ outcome' = Acked(e, [outcome EXCEPT ![r] = "pending"])
    BY <1>3
  <2>2. CASE SendFails(c, w)
    BY <1>1, <2>1, <2>2, SocketFailsInv DEF RetriesNow
  <2>3. CASE ~SendFails(c, w)
    <3> DEFINE d == SendMessage(c, Request(r), w)
               e == Recorded(d, r)
               ms == <<Request(r)>>
    <3>1. Commit(s, e, 0) /\ outcome' = Acked(e, [outcome EXCEPT ![r] = "pending"])
      BY <2>1, <2>3 DEF Recorded
    <3>2. Good(c) /\ c.acked = {} /\ r \notin Queued(c) /\ r \notin SentRq(s)
      BY <1>1, GoodRecord DEF IInv, ICalls, IQueued, ISentRq
    <3>3. /\ Advances(c, e, ms) /\ e.state = c.state /\ e.exception = NoException
          /\ e.requests = c.requests \cup ({r} \cap Twoway) /\ e.dispatchCount = c.dispatchCount
          /\ e.shutdowns = c.shutdowns /\ e.acked \subseteq {r}
      BY <1>3, <2>3, <3>2, RequestKeeps
    <3> HIDE DEF e, d
    <3>4. /\ ms \in Seq(Message) /\ ms # <<>> /\ Tidy(ms) /\ Reqs(ms) = {r} /\ Reps(ms) = {}
          /\ CloseConnection \notin Elems(ms)
      BY MessageFields, ElemsOne, TidyOne
    <3> HIDE DEF ms
    <3> QED
      BY <1>1, <3>1, <3>3, <3>4, SentKeeps
  <2> QED
    BY <2>2, <2>3
<1> QED
  BY <1>2, <1>3 DEF SendRequest

-----------------------------------------------------------------------------
(* finish().                                                               *)

\* The first part of a tidy stream is tidy and has no request of the second.
LEMMA TidySplit ==
    ASSUME NEW p \in Seq(Message), NEW q \in Seq(Message), Tidy(p \o q)
    PROVE  /\ Tidy(p) /\ Reqs(p) \cap Reqs(q) = {}
           /\ q # <<>> => CloseConnection \notin Elems(p)
           /\ p \o q = <<>> => p = <<>>
<1> DEFINE t == p \o q
<1>1. Tidy(p)
  BY TidyPrefix
<1>2. /\ t \in Seq(Message) /\ Len(t) = Len(p) + Len(q) /\ Len(p) \in Nat /\ Len(q) \in Nat
      /\ \A i \in 1 .. Len(p) + Len(q) : t[i] = IF i <= Len(p) THEN p[i] ELSE q[i - Len(p)]
  BY ConcatProperties, LenProperties
<1>3. Tidy(t)
  OBVIOUS
<1> HIDE DEF t
<1>4. ASSUME NEW r \in Requests, r \in Reqs(p), r \in Reqs(q)
      PROVE  FALSE
  <2>1. PICK i \in 1 .. Len(p) : p[i] = Request(r)
    BY <1>4 DEF Reqs, Elems
  <2>2. PICK j \in 1 .. Len(q) : q[j] = Request(r)
    BY <1>4 DEF Reqs, Elems
  <2> DEFINE k == j + Len(p)
  <2>3. /\ k \in 1 .. Len(p) + Len(q) /\ ~(k <= Len(p)) /\ k - Len(p) = j /\ i # k
        /\ i \in 1 .. Len(p) + Len(q) /\ i <= Len(p)
    BY <1>2
  <2> HIDE DEF k
  <2>4. t[i] = Request(r) /\ t[k] = Request(r)
    BY <1>2, <2>1, <2>2, <2>3
  <2>5. i \in 1 .. Len(t) /\ k \in 1 .. Len(t)
    BY <1>2, <2>3
  <2> QED
    BY <1>3, <2>3, <2>4, <2>5, MessageFields DEF Tidy
<1>5. ASSUME q # <<>>, CloseConnection \in Elems(p)
      PROVE  FALSE
  <2>1. PICK i \in 1 .. Len(p) : p[i] = CloseConnection
    BY <1>5 DEF Elems
  <2>2. Len(q) # 0
    BY <1>5, EmptySeq
  <2>3. i \in 1 .. Len(t) /\ t[i] = CloseConnection /\ i # Len(t)
    BY <1>2, <2>1, <2>2
  <2> QED
    BY <1>3, <2>3 DEF Tidy
<1>6. t = <<>> => p = <<>>
  <2>1. t = <<>> => Len(t) = 0
    OBVIOUS
  <2>2. Len(t) = 0 => Len(p) = 0
    BY <1>2
  <2> QED
    BY <2>1, <2>2, EmptySeq
<1>7. Reqs(p) \cap Reqs(q) = {}
  BY <1>4 DEF Reqs
<1> QED
  BY <1>1, <1>5, <1>6, <1>7 DEF t

\* All the requests of a queue.
LEMMA AllTaken ==
    ASSUME NEW q \in Seq(Message), Distinct(q)
    PROVE  UNION {RequestOf(q[i]) : i \in 1 .. Len(q)} = Reqs(q)
<1>1. CASE q = <<>>
  <2>1. 1 .. Len(q) = {}
    BY <1>1
  <2>2. Reqs(q) = {}
    BY <1>1, ElemsEmpty
  <2> QED
    BY <2>1, <2>2
<1>2. CASE q # <<>>
  <2> DEFINE k == Len(q)
  <2>1. k \in 1 .. Len(q)
    BY <1>2, LenProperties, EmptySeq
  <2>2. /\ Rest(q, k) = <<>> <=> k = Len(q)
        /\ Taken(q, k) \cup Reqs(Rest(q, k)) = Reqs(q)
    <3> HIDE DEF k
    <3> QED
      BY <2>1, QueueSplit
  <2>3. Taken(q, k) = Reqs(q)
    BY <2>2, ElemsEmpty
  <2> QED
    BY <2>3 DEF Taken
<1> QED
  BY <1>1, <1>2

\* What the caller of r is told.
Finishes(s, r) ==
    outcome'[r] = IF r \in Queued(conn[s]) THEN "retry"
                  ELSE IF r \in conn[s].requests
                       THEN IF conn[s].exception = "close" THEN "retry" ELSE "failed"
                  ELSE outcome[r]

\* The side that finishes forgets its queue and its requests.
Ended(s) ==
    /\ conn' \in [Side -> ConnectionRecord] /\ wire' = wire
    /\ conn'[Peer(s)] = conn[Peer(s)]
    /\ Good(conn'[s]) /\ conn'[s].out = <<>> /\ conn'[s].acked = {} /\ Timed(conn'[s])
    /\ conn'[s].state = StateFinished /\ conn'[s].requests = {} /\ Queued(conn'[s]) = {}
    /\ Unwritten(conn'[s]) = <<>> /\ ~conn'[s].written
    /\ conn'[s].dispatchCount = conn[s].dispatchCount
    /\ conn'[s].shutdowns = conn[s].shutdowns /\ conn'[s].exception = conn[s].exception
    /\ UNCHANGED <<running, upcalls, executed>>
    /\ outcome' \in [Requests -> Outcomes] /\ \A r \in Requests : Finishes(s, r)

\* finish() does that.
LEMMA FinishEnds ==
    ASSUME IInv, NEW s \in Side, Finish(s)
    PROVE  Ended(s)
<1> DEFINE c == conn[s]
           unsent == UNION {RequestOf(c.sendStreams[i]) : i \in 1 .. Len(c.sendStreams)}
           d == FinishedRecord(c)
<1>1. Good(c) /\ c.out = <<>> /\ c.acked = {} /\ c.sendStreams \in Seq(Message) /\ Distinct(c.sendStreams)
  BY GoodRecord, RecordTypes DEF Good, Queue
<1>2. unsent = Queued(c)
  BY <1>1, AllTaken DEF Queued
<1>3. c.finishQueued /\ Commit(s, d, 0) /\ UNCHANGED <<running, upcalls, executed>>
  BY DEF Finish, FinishedRecord
<1>4. outcome' = [r \in Requests |->
                     IF r \in unsent THEN "retry"
                     ELSE IF r \in c.requests
                          THEN IF c.exception = "close" THEN "retry" ELSE "failed"
                     ELSE outcome[r]]
  BY DEF Finish
<1>5. /\ Good(d) /\ d.state = StateFinished /\ d.sendStreams = <<>> /\ ~d.written
      /\ d.requests = {} /\ d.out = <<>> /\ d.acked = {} /\ d.dispatchCount = c.dispatchCount
      /\ d.shutdowns = c.shutdowns /\ d.exception = c.exception /\ Timed(d)
  BY <1>1, <1>3, FinishKeeps
<1> HIDE DEF d, unsent
<1>6. outcome' \in [Requests -> Outcomes] /\ \A r \in Requests : Finishes(s, r)
  <2>1. outcome \in [Requests -> Outcomes] /\ "retry" \in Outcomes /\ "failed" \in Outcomes
    BY DEF IInv, IType, TypeOK, Outcomes
  <2> QED
    BY <1>2, <1>4, <2>1 DEF Finishes
<1> DEFINE f == Settled(d)
<1>7. /\ Good(f) /\ f.out = <<>> /\ f.acked = {} /\ f.sendStreams = <<>> /\ f.written = d.written
      /\ SameLife(d, f) /\ SameWork(d, f) /\ Timed(f)
  BY <1>5, SettledKeeps
<1> HIDE DEF f
<1>8. /\ conn \in [Side -> ConnectionRecord] /\ wire \in [Side -> Seq(Message)]
      /\ Peer(s) \in Side /\ Peer(s) # s
  BY PeerFacts DEF IInv, IType, TypeOK
<1>9. conn' = [conn EXCEPT ![s] = f]
  BY <1>3 DEF Commit, f
<1>10. conn' \in [Side -> ConnectionRecord] /\ conn'[s] = f /\ conn'[Peer(s)] = conn[Peer(s)]
  <2>1. f \in ConnectionRecord
    BY <1>7 DEF Good
  <2> QED
    BY <1>8, <1>9, <2>1
<1>11. wire' = wire
  <2> DEFINE p == wire[Peer(s)] \o d.out
             q == SubSeq(wire[s], 0 + 1, Len(wire[s]))
  <2>1. wire' = [wire EXCEPT ![Peer(s)] = p, ![s] = q]
    BY <1>3, <1>8 DEF Commit
  <2>2. p = wire[Peer(s)]
    BY <1>5, <1>8, ConcatEmptySeq
  <2>3. q = wire[s]
    BY <1>8, DropFirst
  <2> HIDE DEF p, q
  <2> QED
    BY <1>8, <2>1, <2>2, <2>3
<1>12. f.state = StateFinished /\ f.requests = {} /\ f.dispatchCount = c.dispatchCount
       /\ f.shutdowns = c.shutdowns /\ f.exception = c.exception /\ ~f.written
  BY <1>5, <1>7 DEF SameLife, SameWork
<1>13. Queued(f) = {} /\ Unwritten(f) = <<>>
  BY <1>7, <1>12, ElemsEmpty DEF Queued, Unwritten
<1> QED
  BY <1>3, <1>6, <1>7, <1>10, <1>11, <1>12, <1>13 DEF Ended

\* Ending a side preserves the invariant and the promise: what was not written is not
\* executed, and a peer that said it closes has answered all it executed.
LEMMA EndedKeeps ==
    ASSUME IInv, NEW s \in Side, Ended(s)
    PROVE  Preserved
<1> DEFINE t == Peer(s)
           p == wire[t]
           u == Unwritten(conn[s])
<1>1. t \in Side /\ t # s /\ Peer(t) = s /\ Peer(s) = t /\ \A x \in Side : x = s \/ x = t
  BY PeerFacts
<1>2. /\ running' = running /\ upcalls' = upcalls /\ executed' = executed
      /\ outcome' \in [Requests -> Outcomes] /\ \A r \in Requests : Finishes(s, r)
  BY DEF Ended
<1>3. /\ conn'[t] = conn[t] /\ conn'[s].requests = {} /\ Queued(conn'[s]) = {}
      /\ conn'[s].dispatchCount = conn[s].dispatchCount
      /\ conn'[s].state = 6 /\ conn'[s].exception = conn[s].exception
      /\ conn'[s].shutdowns = conn[s].shutdowns /\ ~conn'[s].written /\ Timed(conn'[s])
  BY StatesAre DEF Ended, t, StateNames
<1>4. /\ p \in Seq(Message) /\ u \in Seq(Message) /\ Stream(s) = p \o u /\ Tidy(p \o u)
      /\ Stream(s)' = p /\ Stream(t)' = Stream(t)
  <2>1. p \in Seq(Message) /\ u \in Seq(Message) /\ Stream(s) = p \o u /\ Tidy(p \o u)
    BY <1>1, StreamType DEF IInv, IShut, Stream
  <2>2. Stream(s)' = p \o <<>>
    BY <1>1 DEF Ended, Stream
  <2>3. Stream(t)' = Stream(t)
    BY <1>1, <1>3 DEF Ended, Stream
  <2> QED
    BY <2>1, <2>2, <2>3, ConcatEmptySeq
<1>5. /\ Reqs(p \o u) = Reqs(p) \cup Reqs(u) /\ Reps(p \o u) = Reps(p) \cup Reps(u)
      /\ Elems(p \o u) = Elems(p) \cup Elems(u)
      /\ Tidy(p) /\ Reqs(p) \cap Reqs(u) = {}
      /\ u # <<>> => CloseConnection \notin Elems(p)
      /\ p \o u = <<>> => p = <<>>
  BY <1>4, ElemsConcat, TidySplit
<1>6. /\ SentRq(s)' = Reqs(p) /\ SentRp(s)' = Reps(p) /\ (Shuts(s)' <=> CloseConnection \in Elems(p))
      /\ SentRq(s) = Reqs(p \o u) /\ SentRp(s) = Reps(p \o u)
      /\ Shuts(s) <=> CloseConnection \in Elems(p \o u)
      /\ SentRq(t)' = SentRq(t) /\ SentRp(t)' = SentRp(t) /\ (Shuts(t)' <=> Shuts(t))
  BY <1>4 DEF SentRq, SentRp, Shuts
<1>7. /\ SentRq(s)' \subseteq SentRq(s) /\ SentRp(s)' \subseteq SentRp(s)
      /\ Shuts(s)' => Shuts(s)
      /\ SentRp(s)' # SentRp(s) => ~Shuts(s)'
      /\ Stream(s) = <<>> => Stream(s)' = <<>>
  <2>1. Reps(u) # {} => u # <<>>
    BY ElemsEmpty
  <2> QED
    BY <1>4, <1>5, <1>6, <2>1
<1>8. Tidy(Stream(s)')
  BY <1>4, <1>5
<1> HIDE DEF t, p, u
<1>9. \A x \in Side : /\ SentRq(x)' \subseteq SentRq(x) /\ SentRp(x)' \subseteq SentRp(x)
                      /\ conn'[x].requests \subseteq conn[x].requests
                      /\ Queued(conn'[x]) \subseteq Queued(conn[x])
                      /\ conn'[x].dispatchCount = conn[x].dispatchCount
                      /\ conn'[x].shutdowns = conn[x].shutdowns
                      /\ conn'[x].exception = conn[x].exception
                      /\ Shuts(x)' => Shuts(x)
  BY <1>1, <1>3, <1>6, <1>7
<1>10. IType'
  <2>1. TypeOK'
    BY <1>2 DEF IInv, IType, TypeOK, Ended
  <2> QED
    BY <1>2, <2>1 DEF IInv, IType
<1>11. IGood'
  BY <1>1, <1>3 DEF IInv, IGood, Ended, t
<1>12. DispatchCountExact'
  BY <1>2, <1>9 DEF IInv, DispatchCountExact
<1>13. IShut'
  <2>1. IShut
    BY DEF IInv
  <2>2. \A x \in Side : Tidy(Stream(x)')
    BY <1>1, <1>4, <1>8, <2>1 DEF IShut
  <2> QED
    BY <1>2, <1>9, <2>1, <2>2 DEF IShut
<1>14. /\ \A q \in Requests : outcome'[q] = "idle" => outcome[q] = "idle"
       /\ \A q \in Requests : outcome'[q] = "pending" =>
            outcome[q] = "pending" /\ q \notin Queued(conn[s]) /\ q \notin conn[s].requests
       /\ \A q \in Requests : outcome'[q] = "ok" => outcome[q] = "ok"
       /\ \A q \in Requests : q \notin Queued(conn[s]) /\ q \notin conn[s].requests
            => outcome'[q] = outcome[q]
  BY <1>2 DEF Finishes
<1>15. \A q \in Requests : Caller[q] = t => outcome'[q] = outcome[q]
  <2>1. \A q \in Queued(conn[s]) : Caller[q] = s
    BY DEF IInv, ICalls, IQueued
  <2>2. \A q \in conn[s].requests : Caller[q] = s
    BY DEF IInv, ICalls, IRequests
  <2> QED
    BY <1>1, <1>14, <2>1, <2>2
<1>16. ICalls'
  <2>0. ICalls /\ executed \subseteq Requests /\ Twoway \subseteq Requests
    BY ConnectionAssumption DEF IInv, IType, TypeOK
  <2>1. IExecuted' /\ IRunning'
    BY <1>2, <1>14, <2>0 DEF ICalls, IExecuted, IRunning
  <2>2. ISentRq'
    <3>1. \A x \in Side : SentRq(x) \subseteq Requests
      BY DEF SentRq, Reqs
    <3> QED
      BY <1>2, <1>9, <1>14, <2>0, <3>1 DEF ICalls, ISentRq
  <2>3. ISentRp'
    BY <1>2, <1>9, <2>0 DEF ICalls, ISentRp
  <2>4. IQueued'
    <3>1. \A x \in Side : Queued(conn[x]) \subseteq Requests
      BY DEF Queued, Reqs
    <3> QED
      BY <1>9, <1>14, <2>0, <3>1 DEF ICalls, IQueued
  <2>5. IRequests'
    <3> SUFFICES ASSUME NEW x \in Side, NEW q \in conn'[x].requests
                 PROVE  Caller[q] = x /\ q \in Twoway /\ outcome'[q] = "pending"
      BY DEF IRequests
    <3>1. x = t
      BY <1>1, <1>3
    <3>2. q \in conn[t].requests
      BY <1>3, <3>1
    <3>3. Caller[q] = t /\ q \in Twoway /\ outcome[q] = "pending"
      BY <1>1, <2>0, <3>2 DEF ICalls, IRequests
    <3> QED
      BY <1>15, <2>0, <3>1, <3>3
  <2>6. IAwaited'
    <3> SUFFICES ASSUME NEW x \in Side, NEW q \in Twoway, Caller[q] = x,
                        conn'[x].state # StateFinished, Awaited(x, q)'
                 PROVE  q \in conn'[x].requests
      BY DEF IAwaited
    <3>1. x = t
      BY <1>1, <1>3, StatesAre DEF StateNames
    <3>2. Awaited(x, q)
      BY <1>1, <1>2, <1>9 DEF Awaited
    <3> QED
      BY <1>3, <2>0, <3>1, <3>2 DEF ICalls, IAwaited
  <2> QED
    BY <2>1, <2>2, <2>3, <2>4, <2>5, <2>6 DEF ICalls
<1>17. IUp'
  <2>1. \A x \in Side : \A v \in upcalls[x] : v.reply \subseteq Requests /\ v.sent \subseteq Requests
    BY DEF IInv, IType, TypeOK, Upcall
  <2> QED
    BY <1>2, <1>9, <1>14, <2>1 DEF IInv, IUp
<1>18. IForgot'
  <2> SUFFICES ASSUME NEW q \in Requests, outcome'[q] = "pending"
               PROVE  IF q \in Twoway
                      THEN \/ q \in conn'[Caller[q]].requests
                           \/ \E v \in upcalls'[Caller[q]] : q \in v.reply
                      ELSE q \in Queued(conn'[Caller[q]])
    BY DEF IForgot
  <2>1. Caller[q] = s \/ Caller[q] = t
    BY <1>1, ConnectionAssumption
  <2>2. outcome[q] = "pending" /\ q \notin Queued(conn[s]) /\ q \notin conn[s].requests
    BY <1>14
  <2>3. IF q \in Twoway
        THEN \/ q \in conn[Caller[q]].requests
             \/ \E v \in upcalls[Caller[q]] : q \in v.reply
        ELSE q \in Queued(conn[Caller[q]])
    BY <2>2 DEF IInv, IForgot
  <2> QED
    BY <1>2, <1>3, <2>1, <2>2, <2>3
<1>19. IOk'
  <2>1. Twoway \subseteq Requests
    BY ConnectionAssumption
  <2> QED
    BY <1>2, <1>14, <2>1 DEF IInv, IOk
<1>20. ASSUME ~CombinedEvents
       PROVE  INow' /\ Promised
  <2>0. INow
    BY <1>20 DEF IInv
  <2>1. ILife'
    BY <1>1, <1>3, <2>0 DEF INow, ILife
  <2>2. /\ \A q \in Queued(conn[s]) : q \in Reqs(u) /\ q \notin executed /\ outcome[q] = "pending"
        /\ \A q \in conn[s].requests : outcome[q] = "pending" /\ Caller[q] = s
        /\ \A q \in Queued(conn[s]) : Caller[q] = s
    <3>1. Queued(conn[s]) = Reqs(u) /\ Queued(conn[s]) \subseteq SentRq(s)
      <4>1. ~conn[s].written
        BY <2>0 DEF INow, ILife
      <4>2. u = conn[s].sendStreams
        BY <4>1 DEF Unwritten, u
      <4> QED
        BY <4>1, <4>2, QueuedIsSent DEF IInv, Queued
    <3>2. \A q \in Queued(conn[s]) : q \notin executed
      BY <3>1 DEF IInv, ICalls, ISentRq
    <3>3. \A q \in Queued(conn[s]) : outcome[q] = "pending" /\ Caller[q] = s
      BY <2>0 DEF INow, IPending, Queued, Reqs, IInv, ICalls, IQueued
    <3>4. \A q \in conn[s].requests : outcome[q] = "pending" /\ Caller[q] = s
      BY DEF IInv, ICalls, IRequests
    <3> QED
      BY <3>1, <3>2, <3>3, <3>4
  <2>3. IPending'
    <3>1. ASSUME NEW x \in Side, NEW v \in upcalls'[x], NEW q \in v.reply
          PROVE  outcome'[q] = "pending"
      <4>1. /\ v \in upcalls[x] /\ outcome[q] = "pending" /\ q \in Requests /\ q \in executed
            /\ Caller[q] = x /\ q \notin conn[x].requests
        BY <1>2, <2>0, <3>1 DEF INow, IPending, IInv, IType, TypeOK, Upcall, IUp
      <4>2. q \notin Queued(conn[s])
        BY <2>2, <4>1
      <4>3. q \notin conn[s].requests
        BY <1>1, <2>2, <4>1
      <4> QED
        BY <1>14, <4>1, <4>2, <4>3
    <3>2. ASSUME NEW x \in Side, NEW q \in Requests, q \in Queued(conn'[x])
          PROVE  outcome'[q] = "pending"
      <4>1. x = t /\ q \in Queued(conn[t])
        BY <1>1, <1>3, <3>2
      <4>2. Caller[q] = t /\ outcome[q] = "pending"
        BY <1>1, <2>0, <4>1 DEF INow, IPending, IInv, ICalls, IQueued
      <4> QED
        BY <1>15, <4>2
    <3> QED
      BY <3>1, <3>2 DEF IPending
  <2>4. ASSUME NEW q \in conn[s].requests, conn[s].exception = "close"
        PROVE  q \notin executed /\ conn[t].shutdowns = 1
    <3>1. conn[t].shutdowns = 1 /\ Stream(t) = <<>>
      BY <1>1, <2>0, <2>4 DEF INow, IClose
    <3>2. SentRp(t) = {}
      BY <3>1, ElemsEmpty DEF SentRp
    <3>3. running[t] = {}
      BY <1>1, <3>1 DEF IInv, IShut
    <3>4. q \in executed => q \in running[t] \/ q \in SentRp(t) \/ conn[s].exception # "close"
      BY <1>1, <2>0, <2>4 DEF INow, IClose
    <3> QED
      BY <2>4, <3>1, <3>2, <3>3, <3>4
  <2>5. ASSUME NEW q \in Requests, outcome'[q] = "retry"
        PROVE  /\ q \notin executed'
               /\ \A x \in Side : q \in SentRq(x)' => conn'[Peer(x)].state >= StateClosing
    <3>0. conn'[s].state >= StateClosing
      BY <1>3, StatesAre DEF StateNames
    <3>1. CASE q \in Queued(conn[s])
      <4>1. q \notin SentRq(s)'
        BY <1>5, <1>6, <2>2, <3>1
      <4> QED
        BY <1>1, <1>2, <2>2, <3>0, <3>1, <4>1
    <3>2. CASE q \notin Queued(conn[s]) /\ q \in conn[s].requests
      <4>1. conn[s].exception = "close"
        BY <1>2, <2>5, <3>2 DEF Finishes
      <4>2. q \notin executed /\ conn[t].shutdowns = 1
        BY <2>4, <3>2, <4>1
      <4>3. conn'[t].state >= StateClosing
        BY <1>1, <1>3, <4>2, GoodRecord DEF Good, Sound
      <4> QED
        BY <1>1, <1>2, <3>0, <4>2, <4>3
    <3>3. CASE q \notin Queued(conn[s]) /\ q \notin conn[s].requests
      <4>1. outcome[q] = "retry"
        BY <1>14, <2>5, <3>3
      <4>2. /\ q \notin executed
            /\ \A x \in Side : q \in SentRq(x) => conn[Peer(x)].state >= StateClosing
        BY <2>0, <4>1 DEF INow, IRetry
      <4>3. q \in SentRq(s)' => conn'[t].state >= StateClosing
        BY <1>1, <1>3, <1>7, <4>2
      <4> QED
        BY <1>1, <1>2, <3>0, <4>2, <4>3
    <3> QED
      BY <3>1, <3>2, <3>3
  <2>6. IRetry'
    BY <2>5 DEF IRetry
  <2>7. conn'[t].exception = "close" /\ conn'[t].requests # {} =>
            conn'[s].shutdowns = 1 /\ Stream(s)' = <<>>
    <3>1. conn[t].exception = "close" /\ conn[t].requests # {} =>
            conn[s].shutdowns = 1 /\ Stream(s) = <<>>
      BY <1>1, <2>0 DEF INow, IClose
    <3> QED
      BY <1>3, <1>7, <3>1
  <2>8. ASSUME NEW q \in conn'[t].requests, q \in executed'
        PROVE  \/ q \in running'[s] \/ q \in SentRp(s)'
               \/ conn'[s].state >= StateClosed /\ ~Shuts(s)' /\ conn'[t].exception # "close"
    <3>0. conn'[s].state >= StateClosed
      BY <1>3, StatesAre DEF StateNames
    <3>1. q \in conn[t].requests /\ q \in executed
      BY <1>2, <1>3, <2>8
    <3>2. \/ q \in running[s] \/ q \in SentRp(s)
          \/ conn[s].state >= StateClosed /\ ~Shuts(s) /\ conn[t].exception # "close"
      BY <1>1, <2>0, <3>1 DEF INow, IClose
    <3>3. CASE q \in SentRp(s) /\ q \notin SentRp(s)'
      <4>1. conn[t].exception = "close" => Stream(s) = <<>>
        BY <1>1, <2>0, <3>1 DEF INow, IClose
      <4>2. Stream(s) = <<>> => SentRp(s) = {}
        BY ElemsEmpty DEF SentRp
      <4> QED
        BY <1>3, <1>7, <3>0, <3>3, <4>1, <4>2
    <3> QED
      BY <1>2, <1>3, <1>7, <3>0, <3>2, <3>3
  <2>9. IClose'
    BY <1>1, <1>3, <2>7, <2>8 DEF IClose
  <2>10. Promised
    <3>1. ASSUME NEW q \in Requests
          PROVE  Promise!MayBecome(q, outcome'[q])
      <4>1. CASE q \in Queued(conn[s])
        BY <1>2, <2>2, <4>1 DEF Finishes, Promise!MayBecome
      <4>2. CASE q \notin Queued(conn[s]) /\ q \in conn[s].requests
        BY <1>2, <2>2, <2>4, <4>2 DEF Finishes, Promise!MayBecome
      <4>3. CASE q \notin Queued(conn[s]) /\ q \notin conn[s].requests
        BY <1>14, <4>3 DEF Promise!MayBecome
      <4> QED
        BY <4>1, <4>2, <4>3
    <3> QED
      BY <1>2, <3>1 DEF Promised
  <2> QED
    BY <2>1, <2>3, <2>6, <2>9, <2>10 DEF INow
<1> QED
  BY <1>10, <1>11, <1>12, <1>13, <1>16, <1>17, <1>18, <1>19, <1>20 DEF IInv, Preserved

\* finished() and finish().
LEMMA FinishInv ==
    ASSUME IInv, NEW s \in Side, Finish(s)
    PROVE  Preserved
  BY FinishEnds, EndedKeeps

-----------------------------------------------------------------------------
(* message() on an established connection.                                 *)

\* Side s takes the replies rp and the requests st from its peer.
Takes(s, e, rp, st) ==
    /\ rp \subseteq SentRp(Peer(s)) \cap conn[s].requests
    /\ SentRp(Peer(s))' = SentRp(Peer(s)) \ rp
    /\ st \subseteq SentRq(Peer(s)) /\ SentRq(Peer(s))' \subseteq SentRq(Peer(s)) \ st
    /\ st = {} \/ \E r \in Requests : st = {r}
    /\ st # {} => conn[s].state < StateClosing
    /\ Shuts(Peer(s))' => Shuts(Peer(s))
    /\ Stream(Peer(s)) = <<>> => Stream(Peer(s))' = <<>>
    /\ e.exception = "close" =>
        \/ conn[s].exception = "close"
        \/ Shuts(Peer(s)) /\ Stream(Peer(s))' = <<>> /\ SentRp(Peer(s)) = {}

\* The dispatch() call for the requests ak that were sent and the replies rp.
UpcallFor(ak, rp) == [sent |-> ak \cap SentCallback, reply |-> rp \cap Async]
CallsFor(up) == IF up.sent \cup up.reply = {} THEN {} ELSE {up}

\* What message() changes.
Handled(s, e, rp, st) ==
    /\ conn[s].state \in 2 .. 4
    /\ e.requests = conn[s].requests \ rp /\ e.shutdowns = conn[s].shutdowns
    /\ e.dispatchCount = conn[s].dispatchCount + (IF st = {} THEN 0 ELSE 1)
                         + Cardinality(CallsFor(UpcallFor(e.acked, rp)))
    /\ upcalls' = [upcalls EXCEPT ![s] = @ \cup CallsFor(UpcallFor(e.acked, rp))]
    /\ running' = [running EXCEPT ![s] = @ \cup st]
    /\ executed' = executed \cup st
    /\ outcome' = [r \in Requests |-> IF r \in e.acked \ Twoway THEN "ok"
                                      ELSE IF r \in rp \ Async THEN "ok" ELSE outcome[r]]

\* The head of the wire is the head of the stream of the peer.
LEMMA HeadIsSent ==
    ASSUME IInv, NEW s \in Side, wire[s] # <<>>
    PROVE  /\ Head(wire[s]) \in Message
           /\ Head(wire[s]) \in Elems(Stream(Peer(s)))
<1> DEFINE t == Peer(s)
           q == wire[s]
           u == Unwritten(conn[t])
<1>1. t \in Side /\ Peer(t) = s
  BY PeerFacts
<1>2. q \in Seq(Message) /\ u \in Seq(Message) /\ Stream(t) = q \o u /\ Stream(t) \in Seq(Message)
      /\ Tidy(Stream(t))
  BY <1>1, StreamType DEF IInv, Stream, IShut
<1> HIDE DEF t, q, u
<1>3. Head(q \o u) = Head(q) /\ q \o u # <<>>
  BY <1>2, TailConcat DEF q
<1>4. Head(Stream(t)) \in Message /\ Head(Stream(t)) \in Elems(Stream(t))
  BY <1>2, <1>3, TidyTail
<1> QED
  BY <1>2, <1>3, <1>4 DEF t, q

\* A reply that arrives is awaited.
LEMMA ReplyAwaited ==
    ASSUME IInv, NEW s \in Side, conn[s].state # StateFinished, wire[s] # <<>>,
           Head(wire[s]).type = "reply"
    PROVE  Head(wire[s]).req \in conn[s].requests
<1> DEFINE m == Head(wire[s])
           t == Peer(s)
<1>1. m \in Message /\ m \in Elems(Stream(t))
  BY HeadIsSent
<1> HIDE DEF m
<1>2. m.type = "reply"
  BY DEF m
<1>3. m.req \in Requests /\ m = Reply(m.req)
  BY <1>1, <1>2, MessageKinds
<1>4. m.req \in SentRp(t) /\ t \in Side /\ Peer(t) = s
  BY <1>1, <1>3, PeerFacts DEF SentRp, Reps
<1>5. Caller[m.req] = s /\ m.req \in Twoway
  BY <1>4 DEF IInv, ICalls, ISentRp
<1>6. Awaited(s, m.req)
  BY <1>4 DEF Awaited
<1> QED
  BY <1>5, <1>6 DEF IInv, ICalls, IAwaited, m

\* A step that does not read takes nothing.
LEMMA TakesNothing ==
    ASSUME NEW s \in Side, NEW e, ReadsNone(s),
           e.exception = "close" => conn[s].exception = "close"
    PROVE  Takes(s, e, {}, {})
  BY DEF Takes, ReadsNone

\* A step that reads m takes the request or the reply in it.
LEMMA TakesMessage ==
    ASSUME IInv, NEW s \in Side, NEW e, conn[s].state \in 2 .. 4, NEW m, Reads(s, m),
           m.type = "reply" => m.req \in conn[s].requests,
           e.exception = "close" => conn[s].exception = "close" \/ m.type = "close",
           NEW rp, rp = Replied(conn[s], m), NEW st, st = Dispatched(conn[s], m)
    PROVE  Takes(s, e, rp, st)
<1> DEFINE t == Peer(s)
<1>1. /\ m \in Message /\ m \in Elems(Stream(t))
      /\ SentRq(t)' = SentRq(t) \ RequestOf(m) /\ SentRp(t)' = SentRp(t) \ ReplyOf(m)
      /\ Shuts(t)' => Shuts(t)
      /\ m = CloseConnection => Stream(t)' = <<>>
      /\ Stream(t) # <<>>
  BY DEF Reads
<1>2. rp = ReplyOf(m) /\ rp \subseteq conn[s].requests
  BY DEF Replied, ReplyOf
<1>3. rp \subseteq SentRp(t)
  BY <1>1, MessageKinds DEF Replied, SentRp, Reps
<1>4. st \subseteq RequestOf(m) /\ (st # {} => conn[s].state < StateClosing)
  BY StatesAre DEF Dispatched, RequestOf, StateNames
<1>5. st \subseteq SentRq(t) /\ (st = {} \/ \E r \in Requests : st = {r})
  BY <1>1, MessageKinds DEF Dispatched, SentRq, Reqs
<1>6. m.type = "close" => Shuts(t) /\ Stream(t)' = <<>> /\ SentRp(t) = {}
  <2> HAVE m.type = "close"
  <2>1. m = CloseConnection
    BY <1>1, MessageKinds
  <2>2. Shuts(t) /\ Stream(t)' = <<>>
    BY <1>1, <2>1 DEF Shuts
  <2>3. SentRp(t)' = SentRp(t)
    BY <1>1 DEF ReplyOf
  <2>4. SentRp(t)' = {}
    <3>1. SentRp(t)' = Reps(Stream(t)')
      BY DEF SentRp
    <3> QED
      BY <2>2, <3>1, ElemsEmpty
  <2> QED
    BY <2>2, <2>3, <2>4
<1> HIDE DEF t
<1>7. /\ rp \subseteq SentRp(t) \cap conn[s].requests
      /\ SentRp(t)' = SentRp(t) \ rp
      /\ SentRq(t)' \subseteq SentRq(t) \ st
  BY <1>1, <1>2, <1>3, <1>4
<1> QED
  BY <1>1, <1>4, <1>5, <1>6, <1>7 DEF Takes, t

\* message() on an established connection, with n messages written after the first.
HandlesReady(s, op, n, fails) ==
    LET m == Head(wire[s])
        c3 == WrittenNext(Parsed(conn[s], op, m), op, n, fails)
        rp == RepliedBy(conn[s], op, m)
        st == StartedBy(conn[s], op, m)
        calls == CallsFor(UpcallFor(c3.acked, rp))
    IN  /\ Commit(s, Counted(c3, calls), IF "read" \in op THEN 1 ELSE 0)
        /\ upcalls' = [upcalls EXCEPT ![s] = @ \cup calls]
        /\ running' = [running EXCEPT ![s] = @ \cup st]
        /\ executed' = executed \cup st
        /\ outcome' = Acked(c3, [r \in Requests |->
                         IF r \in rp \ Async THEN "ok" ELSE outcome[r]])

\* MessageReady, in the terms of the lemmas about one record.
LEMMA ReadySplits ==
    ASSUME NEW s, NEW op, MessageReady(s, op)
    PROVE  /\ Ready(conn[s], op) /\ ("read" \in op => wire[s] # <<>>)
           /\ \E n \in 0 .. WriteBound(Parsed(conn[s], op, Head(wire[s])), op) :
              \E fails \in BOOLEAN : HandlesReady(s, op, n, fails)
  BY DEF MessageReady, HandlesReady, WriteBound, Parsed, HeadWritten, RepliedBy, StartedBy,
         WrittenNext, Counted, CallsFor, UpcallFor

\* There is at most one upcall.
LEMMA CallsFinite ==
    ASSUME NEW up
    PROVE  IsFiniteSet(CallsFor(up)) /\ Cardinality(CallsFor(up)) \in Nat
<1>1. CallsFor(up) = {} \/ CallsFor(up) = {up}
  BY DEF CallsFor
<1>2. IsFiniteSet({up}) /\ Cardinality({up}) = 1
  BY FS_Singleton
<1>3. IsFiniteSet({}) /\ Cardinality({}) = 0
  BY FS_EmptySet
<1> QED
  BY <1>1, <1>2, <1>3

\* message() on an established connection does that.
LEMMA ReadyHandles ==
    ASSUME IInv, NEW s \in Side, NEW op \in Operations, MessageReady(s, op)
    PROVE  \E e, rp, st : /\ Advances(conn[s], e, <<>>) /\ Framed /\ Sends(s, e, <<>>)
                          /\ Takes(s, e, rp, st) /\ Handled(s, e, rp, st)
<1> DEFINE c == conn[s]
           m == Head(wire[s])
           c2 == Parsed(c, op, m)
           rp == RepliedBy(c, op, m)
           st == StartedBy(c, op, m)
           j == IF st = {} THEN 0 ELSE 1
<1>1. Good(c) /\ c.out = <<>> /\ c.acked = {}
  BY GoodRecord
<1>2. Ready(c, op) /\ ("read" \in op => wire[s] # <<>>) /\ c.state \in 2 .. 4
  <2>1. Ready(c, op) /\ ("read" \in op => wire[s] # <<>>)
    BY ReadySplits
  <2> QED
    BY <2>1, StatesAre DEF Ready, StateNames
<1>3. "read" \in op => m \in Message /\ (m.type = "reply" => m.req \in c.requests)
  BY <1>2, HeadIsSent, ReplyAwaited, StatesAre DEF StateNames
<1>4. j = (IF StartedBy(c, op, m) = {} THEN 0 ELSE 1) /\ j \in Nat
  OBVIOUS
<1>5. PICK n \in 0 .. WriteBound(c2, op), fails \in BOOLEAN : HandlesReady(s, op, n, fails)
  BY ReadySplits
<1> DEFINE c3 == WrittenNext(c2, op, n, fails)
           calls == CallsFor(UpcallFor(c3.acked, rp))
           e == Counted(c3, calls)
           i == IF "read" \in op THEN 1 ELSE 0
<1>8. /\ Commit(s, e, i)
      /\ upcalls' = [upcalls EXCEPT ![s] = @ \cup calls]
      /\ running' = [running EXCEPT ![s] = @ \cup st]
      /\ executed' = executed \cup st
      /\ outcome' = Acked(c3, [r \in Requests |-> IF r \in rp \ Async THEN "ok" ELSE outcome[r]])
  BY <1>5 DEF HandlesReady
<1>9. i \in {0, 1} /\ (i = 1 => wire[s] # <<>>) /\ (i = 1 <=> "read" \in op) /\ (i = 0 <=> "read" \notin op)
  BY <1>2
<1>7. c3 = WrittenNext(c2, op, n, fails) /\ e = Counted(c3, calls) /\ Cardinality(calls) \in Nat
  BY CallsFinite
<1> HIDE DEF j, m, c
<1>6. /\ HasRead(c, c2, op, m, rp, j)
      /\ "read" \in op => rp = Replied(c, m) /\ st = Dispatched(c, m)
  BY <1>1, <1>2, <1>3, <1>4, ReadKeeps
<1>19. "read" \notin op => rp = {} /\ st = {}
  BY DEF RepliedBy, StartedBy
<1>20. j = IF st = {} THEN 0 ELSE 1
  BY <1>4
<1> HIDE DEF e, i, c3, c2, rp, st
<1>21. calls = CallsFor(UpcallFor(c3.acked, rp))
  OBVIOUS
<1> HIDE DEF calls
<1>10. /\ Advances(c, e, <<>>) /\ e.acked = c3.acked /\ e.shutdowns = c.shutdowns
       /\ e.requests = c.requests \ rp
       /\ e.dispatchCount = c.dispatchCount + j + Cardinality(calls)
       /\ e.exception = "close" => c.exception = "close" \/ ("read" \in op /\ m.type = "close")
  <2>1. Good(c) /\ c.state \in 2 .. 4 /\ j \in Nat /\ HasRead(c, c2, op, m, rp, j)
    BY <1>1, <1>2, <1>4, <1>6
  <2>2. n \in 0 .. WriteBound(c2, op) /\ fails \in BOOLEAN
    BY <1>5
  <2>3. c3 = WrittenNext(c2, op, n, fails)
    BY <1>7
  <2>4. e = Counted(c3, calls) /\ Cardinality(calls) \in Nat
    BY <1>7
  <2>5. HasWritten(c, op, m, rp, j, c2, n, fails, c3, calls, e)
    BY <2>1, <2>2, <2>3, <2>4 DEF HasWritten
  <2> QED
    BY <2>5, WriteKeeps
<1>11. calls = CallsFor(UpcallFor(e.acked, rp))
  BY <1>10, <1>21
<1> DEFINE nil == <<>>
<1>12. /\ nil \in Seq(Message) /\ Advances(conn[s], e, nil) /\ Tidy(nil)
       /\ Reqs(nil) \cap SentRq(s) = {} /\ Reps(nil) \cap SentRp(s) = {}
  BY <1>10, NoticeFacts DEF c
<1>13. IType /\ IGood /\ IShut
  BY DEF IInv
<1> HIDE DEF nil
<1>14. /\ Framed /\ Sends(s, e, nil)
       /\ i = 0 => ReadsNone(s)
       /\ i = 1 => Reads(s, Head(wire[s]))
  BY <1>8, <1>9, <1>12, <1>13, CommitKeeps
<1>15. Takes(s, e, rp, st)
  <2>1. CASE "read" \in op
    <3>1. /\ conn[s].state \in 2 .. 4 /\ Reads(s, m) /\ (m.type = "reply" => m.req \in conn[s].requests)
          /\ e.exception = "close" => conn[s].exception = "close" \/ m.type = "close"
          /\ rp = Replied(conn[s], m) /\ st = Dispatched(conn[s], m)
      BY <1>2, <1>3, <1>6, <1>9, <1>10, <1>14, <2>1 DEF m, c
    <3> QED
      BY <3>1, TakesMessage
  <2>2. CASE "read" \notin op
    <3>1. rp = {} /\ st = {} /\ ReadsNone(s) /\ (e.exception = "close" => conn[s].exception = "close")
      BY <1>9, <1>10, <1>14, <1>19, <2>2 DEF c
    <3> QED
      BY <3>1, TakesNothing
  <2> QED
    BY <2>1, <2>2
<1>16. outcome' = [r \in Requests |-> IF r \in e.acked \ Twoway THEN "ok"
                                      ELSE IF r \in rp \ Async THEN "ok" ELSE outcome[r]]
  BY <1>8, <1>10 DEF Acked
<1>17. Handled(s, e, rp, st)
  BY <1>2, <1>8, <1>10, <1>11, <1>16, <1>20 DEF Handled, c
<1> QED
  BY <1>12, <1>14, <1>15, <1>17 DEF nil

\* Handling a message preserves the invariant and the promise: a request is executed once,
\* a reply finds its request, and the upcall is a new one.
LEMMA HandledKeeps ==
    ASSUME IInv, NEW s \in Side, NEW e, NEW rp, NEW st, Advances(conn[s], e, <<>>), Framed,
           Sends(s, e, <<>>), Takes(s, e, rp, st), Handled(s, e, rp, st)
    PROVE  Preserved
<1> DEFINE t == Peer(s)
           ak == e.acked
           up == UpcallFor(ak, rp)
           calls == CallsFor(up)
           j == IF st = {} THEN 0 ELSE 1
<1>1. t \in Side /\ t # s /\ Peer(t) = s /\ Peer(s) = t /\ \A x \in Side : x = s \/ x = t
  BY PeerFacts
<1>2. /\ TypeOK /\ \A x \in Side : IsFiniteSet(running[x]) /\ IsFiniteSet(upcalls[x])
      /\ ICalls /\ IUp
  BY DEF IInv, IType
<1>3. /\ rp \subseteq SentRp(t) /\ rp \subseteq conn[s].requests
      /\ SentRp(t)' = SentRp(t) \ rp
      /\ st \subseteq SentRq(t) /\ SentRq(t)' \subseteq SentRq(t) \ st
      /\ st = {} \/ \E r \in Requests : st = {r}
      /\ st # {} => conn[s].state < StateClosing
      /\ Shuts(t)' => Shuts(t)
      /\ Stream(t) = <<>> => Stream(t)' = <<>>
      /\ e.exception = "close" =>
            \/ conn[s].exception = "close"
            \/ Shuts(t) /\ Stream(t)' = <<>> /\ SentRp(t) = {}
  BY DEF Takes, t
<1>4. /\ conn[s].state \in 2 .. 4
      /\ e.requests = conn[s].requests \ rp /\ e.shutdowns = conn[s].shutdowns
      /\ e.dispatchCount = conn[s].dispatchCount + j + Cardinality(calls)
      /\ upcalls' = [upcalls EXCEPT ![s] = @ \cup calls]
      /\ running' = [running EXCEPT ![s] = @ \cup st]
      /\ executed' = executed \cup st
      /\ outcome' = [r \in Requests |-> IF r \in ak \ Twoway THEN "ok"
                                        ELSE IF r \in rp \ Async THEN "ok" ELSE outcome[r]]
  BY DEF Handled
<1>5. /\ conn'[t] = conn[t]
      /\ conn'[s].state = e.state /\ conn'[s].exception = e.exception
      /\ conn'[s].shutdowns = conn[s].shutdowns /\ conn'[s].written = e.written
      /\ conn'[s].requests = conn[s].requests \ rp
      /\ conn'[s].dispatchCount = conn[s].dispatchCount + j + Cardinality(calls)
      /\ Queued(conn'[s]) \cup ak = Queued(conn[s]) /\ Queued(conn'[s]) \cap ak = {}
      /\ Timed(e) => Timed(conn'[s])
      /\ Stream(s)' = Stream(s)
      /\ SentRq(s)' = SentRq(s) /\ SentRp(s)' = SentRp(s) /\ (Shuts(s)' <=> Shuts(s))
  <2>1. Reqs(<<>>) = {} /\ Reps(<<>>) = {} /\ CloseConnection \notin Elems(<<>>)
    BY ElemsEmpty
  <2>2. Stream(s) \in Seq(Message)
    BY StreamType DEF IInv
  <2>3. Stream(s) \o <<>> = Stream(s)
    BY <2>2, ConcatEmptySeq
  <2> QED
    BY <1>4, <2>1, <2>3 DEF Sends, t
<1>6. /\ up.sent = ak \cap SentCallback /\ up.reply = rp \cap Async
      /\ calls = {} \/ calls = {up}
      /\ calls = {} => up.sent = {} /\ up.reply = {}
      /\ calls # {} => up.sent # {} \/ up.reply # {}
  <2>1. up.sent = ak \cap SentCallback /\ up.reply = rp \cap Async
    BY DEF UpcallFor
  <2> HIDE DEF up
  <2> QED
    BY <2>1 DEF CallsFor
<1> HIDE DEF t, ak, up, calls, j
<1>7. /\ running' \in [Side -> SUBSET Requests] /\ upcalls' \in [Side -> SUBSET Upcall]
      /\ running'[s] = running[s] \cup st /\ running'[t] = running[t]
      /\ upcalls'[s] = upcalls[s] \cup calls /\ upcalls'[t] = upcalls[t]
      /\ up.sent \subseteq Requests /\ up.reply \subseteq Requests
  <2>1. /\ running \in [Side -> SUBSET Requests] /\ upcalls \in [Side -> SUBSET Upcall]
    BY <1>2 DEF TypeOK
  <2>2. st \subseteq Requests /\ up.sent \subseteq Requests /\ up.reply \subseteq Requests
    BY <1>3, <1>6, ConnectionAssumption DEF SentRq, Reqs
  <2>3. up \in Upcall
    BY <2>2 DEF up, UpcallFor, Upcall
  <2>4. calls \subseteq Upcall
    BY <1>6, <2>3
  <2> QED
    BY <1>1, <1>4, <2>1, <2>2, <2>4
<1>8. /\ \A q \in st : q \in Requests /\ Caller[q] = t /\ outcome[q] # "idle" /\ q \notin executed
      /\ \A q \in rp : /\ q \in Requests /\ Caller[q] = s /\ q \in Twoway /\ q \in executed
                       /\ q \notin running[t] /\ outcome[q] = "pending"
      /\ \A q \in ak : q \in Requests /\ q \in Queued(conn[s]) /\ Caller[q] = s /\ outcome[q] # "idle"
  <2>1. \A q \in st : q \in Requests /\ Caller[q] = t /\ outcome[q] # "idle" /\ q \notin executed
    BY <1>1, <1>2, <1>3 DEF ICalls, ISentRq, SentRq, Reqs
  <2>2. \A q \in rp : q \in Requests /\ Caller[q] = s /\ q \in Twoway /\ q \in executed /\ q \notin running[t]
    BY <1>1, <1>2, <1>3 DEF ICalls, ISentRp, SentRp, Reps
  <2>3. \A q \in rp : outcome[q] = "pending"
    BY <1>2, <1>3 DEF ICalls, IRequests
  <2>4. \A q \in ak : q \in Requests /\ q \in Queued(conn[s])
    BY <1>5 DEF Queued, Reqs
  <2>5. \A q \in ak : Caller[q] = s /\ outcome[q] # "idle"
    BY <1>2, <2>4 DEF ICalls, IQueued
  <2> QED
    BY <2>1, <2>2, <2>3, <2>4, <2>5
<1>9. /\ outcome' \in [Requests -> Outcomes]
      /\ \A q \in Requests : outcome'[q] =
            IF q \in ak \ Twoway THEN "ok" ELSE IF q \in rp \ Async THEN "ok" ELSE outcome[q]
  <2>1. outcome \in [Requests -> Outcomes] /\ "ok" \in Outcomes
    BY <1>2 DEF TypeOK, Outcomes
  <2> QED
    BY <1>4, <2>1
<1>10. /\ \A q \in Requests : outcome'[q] = "idle" => outcome[q] = "idle"
       /\ \A q \in Requests : outcome'[q] = "retry" => outcome[q] = "retry"
       /\ \A q \in Requests : outcome'[q] = "pending" =>
            /\ outcome[q] = "pending" /\ (q \in ak => q \in Twoway) /\ (q \in rp => q \in Async)
       /\ \A q \in Requests : q \in Twoway /\ q \notin rp => outcome'[q] = outcome[q]
       /\ \A q \in Requests : q \notin ak /\ q \notin rp => outcome'[q] = outcome[q]
       /\ \A q \in Requests : Caller[q] = t => outcome'[q] = outcome[q]
       /\ \A q \in Requests : q \in Twoway /\ q \in Async => outcome'[q] = outcome[q]
  BY <1>1, <1>8, <1>9
<1>11. \A v \in upcalls[s] : v # up \/ calls = {}
  <2> SUFFICES ASSUME up \in upcalls[s], calls # {}
               PROVE  FALSE
    OBVIOUS
  <2>1. CASE up.reply # {}
    <3>1. PICK q \in up.reply : TRUE
      BY <2>1
    <3>2. q \in conn[s].requests
      BY <1>3, <1>6
    <3> QED
      BY <1>2, <3>2 DEF IUp
  <2>2. CASE up.sent # {}
    <3>1. PICK q \in up.sent : TRUE
      BY <2>2
    <3>2. q \in Queued(conn[s])
      BY <1>6, <1>8
    <3> QED
      BY <1>2, <3>2 DEF IUp
  <2> QED
    BY <1>6, <2>1, <2>2
<1>12. /\ IsFiniteSet(running'[s]) /\ Cardinality(running'[s]) = Cardinality(running[s]) + j
       /\ IsFiniteSet(upcalls'[s]) /\ Cardinality(upcalls'[s]) = Cardinality(upcalls[s]) + Cardinality(calls)
       /\ Cardinality(running[s]) \in Nat /\ Cardinality(upcalls[s]) \in Nat
       /\ Cardinality(calls) \in Nat /\ j \in Nat
  <2>1. /\ IsFiniteSet(running[s]) /\ IsFiniteSet(upcalls[s])
        /\ Cardinality(running[s]) \in Nat /\ Cardinality(upcalls[s]) \in Nat
    BY CountFacts
  <2>2. \A q \in st : q \notin running[s]
    BY <1>2, <1>8 DEF ICalls, IRunning
  <2>3. IsFiniteSet(running'[s]) /\ Cardinality(running'[s]) = Cardinality(running[s]) + j /\ j \in Nat
    <3>1. CASE st = {}
      BY <1>7, <2>1, <3>1 DEF j
    <3>2. CASE st # {}
      <4>1. PICK r \in Requests : st = {r}
        BY <1>3, <3>2
      <4>2. running'[s] = running[s] \cup {r} /\ r \notin running[s] /\ j = 1
        BY <1>7, <2>2, <3>2, <4>1 DEF j
      <4>3. /\ IsFiniteSet(running[s] \cup {r})
            /\ Cardinality(running[s] \cup {r}) = Cardinality(running[s]) + 1
        BY ONLY <2>1, <4>2, FS_AddElement
      <4> QED
        BY ONLY <4>2, <4>3
    <3> QED
      BY <3>1, <3>2
  <2>4. /\ IsFiniteSet(upcalls'[s]) /\ Cardinality(calls) \in Nat
        /\ Cardinality(upcalls'[s]) = Cardinality(upcalls[s]) + Cardinality(calls)
    <3>1. CASE calls = {}
      <4>1. Cardinality(calls) = 0
        BY <3>1, FS_EmptySet
      <4> QED
        BY <1>7, <2>1, <3>1, <4>1
    <3>2. CASE calls # {}
      <4>1. calls = {up} /\ up \notin upcalls[s] /\ upcalls'[s] = upcalls[s] \cup {up}
        BY <1>6, <1>7, <1>11, <3>2
      <4>2. Cardinality(calls) = 1
        BY <4>1, FS_Singleton
      <4> QED
        BY SMTT(30), <2>1, <4>1, <4>2, FS_AddElement
    <3> QED
      BY <3>1, <3>2
  <2> QED
    BY <2>1, <2>3, <2>4
<1>13. IType'
  <2>1. TypeOK'
    <3>1. executed' \subseteq Requests
      BY <1>2, <1>4, <1>8 DEF TypeOK
    <3> QED
      BY <1>7, <1>9, <3>1 DEF TypeOK, Framed
  <2>2. \A x \in Side : IsFiniteSet(running'[x]) /\ IsFiniteSet(upcalls'[x])
    BY <1>1, <1>2, <1>7, <1>12
  <2> QED
    BY <2>1, <2>2 DEF IType
<1>14. DispatchCountExact'
  <2>1. \A x \in Side : conn[x].dispatchCount = Cardinality(running[x]) + Cardinality(upcalls[x])
    BY DEF IInv, DispatchCountExact
  <2>2. conn'[s].dispatchCount = Cardinality(running'[s]) + Cardinality(upcalls'[s])
    BY <1>5, <1>12, <2>1
  <2>3. conn'[t].dispatchCount = Cardinality(running'[t]) + Cardinality(upcalls'[t])
    BY <1>1, <1>5, <1>7, <2>1
  <2> QED
    BY <1>1, <2>2, <2>3 DEF DispatchCountExact
<1>15. IShut'
  <2>1. conn[s].shutdowns = 1 => st = {}
    <3>1. conn[s].shutdowns = 1 => conn[s].state >= StateClosing
      BY GoodRecord DEF Good, Sound
    <3> QED
      BY <1>3, <1>4, <3>1, StatesAre DEF StateNames
  <2>2. \A x \in Side : conn[x].shutdowns = 1 => running[x] = {}
    BY DEF IInv, IShut
  <2>3. \A x \in Side : conn'[x].shutdowns = 1 => running'[x] = {}
    BY <1>1, <1>5, <1>7, <2>1, <2>2
  <2> QED
    BY <2>3 DEF Framed, IShut
<1>16. ICalls'
  <2>1. IExecuted'
    BY <1>2, <1>4, <1>8, <1>10 DEF ICalls, IExecuted
  <2>2. ISentRq'
    <3>1. \A x \in Side : SentRq(x) \subseteq Requests
      BY DEF SentRq, Reqs
    <3>2. \A q \in SentRq(s)' : Caller[q] = s /\ outcome'[q] # "idle" /\ q \notin executed'
      BY <1>1, <1>2, <1>4, <1>5, <1>8, <1>10, <3>1 DEF ICalls, ISentRq
    <3>3. \A q \in SentRq(t)' : Caller[q] = t /\ outcome'[q] # "idle" /\ q \notin executed'
      BY <1>1, <1>2, <1>3, <1>4, <1>10, <3>1 DEF ICalls, ISentRq
    <3> QED
      BY <1>1, <3>2, <3>3 DEF ISentRq
  <2>3. ISentRp'
    <3>1. \A q \in SentRp(s)' : Caller[q] = t /\ q \in Twoway /\ q \in executed' /\ q \notin running'[s]
      BY <1>1, <1>2, <1>4, <1>5, <1>7, <1>8 DEF ICalls, ISentRp
    <3>2. \A q \in SentRp(t)' : Caller[q] = s /\ q \in Twoway /\ q \in executed' /\ q \notin running'[t]
      BY <1>1, <1>2, <1>3, <1>4, <1>7 DEF ICalls, ISentRp
    <3> QED
      BY <1>1, <3>1, <3>2 DEF ISentRp
  <2>4. IRunning'
    <3>1. \A q \in running'[s] : Caller[q] = t /\ q \in executed'
      BY <1>1, <1>2, <1>4, <1>7, <1>8 DEF ICalls, IRunning
    <3>2. \A q \in running'[t] : Caller[q] = s /\ q \in executed'
      BY <1>1, <1>2, <1>4, <1>7 DEF ICalls, IRunning
    <3> QED
      BY <1>1, <3>1, <3>2 DEF IRunning
  <2>5. IQueued'
    <3>1. \A x \in Side : Queued(conn[x]) \subseteq Requests
      BY DEF Queued, Reqs
    <3>2. \A x \in Side : Queued(conn'[x]) \subseteq Queued(conn[x])
      BY <1>1, <1>5
    <3> QED
      BY <1>2, <1>10, <3>1, <3>2 DEF ICalls, IQueued
  <2>6. IRequests'
    <3>1. \A q \in Twoway : q \in Requests
      BY ConnectionAssumption
    <3>2. \A q \in conn'[s].requests : Caller[q] = s /\ q \in Twoway /\ outcome'[q] = "pending"
      BY <1>2, <1>5, <1>10, <3>1 DEF ICalls, IRequests
    <3>3. \A q \in conn'[t].requests : Caller[q] = t /\ q \in Twoway /\ outcome'[q] = "pending"
      BY <1>1, <1>2, <1>5, <1>10, <3>1 DEF ICalls, IRequests
    <3> QED
      BY <1>1, <3>2, <3>3 DEF IRequests
  <2>7. IAwaited'
    <3> SUFFICES ASSUME NEW x \in Side, NEW q \in Twoway, Caller[q] = x,
                        conn'[x].state # StateFinished, Awaited(x, q)'
                 PROVE  q \in conn'[x].requests
      BY DEF IAwaited
    <3>1. CASE x = s
      <4>1. q \in SentRq(s) \/ q \in running[t] \/ q \in SentRp(t) \ rp
        BY <1>1, <1>3, <1>5, <1>7, <3>1 DEF Awaited
      <4>2. q \notin rp
        <5>1. q \in SentRq(s) => q \notin executed
          BY <1>2 DEF ICalls, ISentRq
        <5> QED
          BY <1>8, <4>1, <5>1
      <4>3. Awaited(s, q) /\ conn[s].state # StateFinished
        BY <1>1, <1>4, <4>1, StatesAre DEF Awaited, StateNames
      <4>4. q \in conn[s].requests
        BY <1>2, <3>1, <4>3 DEF ICalls, IAwaited
      <4> QED
        BY <1>5, <3>1, <4>2, <4>4
    <3>2. CASE x = t
      <4>1. q \in SentRq(t)' \/ q \in running'[s] \/ q \in SentRp(s)'
        BY <1>1, <3>2 DEF Awaited
      <4>2. q \in SentRq(t) \/ q \in running[s] \/ q \in SentRp(s)
        BY <1>3, <1>5, <1>7, <4>1
      <4>3. Awaited(t, q) /\ conn[t].state # StateFinished
        BY <1>1, <1>5, <3>2, <4>2 DEF Awaited
      <4>4. q \in conn[t].requests
        BY <1>1, <1>2, <3>2, <4>3 DEF ICalls, IAwaited
      <4> QED
        BY <1>5, <3>2, <4>4
    <3> QED
      BY <1>1, <3>1, <3>2
  <2> QED
    BY <2>1, <2>2, <2>3, <2>4, <2>5, <2>6, <2>7 DEF ICalls
<1>17. IUp'
  <2>0. \A x \in Side : \A v \in upcalls[x] : v.reply \subseteq Requests /\ v.sent \subseteq Requests
    BY <1>2 DEF TypeOK, Upcall
  <2>1. \A x \in Side : \A v \in upcalls[x] : \A q \in v.reply :
            /\ Caller[q] = x /\ q \in Twoway /\ q \in executed'
            /\ q \notin conn'[x].requests /\ outcome'[q] # "idle"
    <3>1. \A x \in Side : conn'[x].requests \subseteq conn[x].requests
      BY <1>1, <1>5
    <3> QED
      BY <1>2, <1>4, <1>10, <2>0, <3>1 DEF IUp
  <2>2. \A x \in Side : \A v \in upcalls[x] : \A q \in v.sent :
            Caller[q] = x /\ q \notin Queued(conn'[x]) /\ outcome'[q] # "idle"
    <3>1. \A x \in Side : Queued(conn'[x]) \subseteq Queued(conn[x])
      BY <1>1, <1>5
    <3> QED
      BY <1>2, <1>10, <2>0, <3>1 DEF IUp
  <2>3. \A q \in up.reply : /\ Caller[q] = s /\ q \in Twoway /\ q \in executed'
                            /\ q \notin conn'[s].requests /\ outcome'[q] # "idle"
    BY <1>4, <1>5, <1>6, <1>8, <1>10
  <2>4. \A q \in up.sent : Caller[q] = s /\ q \notin Queued(conn'[s]) /\ outcome'[q] # "idle"
    BY <1>5, <1>6, <1>8, <1>10
  <2>5. \A v \in upcalls[s] : v.reply \cap up.reply = {}
    BY <1>2, <1>3, <1>6 DEF IUp
  <2>6. \A v \in upcalls'[s] : v \in upcalls[s] \/ v = up
    BY <1>6, <1>7
  <2>7. \A x \in Side : \A v \in upcalls'[x] : \A q \in v.reply :
            /\ Caller[q] = x /\ q \in Twoway /\ q \in executed'
            /\ q \notin conn'[x].requests /\ outcome'[q] # "idle"
    BY <1>1, <1>7, <2>1, <2>3, <2>6
  <2>8. \A x \in Side : \A v \in upcalls'[x] : \A q \in v.sent :
            Caller[q] = x /\ q \notin Queued(conn'[x]) /\ outcome'[q] # "idle"
    BY <1>1, <1>7, <2>2, <2>4, <2>6
  <2>9. \A x \in Side : \A v, w \in upcalls'[x] : v # w => v.reply \cap w.reply = {}
    <3>1. \A x \in Side : \A v, w \in upcalls[x] : v # w => v.reply \cap w.reply = {}
      BY <1>2 DEF IUp
    <3>2. \A v, w \in upcalls'[s] : v # w => v.reply \cap w.reply = {}
      BY <2>5, <2>6, <3>1
    <3> QED
      BY <1>1, <1>7, <3>1, <3>2
  <2> QED
    BY <2>7, <2>8, <2>9 DEF IUp
<1>18. IForgot'
  <2> SUFFICES ASSUME NEW q \in Requests, outcome'[q] = "pending"
               PROVE  IF q \in Twoway
                      THEN \/ q \in conn'[Caller[q]].requests
                           \/ \E v \in upcalls'[Caller[q]] : q \in v.reply
                      ELSE q \in Queued(conn'[Caller[q]])
    BY DEF IForgot
  <2>1. Caller[q] = s \/ Caller[q] = t
    BY <1>1, ConnectionAssumption
  <2>2. outcome[q] = "pending" /\ (q \in ak => q \in Twoway) /\ (q \in rp => q \in Async)
    BY <1>10
  <2>3. IF q \in Twoway
        THEN \/ q \in conn[Caller[q]].requests
             \/ \E v \in upcalls[Caller[q]] : q \in v.reply
        ELSE q \in Queued(conn[Caller[q]])
    BY <2>2 DEF IInv, IForgot
  <2>4. CASE Caller[q] = t
    BY <1>5, <1>7, <2>3, <2>4
  <2>5. CASE Caller[q] = s /\ q \notin Twoway
    BY <1>5, <2>2, <2>3, <2>5
  <2>6. CASE Caller[q] = s /\ q \in Twoway /\ q \in rp
    <3>1. q \in up.reply /\ calls = {up} /\ up \in upcalls'[s]
      BY <1>6, <1>7, <2>2, <2>6
    <3> QED
      BY <2>6, <3>1
  <2>7. CASE Caller[q] = s /\ q \in Twoway /\ q \notin rp
    BY <1>5, <1>7, <2>3, <2>7
  <2> QED
    BY <2>1, <2>4, <2>5, <2>6, <2>7
<1>19. IOk'
  <2>1. \A q \in Twoway : outcome[q] = "ok" => q \in executed
    BY DEF IInv, IOk
  <2>2. Twoway \subseteq Requests
    BY ConnectionAssumption
  <2> QED
    BY <1>4, <1>8, <1>9, <2>1, <2>2 DEF IOk
<1>20. ASSUME ~CombinedEvents
       PROVE  INow' /\ Promised
  <2>0. INow
    BY <1>20 DEF IInv
  <2>1. ILife'
    BY <1>1, <1>5, <1>20, <2>0 DEF INow, ILife, Advances
  <2>2. \A x \in Side : \A q \in Queued(conn[x]) : q \in Requests /\ q \notin executed /\ outcome[q] = "pending"
    <3>1. \A x \in Side : Queued(conn[x]) \subseteq SentRq(x)
      BY <2>0, QueuedIsSent DEF INow, ILife, IInv
    <3> QED
      BY <1>2, <2>0, <3>1 DEF INow, IPending, ICalls, ISentRq, Queued, Reqs
  <2>3. IPending'
    <3>1. ASSUME NEW x \in Side, NEW v \in upcalls[x], NEW q \in v.reply
          PROVE  outcome'[q] = "pending"
      <4>1. /\ outcome[q] = "pending" /\ q \in Requests /\ q \in Twoway /\ Caller[q] = x
            /\ q \notin conn[x].requests
        BY <1>2, <2>0, <3>1 DEF INow, IPending, TypeOK, Upcall, IUp
      <4> QED
        BY <1>1, <1>3, <1>10, <4>1
    <3>2. \A q \in up.reply : outcome'[q] = "pending"
      BY <1>6, <1>8, <1>10
    <3>3. \A x \in Side : \A v \in upcalls'[x] : \A q \in v.reply : outcome'[q] = "pending"
      <4>1. \A v \in upcalls'[s] : v \in upcalls[s] \/ v = up
        BY <1>6, <1>7
      <4> QED
        BY <1>1, <1>7, <3>1, <3>2, <4>1
    <3>4. \A q \in Queued(conn'[s]) : outcome'[q] = "pending"
      <4>1. \A q \in Queued(conn'[s]) : q \in Queued(conn[s]) /\ q \notin ak
        BY <1>5
      <4> QED
        BY <1>8, <1>10, <2>2, <4>1
    <3>5. \A q \in Queued(conn'[t]) : outcome'[q] = "pending"
      <4>1. \A q \in Queued(conn[t]) : Caller[q] = t
        BY <1>1, <1>2 DEF ICalls, IQueued
      <4> QED
        BY <1>1, <1>5, <1>10, <2>2, <4>1
    <3> QED
      BY <1>1, <3>3, <3>4, <3>5 DEF IPending
  <2>4. \A q \in st : outcome[q] # "retry"
    <3>1. \A q \in st : outcome[q] = "retry" => conn[s].state >= StateClosing
      BY <1>1, <1>3, <1>8, <2>0 DEF INow, IRetry
    <3> QED
      BY <1>3, <1>4, <3>1, StatesAre DEF StateNames
  <2>5. IRetry'
    <3> SUFFICES ASSUME NEW q \in Requests, outcome'[q] = "retry"
                 PROVE  /\ q \notin executed'
                        /\ \A x \in Side : q \in SentRq(x)' => conn'[Peer(x)].state >= StateClosing
      BY DEF IRetry
    <3>1. outcome[q] = "retry"
      BY <1>10
    <3>2. /\ q \notin executed
          /\ \A x \in Side : q \in SentRq(x) => conn[Peer(x)].state >= StateClosing
      BY <2>0, <3>1 DEF INow, IRetry
    <3>3. q \notin executed'
      BY <1>4, <2>4, <3>1, <3>2
    <3>4. q \in SentRq(s)' => conn'[t].state >= StateClosing
      BY <1>1, <1>5, <3>2
    <3>5. q \in SentRq(t)' => conn'[s].state >= StateClosing
      BY <1>1, <1>3, <1>5, <3>2 DEF Advances
    <3> QED
      BY <1>1, <3>3, <3>4, <3>5
  <2>6. /\ conn[s].exception = "close" /\ conn[s].requests # {} =>
            conn[t].shutdowns = 1 /\ Stream(t) = <<>>
        /\ conn[t].exception = "close" /\ conn[t].requests # {} =>
            conn[s].shutdowns = 1 /\ Stream(s) = <<>>
        /\ Shuts(t) => conn[t].shutdowns = 1 /\ running[t] = {}
    BY <1>1, <2>0 DEF INow, IClose, IInv, IShut
  <2>7. /\ conn'[s].exception = "close" /\ conn'[s].requests # {} =>
            conn'[t].shutdowns = 1 /\ Stream(t)' = <<>>
        /\ conn'[t].exception = "close" /\ conn'[t].requests # {} =>
            conn'[s].shutdowns = 1 /\ Stream(s)' = <<>>
    BY <1>3, <1>5, <2>6
  <2>8. ASSUME NEW q \in conn'[s].requests, q \in executed'
        PROVE  \/ q \in running'[t] \/ q \in SentRp(t)'
               \/ conn'[t].state >= StateClosed /\ ~Shuts(t)' /\ conn'[s].exception # "close"
    <3>1. q \in conn[s].requests /\ q \notin rp
      BY <1>5, <2>8
    <3>2. Caller[q] = s
      BY <1>2, <3>1 DEF ICalls, IRequests
    <3>3. q \in executed
      BY <1>1, <1>4, <1>8, <2>8, <3>2
    <3>4. \/ q \in running[t] \/ q \in SentRp(t)
          \/ conn[t].state >= StateClosed /\ ~Shuts(t) /\ conn[s].exception # "close"
      BY <1>1, <2>0, <3>1, <3>3 DEF INow, IClose
    <3> QED
      BY <1>3, <1>5, <1>7, <2>6, <3>1, <3>4
  <2>9. ASSUME NEW q \in conn'[t].requests, q \in executed'
        PROVE  \/ q \in running'[s] \/ q \in SentRp(s)'
               \/ conn'[s].state >= StateClosed /\ ~Shuts(s)' /\ conn'[t].exception # "close"
    <3>1. CASE q \in st
      BY <1>7, <3>1
    <3>2. CASE q \notin st
      <4>1. \/ q \in running[s] \/ q \in SentRp(s) \/ conn[s].state >= StateClosed
        BY <1>1, <1>4, <1>5, <2>0, <2>9, <3>2 DEF INow, IClose
      <4> QED
        BY <1>4, <1>5, <1>7, <4>1, StatesAre DEF StateNames
    <3> QED
      BY <3>1, <3>2
  <2>10. IClose'
    BY <1>1, <2>7, <2>8, <2>9 DEF IClose
  <2>11. Promised
    <3>1. ASSUME NEW q \in Requests
          PROVE  Promise!MayBecome(q, outcome'[q])
      <4>1. q \in ak => outcome[q] = "pending"
        BY <1>8, <2>2
      <4> QED
        BY <1>8, <1>9, <4>1 DEF Promise!MayBecome
    <3>2. \A q \in executed' \ executed : outcome[q] \notin {"idle", "retry"} /\ outcome'[q] # "retry"
      <4>1. \A q \in executed' \ executed : q \in st
        BY <1>4
      <4> QED
        BY <1>8, <1>10, <2>4, <4>1
    <3> QED
      BY <1>4, <3>1, <3>2 DEF Promised
  <2> QED
    BY <2>1, <2>3, <2>5, <2>10, <2>11 DEF INow
<1> QED
  BY <1>13, <1>14, <1>15, <1>16, <1>17, <1>18, <1>19, <1>20 DEF IInv, Framed, Preserved

\* message() on an established connection.
LEMMA MessageReadyInv ==
    ASSUME IInv, NEW s \in Side, NEW op \in Operations, MessageReady(s, op)
    PROVE  Preserved
<1>1. PICK e, rp, st : /\ Advances(conn[s], e, <<>>) /\ Framed /\ Sends(s, e, <<>>)
                       /\ Takes(s, e, rp, st) /\ Handled(s, e, rp, st)
  BY ReadyHandles
<1> QED
  BY <1>1, HandledKeeps

-----------------------------------------------------------------------------
(* The invariant holds of the initial states and is kept by every step.    *)

\* A new connection.
LEMMA NewIsGood == Good(NewConnection) /\ Timed(NewConnection) /\ ~NewConnection.written
                   /\ NewConnection.out = <<>> /\ NewConnection.acked = {}
                   /\ Unwritten(NewConnection) = <<>> /\ Queued(NewConnection) = {}
                   /\ NewConnection.requests = {} /\ NewConnection.dispatchCount = 0
                   /\ NewConnection.shutdowns = 0 /\ NewConnection.exception = NoException
<1> DEFINE c == NewConnection
<1>1. /\ c.state = 0 /\ c.exception = "none" /\ c.started = FALSE /\ c.startCallback = FALSE
      /\ c.reg = {} /\ c.requests = {} /\ c.sendStreams = <<>> /\ c.written = FALSE
      /\ c.dispatchCount = 0 /\ c.shutdowns = 0 /\ c.writeTimer = FALSE /\ c.firing = FALSE
      /\ c.finishQueued = FALSE /\ c.reaped = 0 /\ c.out = <<>> /\ c.acked = {}
  BY DEF NewConnection, StateNotInitialized, NoException
<1>2. c \in ConnectionRecord
  <2>1. <<>> \in Seq(Message)
    BY NoticeFacts
  <2> QED
    BY <2>1, StatesAre DEF NewConnection, ConnectionRecord, StateNames, NoException, Exceptions
<1> HIDE DEF c
<1>3. Queued(c) = {} /\ Unwritten(c) = <<>>
  BY <1>1, ElemsEmpty DEF Queued, Unwritten
<1>4. Queue(c)
  <2>1. 1 .. Len(c.sendStreams) = {}
    BY <1>1
  <2> QED
    BY <1>1, <1>3, <2>1 DEF Queue, Distinct
<1>5. Sound(c)
  BY <1>1, StatesAre DEF Sound, StateNames, NoException
<1>6. Timed(c)
  BY <1>1, StatesAre DEF Timed, StateNames
<1>7. Good(c)
  BY <1>2, <1>4, <1>5 DEF Good
<1> QED
  BY <1>1, <1>3, <1>6, <1>7 DEF c, NoException

\* The invariant holds initially.
LEMMA InitInv == Init => IInv
<1> SUFFICES ASSUME Init PROVE IInv
  OBVIOUS
<1>1. /\ \A s \in Side : conn[s] = NewConnection /\ wire[s] = <<>> /\ running[s] = {} /\ upcalls[s] = {}
      /\ executed = {} /\ \A r \in Requests : outcome[r] = "idle"
  BY DEF Init
<1>2. \A s \in Side : Peer(s) \in Side
  BY PeerFacts
<1>3. ASSUME NEW s \in Side
      PROVE  Stream(s) = <<>> /\ SentRq(s) = {} /\ SentRp(s) = {} /\ ~Shuts(s) /\ Tidy(Stream(s))
  <2>1. Stream(s) = <<>> \o <<>>
    BY <1>1, <1>2, NewIsGood DEF Stream
  <2>2. <<>> \o <<>> = <<>> /\ Tidy(<<>>)
    BY NoticeFacts, ConcatEmptySeq
  <2> QED
    BY <2>1, <2>2, ElemsEmpty DEF SentRq, SentRp, Shuts
<1>4. IType
  <2>1. NewConnection \in ConnectionRecord /\ <<>> \in Seq(Message) /\ "idle" \in Outcomes
    BY NewIsGood, NoticeFacts DEF Good, Outcomes
  <2>2. TypeOK
    BY <2>1 DEF Init, TypeOK
  <2> QED
    BY <1>1, <2>2, FS_EmptySet DEF IType
<1>5. IGood
  BY <1>1, NewIsGood DEF IGood
<1>6. DispatchCountExact
  <2>1. Cardinality({}) = 0
    BY FS_EmptySet
  <2>2. \A s \in Side : conn[s].dispatchCount = 0 /\ running[s] = {} /\ upcalls[s] = {}
    BY <1>1, NewIsGood
  <2>3. \A s \in Side : Cardinality(running[s]) = 0 /\ Cardinality(upcalls[s]) = 0
    BY <2>1, <2>2
  <2> QED
    BY <2>2, <2>3 DEF DispatchCountExact
<1>7. IShut
  BY <1>1, <1>3, NewIsGood DEF IShut
<1>8. ICalls
  <2>1. IExecuted /\ IRunning
    BY <1>1 DEF IExecuted, IRunning
  <2>2. ISentRq /\ ISentRp
    BY <1>3 DEF ISentRq, ISentRp
  <2>3. IQueued /\ IRequests
    BY <1>1, NewIsGood DEF IQueued, IRequests
  <2>4. IAwaited
    BY <1>1, <1>2, <1>3 DEF IAwaited, Awaited
  <2> QED
    BY <2>1, <2>2, <2>3, <2>4 DEF ICalls
<1>9. IUp
  BY <1>1 DEF IUp
<1>10. IForgot /\ IOk
  BY <1>1, ConnectionAssumption DEF IForgot, IOk
<1>11. INow
  <2>1. ILife /\ IPending
    BY <1>1, NewIsGood DEF ILife, IPending
  <2>2. IClose
    BY <1>1, NewIsGood DEF IClose, NoException
  <2>3. IRetry
    BY <1>1 DEF IRetry
  <2> QED
    BY <2>1, <2>2, <2>3 DEF INow
<1> QED
  BY <1>4, <1>5, <1>6, <1>7, <1>8, <1>9, <1>10, <1>11 DEF IInv

\* Every action preserves the invariant, and keeps the promise when the selector reports one
\* operation at a time.
LEMMA NextInv ==
    ASSUME IInv, Next
    PROVE  Preserved
<1>1. PICK s \in Side :
        \/ Start(s) \/ MessageEstablish(s) \/ Activate(s) \/ Hold(s)
        \/ \E r \in Requests :
            \/ SendRequest(s, r) \/ InvocationTimeout(s, r)
            \/ SendResponse(s, r) \/ SendNoResponse(s, r) \/ InvokeException(s, r)
        \/ \E op \in Operations :
            MessageReady(s, op) \/ MessagePartial(s, op) \/ MessageFails(s, op)
        \/ \E u \in upcalls[s] : UpcallReturns(s, u)
        \/ CloseForcefully(s) \/ CloseGracefully(s) \/ Destroy(s) \/ Monitor(s)
        \/ TimerFires(s) \/ TimedOut(s)
        \/ Finish(s)
  BY DEF Next
<1>2. CASE Start(s)
  BY <1>2, StartInv
<1>3. CASE MessageEstablish(s)
  BY <1>3, MessageEstablishInv
<1>4. CASE Activate(s) \/ Hold(s)
  BY <1>4, ActivateInv
<1>5. ASSUME NEW r \in Requests, SendRequest(s, r)
      PROVE  Preserved
  BY <1>5, SendRequestInv
<1>6. ASSUME NEW r \in Requests, InvocationTimeout(s, r)
      PROVE  Preserved
  BY <1>6, ForcefulInv
<1>7. ASSUME NEW r \in Requests, SendResponse(s, r)
      PROVE  Preserved
  BY <1>7, SendResponseInv
<1>8. ASSUME NEW r \in Requests, SendNoResponse(s, r)
      PROVE  Preserved
  BY <1>8, SendNoResponseInv
<1>9. ASSUME NEW r \in Requests, InvokeException(s, r)
      PROVE  Preserved
  BY <1>9, InvokeExceptionInv
<1>10. ASSUME NEW op \in Operations, MessageReady(s, op)
       PROVE  Preserved
  BY <1>10, MessageReadyInv
<1>11. ASSUME NEW op \in Operations, MessagePartial(s, op)
       PROVE  Preserved
  BY <1>11, PartialInv
<1>12. ASSUME NEW op \in Operations, MessageFails(s, op)
       PROVE  Preserved
  BY <1>12, FailsInv
<1>13. ASSUME NEW u \in upcalls[s], UpcallReturns(s, u)
       PROVE  Preserved
  BY <1>13, UpcallReturnsInv
<1>14. CASE CloseForcefully(s)
  BY <1>14, ForcefulInv
<1>15. CASE CloseGracefully(s) \/ Destroy(s) \/ Monitor(s)
  BY <1>15, GracefulInv
<1>16. CASE TimerFires(s) \/ TimedOut(s)
  BY <1>16, TimersInv
<1>17. CASE Finish(s)
  BY <1>17, FinishInv
<1> QED
  BY <1>1, <1>2, <1>3, <1>4, <1>5, <1>6, <1>7, <1>8, <1>9, <1>10, <1>11, <1>12, <1>13, <1>14,
     <1>15, <1>16, <1>17

\* A stuttering step preserves the invariant.
LEMMA StutterInv ==
    ASSUME IInv, UNCHANGED vars
    PROVE  IInv'
<1>1. /\ conn' = conn /\ wire' = wire /\ running' = running /\ upcalls' = upcalls
      /\ executed' = executed /\ outcome' = outcome
  BY DEF vars
<1>2. \A s \in Side : Stream(s)' = Stream(s)
  BY <1>1 DEF Stream
<1>3. \A s \in Side : SentRq(s)' = SentRq(s) /\ SentRp(s)' = SentRp(s) /\ (Shuts(s)' <=> Shuts(s))
  BY <1>2 DEF SentRq, SentRp, Shuts
<1>4. \A s \in Side : Peer(s) \in Side
  BY PeerFacts
<1>5. IType' /\ IGood' /\ DispatchCountExact'
  BY <1>1 DEF IInv, IType, TypeOK, IGood, DispatchCountExact
<1>6. IShut'
  BY <1>1, <1>2, <1>3 DEF IInv, IShut
<1>7. ICalls'
  <2>1. IExecuted' /\ IRunning' /\ IQueued' /\ IRequests'
    BY <1>1 DEF IInv, ICalls, IExecuted, IRunning, IQueued, IRequests
  <2>2. ISentRq' /\ ISentRp'
    BY <1>1, <1>3 DEF IInv, ICalls, ISentRq, ISentRp
  <2>3. IAwaited'
    BY <1>1, <1>3, <1>4 DEF IInv, ICalls, IAwaited, Awaited
  <2> QED
    BY <2>1, <2>2, <2>3 DEF ICalls
<1>8. IUp' /\ IForgot' /\ IOk'
  BY <1>1 DEF IInv, IUp, IForgot, IOk
<1>9. INow => INow'
  <2>1. ILife /\ IPending => ILife' /\ IPending'
    BY <1>1 DEF ILife, IPending
  <2>2. IClose => IClose'
    BY <1>1, <1>2, <1>3, <1>4 DEF IClose
  <2>3. IRetry => IRetry'
    BY <1>1, <1>3 DEF IRetry
  <2> QED
    BY <2>1, <2>2, <2>3 DEF INow
<1> QED
  BY <1>5, <1>6, <1>7, <1>8, <1>9 DEF IInv

\* The inductive invariant of the connection: what each end keeps in its record, what is on
\* the two streams, what is being dispatched and what each caller knows fit together.
THEOREM ConnectionInductive == Spec => []IInv
<1>1. IInv /\ [Next]_vars => IInv'
  BY NextInv, StutterInv DEF Preserved
<1> QED
  BY <1>1, InitInv, PTL DEF Spec

\* A twoway invocation succeeds only when the peer dispatched it, and no reply meets an
\* UnknownRequestIdException (parseMessage()), whatever the selector reports.
THEOREM RepliesFindTheirRequests == Spec => []RepliesMatch
<1>1. IInv => RepliesMatch
  BY DEF IInv, IOk, IGood, Good, Sound, RepliesMatch
<1> QED
  BY <1>1, ConnectionInductive, PTL

\* initiateShutdown() happens once and its message is the last, _dispatchCount is exact, and
\* the reaper gets the connection once, when nothing is left of it.
THEOREM ConnectionEndsExactly == Spec => []EndExact
<1>1. IInv => EndExact
  <2> SUFFICES ASSUME IInv PROVE EndExact
    OBVIOUS
  <2>1. TypeOK /\ DispatchCountExact
    BY DEF IInv, IType
  <2>2. CloseIsLast
    <3> SUFFICES ASSUME NEW s \in Side
                 PROVE  /\ conn[s].shutdowns <= 1
                        /\ \A i \in 1 .. Len(Stream(s)) :
                            Stream(s)[i] = CloseConnection => i = Len(Stream(s))
                        /\ conn[s].shutdowns = 1 => running[s] = {}
      BY DEF CloseIsLast, Stream
    <3>1. conn[s].shutdowns <= 1
      BY GoodRecord DEF Good, Sound
    <3>2. Tidy(Stream(s)) /\ (conn[s].shutdowns = 1 => running[s] = {})
      BY DEF IInv, IShut
    <3> QED
      BY <3>1, <3>2 DEF Tidy
  <2>3. ReapedWhenDone
    BY DEF IInv, IGood, Good, Sound, ReapedWhenDone
  <2> QED
    BY <2>1, <2>2, <2>3 DEF EndExact
<1> QED
  BY <1>1, ConnectionInductive, PTL

\* A pending invocation is in _requests, in _sendStreams or its reply is being delivered:
\* finish() or a reply will complete it.
THEOREM NoInvocationIsForgotten == Spec => []NoneForgotten
<1>1. IInv => NoneForgotten
  <2> SUFFICES ASSUME IInv, NEW r \in Requests, outcome[r] = "pending"
               PROVE  \/ r \in conn[Caller[r]].requests
                      \/ \E i \in 1 .. Len(conn[Caller[r]].sendStreams) :
                            conn[Caller[r]].sendStreams[i] = Request(r)
                      \/ \E u \in upcalls[Caller[r]] : r \in u.reply
    BY DEF NoneForgotten
  <2>1. IF r \in Twoway
        THEN \/ r \in conn[Caller[r]].requests
             \/ \E u \in upcalls[Caller[r]] : r \in u.reply
        ELSE r \in Queued(conn[Caller[r]])
    BY DEF IInv, IForgot
  <2>2. r \in Queued(conn[Caller[r]]) =>
            \E i \in 1 .. Len(conn[Caller[r]].sendStreams) :
                conn[Caller[r]].sendStreams[i] = Request(r)
    BY DEF Queued, Reqs, Elems
  <2> QED
    BY <2>1, <2>2
<1> QED
  BY <1>1, ConnectionInductive, PTL

\* When the selector reports one operation at a time, a connection with something to write,
\* or that waits for its peer to close, has a write timeout pending or about to be handled.
THEOREM WritesHaveTimeouts == ~CombinedEvents => (Spec => []WritesAreTimed)
<1> SUFFICES ASSUME ~CombinedEvents PROVE Spec => []WritesAreTimed
  OBVIOUS
<1>1. IInv => WritesAreTimed
  BY DEF IInv, INow, ILife, Timed, WritesAreTimed
<1> QED
  BY <1>1, ConnectionInductive, PTL

\* When the selector reports one operation at a time, an invocation whose caller may retry
\* it was not dispatched.  (With epoll's combined events it may have been.)
THEOREM RetriesAreSafe == ~CombinedEvents => (Spec => []AtMostOnce)
<1> SUFFICES ASSUME ~CombinedEvents PROVE Spec => []AtMostOnce
  OBVIOUS
<1>1. IInv => AtMostOnce
  BY DEF IInv, INow, IRetry, AtMostOnce
<1> QED
  BY <1>1, ConnectionInductive, PTL

\* When the selector reports one operation at a time, the connection implements the promise
\* of Invocation: outcomes are final, nothing that may be retried was or will be dispatched.
THEOREM ConnectionKeepsPromise == ~CombinedEvents => (Spec => KeepsPromise)
<1> SUFFICES ASSUME ~CombinedEvents PROVE Spec => KeepsPromise
  OBVIOUS
<1>1. Init => Promise!Init
  BY DEF Init, Promise!Init
<1>2. IInv /\ [Next]_vars => [Promise!Next]_(Promise!vars)
  <2> SUFFICES ASSUME IInv, [Next]_vars PROVE [Promise!Next]_(Promise!vars)
    OBVIOUS
  <2>1. CASE Next
    <3>1. IInv' /\ Promised
      BY <2>1, NextInv DEF Preserved
    <3>2. executed' \subseteq Requests /\ outcome' \in [Requests -> Outcomes]
      BY <3>1 DEF IInv, IType, TypeOK
    <3> QED
      BY <3>1, <3>2 DEF Promised, Promise!Next, Outcomes
  <2>2. CASE UNCHANGED vars
    BY <2>2 DEF vars, Promise!vars
  <2> QED
    BY <2>1, <2>2
<1> QED
  BY <1>1, <1>2, ConnectionInductive, PTL DEF Spec, KeepsPromise, Promise!Spec

-----------------------------------------------------------------------------
(* What the abstract specification of invocations promises.  A connection  *)
(* that implements it inherits it.                                         *)

\* An invocation whose caller may retry it was not dispatched, and will not be: at
\* most once.
THEOREM InvocationAtMostOnce == Promise!Spec => []Promise!AtMostOnce
<1>1. Promise!Init => Promise!AtMostOnce
  BY DEF Promise!Init, Promise!AtMostOnce
<1>2. Promise!AtMostOnce /\ [Promise!Next]_(Promise!vars) => Promise!AtMostOnce'
  <2> SUFFICES ASSUME Promise!AtMostOnce, [Promise!Next]_(Promise!vars),
                      NEW r \in Requests, outcome'[r] = "retry"
               PROVE  r \notin executed'
    BY DEF Promise!AtMostOnce
  <2>1. CASE Promise!Next
    <3>1. r \notin executed
      BY <2>1 DEF Promise!Next, Promise!MayBecome, Promise!AtMostOnce
    <3>2. r \notin executed' \ executed
      BY <2>1 DEF Promise!Next
    <3> QED
      BY <3>1, <3>2
  <2>2. CASE UNCHANGED Promise!vars
    BY <2>2 DEF Promise!vars, Promise!AtMostOnce
  <2> QED
    BY <2>1, <2>2
<1> QED
  BY <1>1, <1>2, PTL DEF Promise!Spec

\* What a caller was told is final, and a dispatch is not undone.
THEOREM InvocationFinal == Promise!Spec => Promise!Final
<1>1. [Promise!Next]_(Promise!vars) =>
        [/\ executed \subseteq executed'
         /\ \A r \in Requests :
              outcome[r] \in {"ok", "retry", "failed"} => outcome'[r] = outcome[r]]_(Promise!vars)
  BY DEF Promise!Next, Promise!MayBecome, Promise!vars
<1> QED
  BY <1>1, PTL DEF Promise!Spec, Promise!Final

\* The connection inherits it, when the selector reports one operation at a time: what
\* sendRequest(), finish() and message() told a caller is final.
THEOREM OutcomesAreFinal == ~CombinedEvents => (Spec => Promise!Final)
<1> SUFFICES ASSUME ~CombinedEvents PROVE Spec => Promise!Final
  OBVIOUS
<1>1. Spec => Promise!Spec
  BY ConnectionKeepsPromise DEF KeepsPromise
<1> QED
  BY <1>1, InvocationFinal
=============================================================================
