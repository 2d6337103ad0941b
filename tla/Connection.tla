----------------------------- MODULE Connection -----------------------------
(***************************************************************************)
(* Ice::ConnectionI (cpp/src/Ice/ConnectionI.cpp): the two ends of one     *)
(* stream connection.  Each end validates the connection, sends requests   *)
(* and replies, dispatches what it reads and shuts down gracefully or      *)
(* forcefully.  An action is one critical section of the connection's      *)
(* monitor; user code (a dispatch, an AMI callback) runs between two.      *)
(*                                                                         *)
(* A handler is an operator on the record of one end: it takes the record  *)
(* to the one the handler leaves behind.  The record's out field collects  *)
(* the messages that the step hands to the socket and acked the messages   *)
(* it reports as sent; Commit empties both.  The byte stream is a FIFO     *)
(* queue of whole messages; a write is accepted whole, blocks, or fails.   *)
(*                                                                         *)
(* Request ids are the requests themselves (see RequestId for their        *)
(* allocation), batch requests are in ConnectionBatch, and the code under  *)
(* ICE_USE_IOCP is not modelled.                                           *)
(***************************************************************************)
EXTENDS Naturals, FiniteSets, Sequences

CONSTANTS
    Requests,        \* the invocations, each made at most once on this connection
    Caller,          \* Requests -> Side: who makes it
    Twoway,          \* the requests that expect a reply
    Async,           \* the AMI requests: their reply is a callback without the lock
    SentCallback,    \* the AMI requests with a sent callback
    Timeouts,        \* do the endpoints have a timeout?
    CombinedEvents   \* may the selector report read and write at once (epoll)?

Side == {"client", "server"}
Peer(s) == IF s = "client" THEN "server" ELSE "client"

ASSUME ConnectionAssumption ==
    /\ Caller \in [Requests -> Side]
    /\ Twoway \subseteq Requests
    /\ SentCallback \subseteq Async
    /\ Async \subseteq Requests
    /\ Timeouts \in BOOLEAN
    /\ CombinedEvents \in BOOLEAN

\* ConnectionI::State, in the order the code compares them.
StateNotInitialized == 0
StateNotValidated   == 1
StateActive         == 2
StateHolding        == 3
StateClosing        == 4
StateClosed         == 5
StateFinished       == 6

\* The exceptions of _exception that the code and its callers tell apart:
\* "close" is CloseConnectionException, "other" any other local exception.
NoException == "none"
Exceptions == {NoException, "close", "unknownId", "other"}

\* The messages of the protocol.
Request(r)         == [type |-> "request", req |-> r]
Reply(r)           == [type |-> "reply", req |-> r]
CloseConnection    == [type |-> "close"]
ValidateConnection == [type |-> "validate"]

Message ==
    {Request(r) : r \in Requests} \cup {Reply(r) : r \in Requests}
    \cup {CloseConnection, ValidateConnection}

VARIABLES
    conn,       \* conn[s]: the ConnectionI of side s
    wire,       \* wire[s]: the messages on their way to side s
    running,    \* running[s]: the requests that s is dispatching
    upcalls,    \* upcalls[s]: dispatch() calls with sent or reply callbacks
    executed,   \* the requests that were dispatched
    outcome     \* outcome[r]: what became of the invocation

vars == <<conn, wire, running, upcalls, executed, outcome>>

Outcomes == {"idle", "pending", "ok", "retry", "failed"}

\* What each end keeps.  started tells whether start() was called and
\* startCallback whether _startCallback is set; reg is what the connection is
\* registered for with its thread pool; written says that the head of
\* _sendStreams is in the socket but not yet reported as sent; partial that
\* part of a message was read; firing that a timer task has left the timer
\* and is about to call timedOut(); doubleTimer that the assertion of
\* scheduleTimeout() failed.
NewConnection ==
    [state         |-> StateNotInitialized,
     exception     |-> NoException,
     started       |-> FALSE,
     startCallback |-> FALSE,
     reg           |-> {},
     requests      |-> {},
     sendStreams   |-> <<>>,
     written       |-> FALSE,
     partial       |-> FALSE,
     dispatchCount |-> 0,
     shutdowns     |-> 0,
     readTimer     |-> FALSE,
     writeTimer    |-> FALSE,
     firing        |-> FALSE,
     doubleTimer   |-> FALSE,
     finishQueued  |-> FALSE,
     reaped        |-> 0,
     out           |-> <<>>,
     acked         |-> {}]

ConnectionRecord ==
    [state         : StateNotInitialized .. StateFinished,
     exception     : Exceptions,
     started       : BOOLEAN,
     startCallback : BOOLEAN,
     reg           : SUBSET {"read", "write"},
     requests      : SUBSET Requests,
     sendStreams   : Seq(Message),
     written       : BOOLEAN,
     partial       : BOOLEAN,
     dispatchCount : Nat,
     shutdowns     : Nat,
     readTimer     : BOOLEAN,
     writeTimer    : BOOLEAN,
     firing        : BOOLEAN,
     doubleTimer   : BOOLEAN,
     finishQueued  : BOOLEAN,
     reaped        : Nat,
     out           : Seq(Message),
     acked         : SUBSET Requests]

\* A dispatch() call with callbacks: the requests whose sent callback it calls,
\* and the AMI request whose reply it delivers.
Upcall == [sent : SUBSET Requests, reply : SUBSET Requests]

Init ==
    /\ conn = [s \in Side |-> NewConnection]
    /\ wire = [s \in Side |-> <<>>]
    /\ running = [s \in Side |-> {}]
    /\ upcalls = [s \in Side |-> {}]
    /\ executed = {}
    /\ outcome = [r \in Requests |-> "idle"]

-----------------------------------------------------------------------------
(* Timers and thread pool registration.                                    *)

\* scheduleTimeout for a write: the timer refuses a task it already holds,
\* and the connection asserts that this does not happen.
ScheduleWriteTimeout(c) ==
    IF ~Timeouts THEN c
    ELSE [c EXCEPT !.writeTimer = TRUE, !.doubleTimer = @ \/ c.writeTimer]

ScheduleReadTimeout(c) ==
    IF ~Timeouts THEN c
    ELSE [c EXCEPT !.readTimer = TRUE, !.doubleTimer = @ \/ c.readTimer]

\* Mutant of UnscheduleTimeout: both timeouts are cancelled.
UnscheduleBoth(c, op) == [c EXCEPT !.readTimer = FALSE, !.writeTimer = FALSE]

UnscheduleTimeout(c, op) ==
    [c EXCEPT !.readTimer = @ /\ "read" \notin op,
              !.writeTimer = @ /\ "write" \notin op]

-----------------------------------------------------------------------------
(* State changes.                                                          *)

\* setState(StateClosed, ex): the first exception is kept, and the thread pool
\* will call finished().
SetClosed(c, ex) ==
    IF c.state >= StateClosed THEN c
    ELSE [c EXCEPT !.state = StateClosed,
                   !.exception = IF @ = NoException THEN ex ELSE @,
                   !.reg = {},
                   !.finishQueued = TRUE]

\* The messages of m that are requests; they are the ones with a callback.
RequestOf(m) == IF m.type = "request" THEN {m.req} ELSE {}

\* Mutant of SendMessage: a message behind others is dropped.
SendMessageDrops(c, m, w) ==
    IF c.sendStreams # <<>> THEN c
    ELSE IF w = "sent"
         THEN [c EXCEPT !.out = Append(@, m), !.acked = @ \cup RequestOf(m)]
         ELSE ScheduleWriteTimeout([c EXCEPT !.sendStreams = <<m>>,
                                             !.reg = @ \cup {"write"}])

\* Mutant of SendMessage: a message that blocks is sent again from its start.
SendMessageRestarts(c, m, w) ==
    IF c.sendStreams # <<>>
    THEN [c EXCEPT !.sendStreams = Append(@, m)]
    ELSE IF w = "sent"
         THEN [c EXCEPT !.out = Append(@, m), !.acked = @ \cup RequestOf(m)]
         ELSE ScheduleWriteTimeout([c EXCEPT !.sendStreams = <<m>>,
                                             !.out = Append(@, m),
                                             !.reg = @ \cup {"write"}])

\* Mutant of SendMessage: no timeout for a message that blocks.
SendMessageUntimed(c, m, w) ==
    IF c.sendStreams # <<>>
    THEN [c EXCEPT !.sendStreams = Append(@, m)]
    ELSE IF w = "sent"
         THEN [c EXCEPT !.out = Append(@, m), !.acked = @ \cup RequestOf(m)]
         ELSE [c EXCEPT !.sendStreams = <<m>>, !.reg = @ \cup {"write"}]

\* sendMessage(): w is what the socket does with the message when it can be
\* written at once.  The caller handles an exception of the socket ("fail").
SendMessage(c, m, w) ==
    IF c.sendStreams # <<>>
    THEN [c EXCEPT !.sendStreams = Append(@, m)]
    ELSE IF w = "sent"
         THEN [c EXCEPT !.out = Append(@, m), !.acked = @ \cup RequestOf(m)]
         ELSE ScheduleWriteTimeout([c EXCEPT !.sendStreams = <<m>>,
                                             !.reg = @ \cup {"write"}])

\* Does sendMessage() throw when the socket does w?
SendFails(c, w) == c.sendStreams = <<>> /\ w = "fail"

\* initiateShutdown(), with the setState(StateClosed) of its callers when the
\* close connection message cannot be sent.
InitiateShutdown(c, w) ==
    LET d == [c EXCEPT !.shutdowns = @ + 1]
        e == SendMessage(d, CloseConnection, w)
    IN  IF SendFails(c, w) THEN SetClosed(d, "other")
        ELSE IF e.out # c.out THEN ScheduleWriteTimeout(e)
        ELSE e

\* setState(StateClosing, ex): not before validation, and never back from
\* closed.  A holding connection goes on reading.
SetClosing(c, ex, w) ==
    IF c.state <= StateNotValidated THEN SetClosed(c, ex)
    ELSE IF c.state >= StateClosing THEN c
    ELSE LET d == [c EXCEPT !.state = StateClosing,
                            !.exception = ex,
                            !.reg = @ \cup {"read"}]
         IN  IF d.dispatchCount = 0 THEN InitiateShutdown(d, w) ELSE d

\* setState(StateActive) and setState(StateHolding).
SetActive(c) ==
    IF c.state # StateHolding THEN c
    ELSE [c EXCEPT !.state = StateActive, !.reg = @ \cup {"read"}]

SetHolding(c) ==
    IF c.state \notin {StateActive, StateNotValidated} THEN c
    ELSE [c EXCEPT !.state = StateHolding, !.reg = @ \ {"read"}]

\* --_dispatchCount, and the reaper when this was the last upcall of a finished
\* connection.
DispatchDone(c) ==
    LET d == [c EXCEPT !.dispatchCount = @ - 1]
    IN  IF d.dispatchCount = 0 /\ d.state = StateFinished
        THEN [d EXCEPT !.reaped = @ + 1] ELSE d

-----------------------------------------------------------------------------
(* The effects of a step of side s that leaves the connection c.           *)

\* outcome of the requests reported as sent: a oneway request is done.
Acked(c, o) ==
    [r \in Requests |-> IF r \in c.acked \ Twoway THEN "ok" ELSE o[r]]

Settled(c) == [c EXCEPT !.out = <<>>, !.acked = {}]

\* Side s takes n messages from its wire and leaves the connection c.
Commit(s, c, n) ==
    /\ conn' = [conn EXCEPT ![s] = Settled(c)]
    /\ wire' = [wire EXCEPT ![Peer(s)] = @ \o c.out,
                            ![s] = SubSeq(@, n + 1, Len(@))]

\* The ways a non-blocking write can end.
Writes == {"sent", "block", "fail"}

-----------------------------------------------------------------------------
(* Establishment: start(), then message() while the connection is not      *)
(* validated.  The server writes the validation message, the client reads  *)
(* it.                                                                     *)

\* initialize() and validate(), as far as the socket lets them get: the
\* connection waits to be connected ("connect") or validated ("validate"),
\* is established, or fails.
Establish(s, c, how) ==
    CASE how = "connect" -> ScheduleWriteTimeout([c EXCEPT !.reg = {"write"}])
      [] how = "validate" /\ s = "server" ->
            ScheduleWriteTimeout([c EXCEPT !.state = StateNotValidated,
                                           !.reg = {"write"}])
      [] how = "validate" /\ s = "client" ->
            ScheduleReadTimeout([c EXCEPT !.state = StateNotValidated,
                                          !.reg = {"read"}])
      [] how = "done" ->
            [c EXCEPT !.state = StateHolding,
                      !.reg = {},
                      !.out = IF s = "server" THEN <<ValidateConnection>> ELSE @]
      [] how = "fail" -> SetClosed(c, "other")

\* How far the establishment can get from where it is.
Reachable(s, how) ==
    /\ how = "connect" => conn[s].state = StateNotInitialized
    /\ how = "done" /\ s = "client" =>
        /\ wire[s] # <<>>
        /\ Head(wire[s]) = ValidateConnection

Consumed(s, how) == IF how = "done" /\ s = "client" THEN 1 ELSE 0

Steps == {"connect", "validate", "done", "fail"}

Start(s) ==
    /\ ~conn[s].started
    /\ \/ /\ conn[s].state >= StateClosed       \* connectionStartFailed()
          /\ Commit(s, [conn[s] EXCEPT !.started = TRUE], 0)
       \/ /\ conn[s].state < StateClosed
          /\ \E how \in Steps :
                /\ Reachable(s, how)
                /\ LET c == [conn[s] EXCEPT !.started = TRUE,
                                 !.startCallback = how \in {"connect", "validate"}]
                   IN Commit(s, Establish(s, c, how), Consumed(s, how))
    /\ UNCHANGED <<running, upcalls, executed, outcome>>

\* message() when _state <= StateNotValidated.
MessageEstablish(s) ==
    /\ conn[s].started
    /\ conn[s].state <= StateNotValidated
    /\ \E how \in Steps :
        /\ Reachable(s, how)
        /\ LET c == [UnscheduleTimeout(conn[s], conn[s].reg)
                        EXCEPT !.startCallback = @ /\ how # "done"]
           IN Commit(s, Establish(s, c, how), Consumed(s, how))
    /\ UNCHANGED <<running, upcalls, executed, outcome>>

Activate(s) ==
    /\ conn[s].state = StateHolding
    /\ Commit(s, SetActive(conn[s]), 0)
    /\ UNCHANGED <<running, upcalls, executed, outcome>>

Hold(s) ==
    /\ conn[s].state = StateActive
    /\ Commit(s, SetHolding(conn[s]), 0)
    /\ UNCHANGED <<running, upcalls, executed, outcome>>

-----------------------------------------------------------------------------
(* Invocations.                                                            *)

\* sendRequest() and sendAsyncRequest().  On a connection that has an exception,
\* and when the socket fails, the caller is told that it may retry.
SendRequest(s, r) ==
    LET c == conn[s] IN
    /\ Caller[r] = s
    /\ outcome[r] = "idle"
    /\ UNCHANGED <<running, upcalls, executed>>
    /\ \/ /\ c.exception # NoException
          /\ outcome' = [outcome EXCEPT ![r] = "retry"]
          /\ UNCHANGED <<conn, wire>>
       \/ /\ c.exception = NoException
          /\ c.state > StateNotValidated
          /\ \E w \in Writes :
                IF SendFails(c, w)
                THEN /\ Commit(s, SetClosed(c, "other"), 0)
                     /\ outcome' = [outcome EXCEPT ![r] = "retry"]
                ELSE LET d == SendMessage(c, Request(r), w)
                         e == [d EXCEPT !.requests = IF r \in Twoway THEN @ \cup {r} ELSE @]
                     IN /\ Commit(s, e, 0)
                        /\ outcome' = Acked(e, [outcome EXCEPT ![r] = "pending"])

\* Outgoing::invoke and OutgoingAsync::runTimerTask: a request that was sent
\* gets no reply in time and closes the connection with a TimeoutException.
InvocationTimeout(s, r) ==
    /\ Timeouts
    /\ r \in conn[s].requests
    /\ \A i \in 1 .. Len(conn[s].sendStreams) : conn[s].sendStreams[i] # Request(r)
    /\ conn[s].state < StateClosed
    /\ Commit(s, SetClosed(conn[s], "other"), 0)
    /\ UNCHANGED <<running, upcalls, executed, outcome>>

-----------------------------------------------------------------------------
(* message() on an established connection.                                 *)

\* parseMessage(): requests are ignored while closing, the reply of an AMI
\* request is left to dispatch().
ParseMessage(c, m) ==
    CASE m.type = "close" -> SetClosed(c, "close")
      [] m.type = "request" ->
            IF c.state = StateClosing THEN c
            ELSE [c EXCEPT !.dispatchCount = @ + 1]
      [] m.type = "reply" ->
            IF m.req \in c.requests
            THEN [c EXCEPT !.requests = @ \ {m.req}]
            ELSE SetClosed(c, "unknownId")
      [] m.type = "validate" -> c

\* Mutant of Dispatched: requests are dispatched while closing.
DispatchedAlways(c, m) == IF m.type = "request" THEN {m.req} ELSE {}

\* The request that parsing m dispatches, and the AMI request it completes.
Dispatched(c, m) ==
    IF m.type = "request" /\ c.state # StateClosing THEN {m.req} ELSE {}
Replied(c, m) ==
    IF m.type = "reply" THEN {m.req} \cap c.requests ELSE {}

\* The head of _sendStreams, in _writeStream, is now in the socket.
WriteHead(c) ==
    IF c.written THEN c
    ELSE [c EXCEPT !.out = Append(@, Head(c.sendStreams)), !.written = TRUE]

\* sendNextMessage(): the written head is reported as sent, then the socket
\* takes n more messages before it blocks, or fails if there are more.
SendNextMessage(c, n, fails) ==
    LET sent(k) == UNION {RequestOf(c.sendStreams[i]) : i \in 1 .. k}
        pop(k)  == [c EXCEPT !.sendStreams = SubSeq(@, k + 1, Len(@)),
                             !.written = FALSE,
                             !.out = @ \o SubSeq(c.sendStreams, 2, k),
                             !.acked = @ \cup sent(k)]
        d == pop(n + 1)
    IN  IF c.state >= StateClosed THEN pop(1)
        ELSE IF d.sendStreams # <<>>
             THEN IF fails THEN SetClosed(d, "other") ELSE ScheduleWriteTimeout(d)
        ELSE LET e == [d EXCEPT !.reg = @ \ {"write"}]
             IN  IF e.state = StateClosing THEN ScheduleWriteTimeout(e) ELSE e

\* What the selector may report for c: all of it with epoll, one operation at a
\* time otherwise.
Ready(c, op) ==
    /\ c.state \in {StateActive, StateHolding, StateClosing}
    /\ op \in SUBSET c.reg \ {{}}
    /\ CombinedEvents \/ Cardinality(op) = 1

\* message() reads a whole message, or writes one, or both.
MessageReady(s, op) ==
    LET c0 == UnscheduleTimeout(conn[s], op)
        c1 == IF "write" \in op THEN WriteHead(c0) ELSE c0
        reads == "read" \in op
        m  == Head(wire[s])
        c2 == IF reads THEN ParseMessage([c1 EXCEPT !.partial = FALSE], m) ELSE c1
        replied == IF reads THEN Replied(c1, m) ELSE {}
        started == IF reads THEN Dispatched(c1, m) ELSE {}
    IN
    /\ Ready(conn[s], op)
    /\ reads => wire[s] # <<>>
    /\ \E n \in 0 .. (IF "write" \in op THEN Len(c2.sendStreams) - 1 ELSE 0) :
       \E fails \in BOOLEAN :
        LET c3 == IF "write" \in op THEN SendNextMessage(c2, n, fails) ELSE c2
            up == [sent  |-> c3.acked \cap SentCallback,
                   reply |-> replied \cap Async]
            calls == IF up.sent \cup up.reply = {} THEN {} ELSE {up}
        IN  /\ Commit(s, [c3 EXCEPT !.dispatchCount = @ + Cardinality(calls)],
                      IF reads THEN 1 ELSE 0)
            /\ upcalls' = [upcalls EXCEPT ![s] = @ \cup calls]
            /\ running' = [running EXCEPT ![s] = @ \cup started]
            /\ executed' = executed \cup started
            /\ outcome' = Acked(c3, [r \in Requests |->
                              IF r \in replied \ Async THEN "ok" ELSE outcome[r]])

\* message() reads a part of a message and waits for the rest, of the header
\* without and of the body with a timeout; what it wrote before is not reported.
MessagePartial(s, op) ==
    LET c0 == UnscheduleTimeout(conn[s], op)
        c1 == IF "write" \in op THEN WriteHead(c0) ELSE c0
    IN
    /\ Ready(conn[s], op)
    /\ "read" \in op
    /\ wire[s] # <<>>
    /\ \/ ~c1.partial /\ Commit(s, c1, 0)
       \/ Commit(s, ScheduleReadTimeout([c1 EXCEPT !.partial = TRUE]), 0)
    /\ UNCHANGED <<running, upcalls, executed, outcome>>

\* The socket fails in message(): the write fails, or the read does after the
\* write was done.
MessageFails(s, op) ==
    LET c0 == UnscheduleTimeout(conn[s], op) IN
    /\ Ready(conn[s], op)
    /\ \/ Commit(s, SetClosed(c0, "other"), 0)
       \/ /\ op = {"read", "write"}
          /\ Commit(s, SetClosed(WriteHead(c0), "other"), 0)
    /\ UNCHANGED <<running, upcalls, executed, outcome>>

\* The end of dispatch(): the callbacks returned.
UpcallReturns(s, u) ==
    LET c == DispatchDone(conn[s]) IN
    /\ u \in upcalls[s]
    /\ upcalls' = [upcalls EXCEPT ![s] = @ \ {u}]
    /\ outcome' = [r \in Requests |-> IF r \in u.reply THEN "ok" ELSE outcome[r]]
    /\ \E w \in Writes :
        Commit(s, IF /\ c.dispatchCount = 0
                     /\ c.state = StateClosing
                     /\ c.shutdowns = 0
                  THEN InitiateShutdown(c, w) ELSE c, 0)
    /\ UNCHANGED <<running, executed>>

-----------------------------------------------------------------------------
(* The end of a dispatch.                                                  *)

\* Mutant of ShutdownIfIdle: the shutdown does not wait for other dispatches.
ShutdownIfClosing(c, w) ==
    IF c.state = StateClosing THEN InitiateShutdown(c, w) ELSE c

\* initiateShutdown() after the last reply of a closing connection.
ShutdownIfIdle(c, w) ==
    IF c.state = StateClosing /\ c.dispatchCount = 0 THEN InitiateShutdown(c, w) ELSE c

SendResponse(s, r) ==
    LET c == DispatchDone(conn[s]) IN
    /\ r \in running[s] \cap Twoway
    /\ running' = [running EXCEPT ![s] = @ \ {r}]
    /\ UNCHANGED <<upcalls, executed, outcome>>
    /\ \/ /\ c.state >= StateClosed
          /\ Commit(s, c, 0)
       \/ /\ c.state < StateClosed
          /\ \E w1, w2 \in Writes :
                Commit(s, IF SendFails(c, w1) THEN SetClosed(c, "other")
                          ELSE ShutdownIfIdle(SendMessage(c, Reply(r), w1), w2), 0)

SendNoResponse(s, r) ==
    LET c == DispatchDone(conn[s]) IN
    /\ r \in running[s] \ Twoway
    /\ running' = [running EXCEPT ![s] = @ \ {r}]
    /\ \E w \in Writes : Commit(s, ShutdownIfIdle(c, w), 0)
    /\ UNCHANGED <<upcalls, executed, outcome>>

\* invokeException(): a dispatch ends with a fatal exception.
InvokeException(s, r) ==
    /\ r \in running[s]
    /\ running' = [running EXCEPT ![s] = @ \ {r}]
    /\ Commit(s, DispatchDone(SetClosed(conn[s], "other")), 0)
    /\ UNCHANGED <<upcalls, executed, outcome>>

-----------------------------------------------------------------------------
(* Closure.                                                                *)

\* close(true).
CloseForcefully(s) ==
    /\ conn[s].state < StateClosed
    /\ Commit(s, SetClosed(conn[s], "other"), 0)
    /\ UNCHANGED <<running, upcalls, executed, outcome>>

\* close(false) waits until no request is outstanding.
CloseGracefully(s) ==
    /\ conn[s].state < StateClosing
    /\ conn[s].requests = {}
    /\ \E w \in Writes : Commit(s, SetClosing(conn[s], "close", w), 0)
    /\ UNCHANGED <<running, upcalls, executed, outcome>>

\* destroy(): the object adapter is deactivated or the communicator destroyed.
Destroy(s) ==
    /\ conn[s].state < StateClosing
    /\ \E w \in Writes : Commit(s, SetClosing(conn[s], "other", w), 0)
    /\ UNCHANGED <<running, upcalls, executed, outcome>>

\* monitor(): active connection management closes an idle connection.
Monitor(s) ==
    LET c == conn[s] IN
    /\ c.state = StateActive
    /\ c.requests = {} /\ c.dispatchCount = 0
    /\ c.sendStreams = <<>> /\ ~c.partial
    /\ \E w \in Writes : Commit(s, SetClosing(c, "other", w), 0)
    /\ UNCHANGED <<running, upcalls, executed, outcome>>

\* The timer takes a timeout task out of its queue, and calls timedOut() when it
\* gets the lock.
TimerFires(s) ==
    /\ ~conn[s].firing
    /\ \/ /\ conn[s].readTimer
          /\ Commit(s, [conn[s] EXCEPT !.firing = TRUE, !.readTimer = FALSE], 0)
       \/ /\ conn[s].writeTimer
          /\ Commit(s, [conn[s] EXCEPT !.firing = TRUE, !.writeTimer = FALSE], 0)
    /\ UNCHANGED <<running, upcalls, executed, outcome>>

TimedOut(s) ==
    /\ conn[s].firing
    /\ Commit(s, SetClosed([conn[s] EXCEPT !.firing = FALSE], "other"), 0)
    /\ UNCHANGED <<running, upcalls, executed, outcome>>

\* finished() and finish(), called by the thread pool: the queued messages were
\* not sent and their invocations can be retried; the others only if the peer
\* said that it closed the connection.
Finish(s) ==
    LET c == conn[s]
        unsent == UNION {RequestOf(c.sendStreams[i]) : i \in 1 .. Len(c.sendStreams)}
        d == [UnscheduleTimeout(c, {"read", "write"})
                EXCEPT !.state = StateFinished,
                       !.finishQueued = FALSE,
                       !.startCallback = FALSE,
                       !.sendStreams = <<>>,
                       !.written = FALSE,
                       !.requests = {},
                       !.reaped = IF c.dispatchCount = 0 THEN @ + 1 ELSE @]
    IN
    /\ c.finishQueued
    /\ Commit(s, d, 0)
    /\ outcome' = [r \in Requests |->
                     IF r \in unsent THEN "retry"
                     ELSE IF r \in c.requests
                          THEN IF c.exception = "close" THEN "retry" ELSE "failed"
                     ELSE outcome[r]]
    /\ UNCHANGED <<running, upcalls, executed>>

-----------------------------------------------------------------------------

Operations == {{"read"}, {"write"}, {"read", "write"}}

Next ==
    \E s \in Side :
        \/ Start(s) \/ MessageEstablish(s) \/ Activate(s) \/ Hold(s)
        \/ \E r \in Requests :
            \/ SendRequest(s, r) \/ InvocationTimeout(s, r)
            \/ SendResponse(s, r) \/ SendNoResponse(s, r) \/ InvokeException(s, r)
        \/ \E op \in Operations :
            MessageReady(s, op) \/ MessagePartial(s, op) \/ MessageFails(s, op)
        \/ \E u \in upcalls[s] : UpcallReturns(s, u)
        \/ CloseForcefully(s) \/ CloseGracefully(s) \/ Destroy(s) \/ Monitor(s)
        \/ TimerFires(s) \/ TimedOut(s)
        \/ Finish(s)

\* The thread pool runs what is ready and queued, dispatches and callbacks
\* return, and armed timers fire.  Nothing obliges the peer to read.
Fairness ==
    \A s \in Side :
        /\ WF_vars(Finish(s))
        /\ WF_vars(TimerFires(s)) /\ WF_vars(TimedOut(s))
        /\ \A r \in Requests :
            /\ WF_vars(SendResponse(s, r)) /\ WF_vars(SendNoResponse(s, r))
            /\ WF_vars(InvocationTimeout(s, r))
        /\ WF_vars(\E u \in upcalls[s] : UpcallReturns(s, u))

Spec == Init /\ [][Next]_vars
FairSpec == Spec /\ Fairness

-----------------------------------------------------------------------------

TypeOK ==
    /\ conn \in [Side -> ConnectionRecord]
    /\ wire \in [Side -> Seq(Message)]
    /\ running \in [Side -> SUBSET Requests]
    /\ upcalls \in [Side -> SUBSET Upcall]
    /\ executed \subseteq Requests
    /\ outcome \in [Requests -> Outcomes]

\* The connection implements the promise of Invocation: outcomes are final, a
\* twoway succeeds only after its dispatch, and what may be retried was not and
\* will not be dispatched.
Promise == INSTANCE Invocation WITH
               Requests <- Requests, Twoway <- Twoway,
               executed <- executed, outcome <- outcome
KeepsPromise == Promise!Spec

\* At most once: an invocation that ends with an exception its caller may retry
\* was not, and will not be, dispatched by the peer on this connection.
AtMostOnce == \A r \in Requests : outcome[r] = "retry" => r \notin executed

\* A twoway invocation succeeds only when the peer dispatched it, and every reply
\* finds the request it answers: two ends that follow the protocol never close
\* the connection with an UnknownRequestIdException.
RepliesMatch ==
    /\ \A r \in Twoway : outcome[r] = "ok" => r \in executed
    /\ \A s \in Side : conn[s].exception # "unknownId"

\* The messages of c that are not in the socket yet.
Unwritten(c) == IF c.written THEN Tail(c.sendStreams) ELSE c.sendStreams

\* initiateShutdown() is called at most once (its third assertion), and only
\* when nothing is being dispatched: the close connection message is the last
\* message of the side that sends it, after all of its replies.
CloseIsLast ==
    \A s \in Side :
        LET sent == wire[Peer(s)] \o Unwritten(conn[s]) IN
        /\ conn[s].shutdowns <= 1
        /\ \A i \in 1 .. Len(sent) : sent[i] = CloseConnection => i = Len(sent)
        /\ conn[s].shutdowns = 1 => running[s] = {}

\* _dispatchCount is the number of dispatches and callbacks in progress, which is
\* what waitUntilFinished() and isFinished() rely on.
DispatchCountExact ==
    \A s \in Side :
        conn[s].dispatchCount = Cardinality(running[s]) + Cardinality(upcalls[s])

\* The reaper gets a connection once, and only when the assertions of
\* ~ConnectionI hold of it.
ReapedWhenDone ==
    \A s \in Side : LET c == conn[s] IN
        /\ c.reaped <= 1
        /\ c.reaped = 1 <=> c.state = StateFinished /\ c.dispatchCount = 0
        /\ c.state = StateFinished =>
            /\ c.sendStreams = <<>> /\ c.requests = {} /\ ~c.startCallback

\* The end of a connection: the close connection message is the last one and
\* follows all replies, the count of dispatches that waitUntilFinished() relies
\* on is exact, and the reaper gets the connection once, when nothing is left of
\* it.
EndExact == TypeOK /\ CloseIsLast /\ DispatchCountExact /\ ReapedWhenDone

\* No invocation is forgotten: an unfinished one is in _requests or
\* _sendStreams of its caller, or its reply is being handled.
NoneForgotten ==
    \A r \in Requests : outcome[r] = "pending" =>
        LET c == conn[Caller[r]] IN
        \/ r \in c.requests
        \/ \E i \in 1 .. Len(c.sendStreams) : c.sendStreams[i] = Request(r)
        \/ \E u \in upcalls[Caller[r]] : r \in u.reply

\* A connection with something to write, or that waits for its peer to close,
\* has a timeout pending, so that neither can last forever.
WritesAreTimed ==
    Timeouts => \A s \in Side : LET c == conn[s] IN
        c.state \in StateActive .. StateClosing
        /\ (c.sendStreams # <<>> \/ c.shutdowns = 1)
            => c.writeTimer \/ c.firing

\* scheduleTimeout() never schedules a timeout task that is already scheduled
\* (its assertion).
TimeoutsScheduledOnce == \A s \in Side : ~conn[s].doubleTimer

\* Every invocation that was sent completes.
CallsComplete == \A r \in Requests : (outcome[r] = "pending") ~> (outcome[r] # "pending")

\* A connection that starts to close is eventually finished and reaped.
ClosingFinishes ==
    \A s \in Side : (conn[s].state >= StateClosing) ~> (conn[s].reaped = 1)

=============================================================================
