--------------------------- MODULE ConnectionBatch ---------------------------
(***************************************************************************)
(* Batch requests of Ice::ConnectionI (cpp/src/Ice/ConnectionI.cpp).  The  *)
(* connection lends its batch stream to one caller at a time, who marshals *)
(* a request into it; the batch goes out as one message when it is flushed *)
(* or when it gets too large (Ice.BatchAutoFlush).  A batch request        *)
(* succeeds when it is added: its loss can only be reported to someone     *)
(* else, later.                                                            *)
(*                                                                         *)
(* Each request, and each flush, is made by a thread of its own.  The      *)
(* connection is reduced to its state and its send queue (see Connection). *)
(***************************************************************************)
EXTENDS Naturals, Sequences, FiniteSets

CONSTANTS
    Requests,     \* the batch requests
    Flushes,      \* the calls to flushBatchRequests
    None,
    Big,          \* the requests that exceed the message size alone
    MaxBatch      \* the requests that fit into a message

\* A batch message: its requests, the number in its header, and the flush that
\* waits for it, if any.
Message == [reqs : Seq(Requests), num : Nat, by : Flushes \cup {None}]

VARIABLES
    state,       \* _state: open, closing, closed or finished
    stream,      \* the requests in _batchStream
    num,         \* _batchRequestNum
    owner,       \* the request that has the stream (_batchStreamInUse), or None
    lent,        \* the requests in the stream of the owner
    aborting,    \* did the owner's finishBatchRequest() throw, and what?
    queue,       \* _sendStreams
    wire,        \* the messages that were sent
    outcome,     \* what the requests and flushes returned
    told,        \* somebody got the connection's exception, not to be retried
    unreported   \* lost requests since whose loss nobody got an exception

vars == <<state, stream, num, owner, lent, aborting, queue, wire, outcome, told, unreported>>

\* A call gets the connection's exception ("failed", or "retry" if it may be made
\* again on another connection) or one of its own ("aborted").
Outcomes == {"idle", "busy", "ok", "retry", "failed", "aborted"}

TypeOK ==
    /\ state \in {"open", "closing", "closed", "finished"}
    /\ stream \in Seq(Requests) /\ lent \in Seq(Requests)
    /\ num \in Nat
    /\ owner \in Requests \cup {None}
    /\ aborting \in {"no", "connection", "limit"}
    /\ told \in BOOLEAN
    /\ queue \in Seq(Message) /\ wire \in Seq(Message)
    /\ outcome \in [Requests \cup Flushes -> Outcomes]
    /\ unreported \subseteq Requests

Init ==
    /\ state = "open"
    /\ stream = <<>> /\ num = 0
    /\ owner = None /\ lent = <<>> /\ aborting = "no"
    /\ told = FALSE
    /\ queue = <<>> /\ wire = <<>>
    /\ outcome = [x \in Requests \cup Flushes |-> "idle"]
    /\ unreported = {}

\* A connection that is closing or closed has an _exception.
HasException == state # "open"

Elements(s) == {s[i] : i \in 1 .. Len(s)}
InMessages(q) == UNION {Elements(q[i].reqs) : i \in 1 .. Len(q)}

\* The requests that were accepted and are nowhere any more.
Lost ==
    {r \in Requests : outcome[r] = "ok"}
        \ (Elements(stream) \cup Elements(lent) \cup InMessages(queue) \cup InMessages(wire))

\* Accounting for a step that gives someone an exception which is not retried:
\* none, the connection's, or another one.
Account(reports) ==
    /\ told' = (told \/ reports = "connection")
    /\ unreported' = IF reports = "none" THEN unreported \cup (Lost' \ Lost) ELSE {}

\* sendMessage(): w is what the socket does if the message can be written now.
Writes == {"sent", "block", "fail"}
SendFails(w) == queue = <<>> /\ w = "fail"
SendMessage(m, w) ==
    /\ queue' = IF queue # <<>> \/ w = "block" THEN Append(queue, m) ELSE queue
    /\ wire' = IF queue = <<>> /\ w = "sent" THEN Append(wire, m) ELSE wire

-----------------------------------------------------------------------------

\* prepareBatchRequest(): the caller gets the stream.  On a failed connection it
\* may retry if nothing is in the stream.
PrepareBatchRequest(r) ==
    /\ outcome[r] = "idle"
    /\ owner = None \/ HasException
    /\ UNCHANGED <<state, num, aborting, queue, wire>>
    /\ \/ /\ HasException
          /\ outcome' = [outcome EXCEPT ![r] = IF stream = <<>> THEN "retry" ELSE "failed"]
          /\ UNCHANGED <<stream, owner, lent>>
          /\ Account(IF stream = <<>> THEN "none" ELSE "connection")
       \/ /\ ~HasException
          /\ owner' = r
          /\ lent' = stream /\ stream' = <<>>
          /\ outcome' = [outcome EXCEPT ![r] = "busy"]
          /\ Account("none")

TooLarge(s) == Len(s) > MaxBatch \/ Elements(s) \cap Big # {}

\* finishBatchRequest() throws: the stream is back, and abortBatchRequest()
\* follows after the lock was released.
FinishThrows(s, what) ==
    /\ stream' = s
    /\ lent' = <<>>
    /\ aborting' = what
    /\ UNCHANGED <<num, owner, outcome>>

\* The request is in the batch.
FinishAdds(r, s, n) ==
    /\ stream' = s
    /\ lent' = <<>>
    /\ num' = n
    /\ owner' = None
    /\ outcome' = [outcome EXCEPT ![r] = "ok"]
    /\ UNCHANGED aborting

\* finishBatchRequest(): the request that makes the batch too large goes into the
\* next one.
FinishBatchRequest(r) ==
    LET s == Append(lent, r) IN
    /\ owner = r /\ aborting = "no"
    /\ \/ /\ HasException
          /\ FinishThrows(s, "connection")
          /\ UNCHANGED <<state, queue, wire>>
       \/ /\ ~HasException
          /\ TooLarge(s) /\ num = 0             \* MemoryLimitException
          /\ FinishThrows(s, "limit")
          /\ UNCHANGED <<state, queue, wire>>
       \/ /\ ~HasException
          /\ ~TooLarge(s)
          /\ FinishAdds(r, s, num + 1)
          /\ UNCHANGED <<state, queue, wire>>
       \/ /\ ~HasException
          /\ TooLarge(s) /\ num > 0
          /\ \E w \in Writes :
                \/ /\ SendFails(w)
                   /\ state' = "closed"
                   /\ FinishThrows(lent, "connection")
                   /\ UNCHANGED <<queue, wire>>
                \/ /\ ~SendFails(w)
                   /\ SendMessage([reqs |-> lent, num |-> num, by |-> None], w)
                   /\ IF r \in Big
                      THEN /\ stream' = <<>> /\ lent' = <<>> /\ num' = 0
                           /\ aborting' = "limit"
                           /\ UNCHANGED <<owner, outcome>>
                      ELSE FinishAdds(r, <<r>>, 1)
                   /\ UNCHANGED state
    /\ Account("none")

\* Mutant of AbortBatchRequest: the number of requests is not reset.
AbortBatchRequestNoReset(r) ==
    /\ owner = r
    /\ stream' = <<>> /\ lent' = <<>>
    /\ owner' = None /\ aborting' = "no"
    /\ outcome' = [outcome EXCEPT
            ![r] = IF aborting = "connection" THEN "failed" ELSE "aborted"]
    /\ UNCHANGED <<state, num, queue, wire>>
    /\ Account(IF aborting = "connection" THEN "connection" ELSE "other")

\* abortBatchRequest(): after a failed finishBatchRequest(), or when the request
\* could not be marshalled.  The whole batch goes, and the caller gets an
\* exception that is not retried.
AbortBatchRequest(r) ==
    /\ owner = r
    /\ stream' = <<>> /\ lent' = <<>> /\ num' = 0
    /\ owner' = None /\ aborting' = "no"
    /\ outcome' = [outcome EXCEPT
            ![r] = IF aborting = "connection" THEN "failed" ELSE "aborted"]
    /\ UNCHANGED <<state, queue, wire>>
    /\ Account(IF aborting = "connection" THEN "connection" ELSE "other")

\* flushBatchRequests() and flushAsyncBatchRequests().
Flush(f) ==
    /\ outcome[f] = "idle"
    /\ owner = None \/ HasException
    /\ UNCHANGED <<owner, lent, aborting>>
    /\ \/ /\ HasException
          /\ outcome' = [outcome EXCEPT ![f] = "failed"]
          /\ UNCHANGED <<state, stream, num, queue, wire>>
          /\ Account("connection")
       \/ /\ ~HasException
          /\ num = 0
          /\ outcome' = [outcome EXCEPT ![f] = "ok"]
          /\ UNCHANGED <<state, stream, num, queue, wire>>
          /\ Account("none")
       \/ /\ ~HasException
          /\ num > 0
          /\ stream' = <<>>
          /\ \E w \in Writes :
                \/ /\ SendFails(w)
                   /\ state' = "closed"
                   /\ outcome' = [outcome EXCEPT ![f] = "failed"]
                   /\ UNCHANGED <<num, queue, wire>>
                   /\ Account("connection")
                \/ /\ ~SendFails(w)
                   /\ SendMessage([reqs |-> stream, num |-> num, by |-> f], w)
                   /\ num' = 0
                   /\ outcome' = [outcome EXCEPT
                        ![f] = IF queue = <<>> /\ w = "sent" THEN "ok" ELSE "busy"]
                   /\ UNCHANGED state
                   /\ Account("none")

-----------------------------------------------------------------------------
(* The rest of the connection.                                             *)

\* message() writes the head of the send queue.
SendNextMessage ==
    /\ state \in {"open", "closing"}
    /\ queue # <<>>
    /\ wire' = Append(wire, Head(queue))
    /\ queue' = Tail(queue)
    /\ outcome' = IF Head(queue).by = None THEN outcome
                  ELSE [outcome EXCEPT ![Head(queue).by] = "ok"]
    /\ UNCHANGED <<state, stream, num, owner, lent, aborting>>
    /\ Account("none")

\* monitor(): active connection management finds nothing to do.
Monitor ==
    /\ state = "open"
    /\ queue = <<>> /\ stream = <<>>
    /\ state' = "closing"
    /\ UNCHANGED <<stream, num, owner, lent, aborting, queue, wire, outcome>>
    /\ Account("none")

\* The connection is closed gracefully, or fails.
Close ==
    /\ state' \in CASE state = "open" -> {"closing", "closed"}
                    [] state = "closing" -> {"closed"}
                    [] OTHER -> {}
    /\ UNCHANGED <<stream, num, owner, lent, aborting, queue, wire, outcome>>
    /\ Account("none")

\* finish(): the queued messages are not sent, and the flushes that wait for them
\* get the exception.
Finish ==
    LET waiting == {queue[i].by : i \in 1 .. Len(queue)} \ {None} IN
    /\ state = "closed"
    /\ state' = "finished"
    /\ queue' = <<>>
    /\ outcome' = [x \in DOMAIN outcome |-> IF x \in waiting THEN "failed" ELSE outcome[x]]
    /\ UNCHANGED <<stream, num, owner, lent, aborting, wire>>
    /\ Account(IF waiting = {} THEN "none" ELSE "connection")

Next ==
    \/ \E r \in Requests :
        PrepareBatchRequest(r) \/ FinishBatchRequest(r) \/ AbortBatchRequest(r)
    \/ \E f \in Flushes : Flush(f)
    \/ SendNextMessage \/ Monitor \/ Close \/ Finish

Spec == Init /\ [][Next]_vars

-----------------------------------------------------------------------------

\* The header of every message counts its requests, and no message is empty or,
\* with automatic flushing, larger than the limit.
CountsMatch ==
    \A i \in 1 .. Len(queue \o wire) : LET m == (queue \o wire)[i] IN
        m.num = Len(m.reqs) /\ m.num \in 1 .. MaxBatch

\* A request is in at most one place, and one whose caller got an exception is
\* never sent: retrying it does not duplicate it.
SentAtMostOnce ==
    LET all == wire \o queue IN
    /\ \A i, j \in 1 .. Len(all) :
        \A k \in 1 .. Len(all[i].reqs) : \A l \in 1 .. Len(all[j].reqs) :
            all[i].reqs[k] = all[j].reqs[l] => i = j /\ k = l
    /\ \A r \in Requests :
        outcome[r] \in {"retry", "failed", "aborted"} =>
            r \notin InMessages(all) \cup Elements(stream) \cup Elements(lent)

\* "We must throw to notify the caller that some previous batch requests were not
\* sent": when accepted requests were lost, somebody got an exception for it, or
\* the next one to use the connection will.  This is not so when a request was
\* aborted, as prepareBatchRequest() then finds the stream empty although an
\* earlier message, flushed automatically, may still be queued.
LossReported ==
    unreported # {} =>
        \/ told
        \/ HasException /\ (stream # <<>> \/ owner # None)
        \/ \E r \in Requests : outcome[r] = "aborted"

=============================================================================
