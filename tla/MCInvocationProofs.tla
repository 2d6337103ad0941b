------------------------- MODULE MCInvocationProofs -------------------------
(***************************************************************************)
(* Proofs about the two ends of an invocation, for all values of the       *)
(* constants: InvocationOnce of the proxy's end (ProxyInvocation) and      *)
(* AdapterExact and HoldIsComplete of the object adapter's                 *)
(* (ObjectAdapter).                                                        *)
(*                                                                         *)
(* The proxy's invariant says of each invocation by itself how often it    *)
(* can have been executed at its place; the adapter's says what a thread   *)
(* may rely on between two critical sections, and that no step of the      *)
(* others (AdapterAdvances, FactoryAdvances) takes it away.                *)
(***************************************************************************)
EXTENDS MCInvocation, FiniteSetTheorems, TLAPS

(* The proxy's end *)

\* The invocations.
Calls == P!Calls
\* The invocation makes no further attempt.
Over(b) == b.at \in {"async", "item", "end"}
\* The attempt that is under way, or has just failed, may have been executed.
Tried(b, l) == \/ b.at = "pending" /\ l = "executed"
               \/ b.at = "failed" /\ b.wrapper = "noRetry"

\* The record of an invocation.
CallType ==
    [at : {"idle", "send", "pending", "failed", "add", "queued", "async", "item", "end"},
     idempotent : BOOLEAN, oneway : BOOLEAN, thread : {"user", "pool", "timer"},
     cnt : 0 .. Len(RetryIntervals) + 2, exc : P!Exceptions,
     wrapper : {"no", "retry", "noRetry"}, result : {"none", "ok", "exception", "thrown"},
     ends : 0 .. 2, late : BOOLEAN]

\* What is kept about one invocation c, with its record b, its request l and n
\* executions: every attempt but the last was counted before the next, an operation that
\* is not idempotent was not executed before the attempt that ends it, and the end is
\* told once.
Sound(c, b, l, n) ==
    /\ b.cnt <= Len(RetryIntervals) + 1
    /\ b.at = "idle" => b.cnt = 0
    /\ ~Over(b) => n <= b.cnt + (IF Tried(b, l) THEN 1 ELSE 0)
    /\ Over(b) => n <= Len(RetryIntervals) + 2
    /\ ~Over(b) /\ ~Tried(b, l) /\ ~b.idempotent => n = 0
    /\ ~b.idempotent => n <= 1
    /\ b.at # "end" => b.ends = 0
    /\ b.ends <= 1
    /\ l # "none" => b.at = "pending"
    /\ b.at \in {"add", "queued"} => c \in Async

\* Every invocation is sound.
CallsSound == \A c \in Calls : Sound(c, call[c], link[c], executed[c])
\* What is in the retry queue waits there.
QueueSound == \A c \in queue : call[c].at = "queued"
\* The type invariant of ProxyInvocation, with its records named.
ProxyTypes ==
    /\ call \in [Calls -> CallType]
    /\ link \in [Calls -> {"none", "queued", "sent", "executed", "refused"}]
    /\ executed \in [Calls -> 0 .. Len(RetryIntervals) + 3]
    /\ queue \subseteq Async /\ tasks \subseteq Async /\ timer \in Async \cup {None}
    /\ phase \in {"active", "inProgress", "finished", "emptied", "locked", "destroyed", "joined"}
    /\ failures \in 0 .. MaxFailures

\* The two ways to state the types agree.
LEMMA ProxyTypesAreTypeOK == ProxyTypes <=> P!TypeOK
BY DEF ProxyTypes, P!TypeOK, CallType, Calls, P!Calls

\* There are finitely many retry intervals.
LEMMA LenNat == Len(RetryIntervals) \in Nat
BY RetriesAssumption

\* What can become of a request.
Links == {"none", "queued", "sent", "executed", "refused"}
\* The phases of Instance::destroy().
Phases == {"active", "inProgress", "finished", "emptied", "locked", "destroyed", "joined"}

\* The step leaves the call c as b, its request as l, executed n times.
Leaves(c, b, l, n) ==
    /\ call' = [call EXCEPT ![c] = b]
    /\ link' = [link EXCEPT ![c] = l]
    /\ executed' = [executed EXCEPT ![c] = n]

\* A step that changes one invocation, soundly, keeps the invariant.
LEMMA OneCall ==
    ASSUME ProxyTypes, CallsSound, QueueSound, NEW c \in Calls,
           NEW b \in CallType, NEW l \in Links, NEW n \in 0 .. Len(RetryIntervals) + 3,
           Leaves(c, b, l, n), Sound(c, b, l, n),
           queue' \subseteq Async, c \in queue' => b.at = "queued",
           queue' \subseteq queue \cup {c},
           tasks' \subseteq Async, timer' \in Async \cup {None},
           phase' \in Phases, failures' \in 0 .. MaxFailures
    PROVE  (ProxyTypes /\ CallsSound /\ QueueSound)'
<1>1. ProxyTypes' BY DEF ProxyTypes, Links, Phases, Leaves
<1>2. \A d \in Calls :
        /\ call'[d] = IF d = c THEN b ELSE call[d]
        /\ link'[d] = IF d = c THEN l ELSE link[d]
        /\ executed'[d] = IF d = c THEN n ELSE executed[d]
  BY DEF Leaves, ProxyTypes
<1>3. CallsSound' BY <1>2 DEF CallsSound
<1>4. Async \subseteq Calls BY DEF Calls, P!Calls
<1>5. QueueSound' BY <1>2, <1>4 DEF QueueSound, ProxyTypes
<1> QED BY <1>1, <1>3, <1>5

\* What the invariant says about one invocation.
LEMMA Entry ==
    ASSUME ProxyTypes, CallsSound, NEW c \in Calls
    PROVE  /\ Len(RetryIntervals) \in Nat
           /\ call[c] \in CallType /\ executed[c] \in 0 .. Len(RetryIntervals) + 3
           /\ link[c] \in Links /\ Sound(c, call[c], link[c], executed[c])
BY LenNat DEF ProxyTypes, CallsSound, Links

\* The record of an invocation that ended, see Ends.
EndRec(x, r) ==
    [x EXCEPT !.at = "end", !.result = r, !.ends = @ + 1, !.oneway = FALSE,
              !.thread = "user", !.cnt = 0, !.exc = "none", !.wrapper = "no"]

\* An invocation that ends is sound when its attempts were.
LEMMA EndRecSound ==
    ASSUME NEW c, NEW x \in CallType, NEW r \in {"ok", "exception"}, NEW n \in Nat,
           x.ends = 0, n <= Len(RetryIntervals) + 2, ~x.idempotent => n <= 1
    PROVE  EndRec(x, r) \in CallType /\ Sound(c, EndRec(x, r), "none", n)
<1>0. Len(RetryIntervals) \in Nat BY LenNat
<1> DEFINE b == EndRec(x, r)
<1>4. x.ends + 1 \in 0 .. 2 /\ 0 \in 0 .. Len(RetryIntervals) + 2 BY <1>0
<1> DEFINE y == [x EXCEPT !.at = "end", !.result = r, !.ends = @ + 1, !.oneway = FALSE]
<1>5. y \in CallType BY ZenonT(60), <1>4 DEF CallType
<1>6. b = [y EXCEPT !.thread = "user", !.cnt = 0, !.exc = "none", !.wrapper = "no"]
  BY DEF CallType, EndRec
<1> HIDE DEF y
<1>1. b \in CallType BY ZenonT(60), <1>4, <1>5, <1>6 DEF CallType, P!Exceptions
<1>2. b.at = "end" /\ b.cnt = 0 /\ b.ends = x.ends + 1 /\ b.idempotent = x.idempotent
  BY DEF CallType, EndRec
<1> HIDE DEF b
<1>3. Sound(c, b, "none", n) BY <1>0, <1>1, <1>2 DEF Sound, Over, CallType
<1> QED BY <1>1, <1>3 DEF b

\* Ends changes the record of one invocation.
LEMMA EndsLeaves ==
    ASSUME ProxyTypes, NEW c \in Calls, NEW r, P!Ends(c, r)
    PROVE  call' = [call EXCEPT ![c] = EndRec(call[c], r)]
BY DEF ProxyTypes, P!Ends, EndRec

\* The record of an invocation whose exception is given by a work item.
AsyncRec(x) == [x EXCEPT !.at = "async"]
\* The record of an invocation whose work item is queued.
ItemRec(x) == [x EXCEPT !.at = "item"]

\* An invocation that is given up, at once or by a work item, stays sound.
LEMMA GivesLeaves ==
    ASSUME ProxyTypes, CallsSound, NEW c \in Calls, P!Gives(c), link[c] = "none",
           call[c].at \in {"failed", "add"}
    PROVE  \E b \in CallType : /\ call' = [call EXCEPT ![c] = b]
                               /\ Sound(c, b, "none", executed[c])
                               /\ b.at # "queued"
<1>1. /\ Len(RetryIntervals) \in Nat
      /\ call[c] \in CallType /\ executed[c] \in 0 .. Len(RetryIntervals) + 3
      /\ link[c] \in Links /\ Sound(c, call[c], link[c], executed[c])
  BY Entry
<1>2. /\ executed[c] <= Len(RetryIntervals) + 2 /\ (~call[c].idempotent => executed[c] <= 1)
      /\ call[c].ends = 0
  BY <1>1 DEF Sound, Over, CallType
<1>3. CASE c \in Async /\ call[c].thread # "pool"
  <2> DEFINE b == AsyncRec(call[c])
  <2>1. call' = [call EXCEPT ![c] = b] BY <1>3 DEF P!Gives, ProxyTypes, AsyncRec
  <2>2. b \in CallType BY <1>1 DEF CallType, AsyncRec
  <2>3. /\ b.at = "async" /\ b.ends = call[c].ends /\ b.idempotent = call[c].idempotent
        /\ b.cnt = call[c].cnt
    BY <1>1 DEF CallType, AsyncRec
  <2> HIDE DEF b
  <2>4. Sound(c, b, "none", executed[c]) BY <1>1, <1>2, <2>2, <2>3 DEF Sound, Over, CallType
  <2> QED BY <2>1, <2>2, <2>3, <2>4
<1>4. CASE ~(c \in Async /\ call[c].thread # "pool")
  <2>1. P!Ends(c, "exception") BY <1>4 DEF P!Gives
  <2>2. call' = [call EXCEPT ![c] = EndRec(call[c], "exception")] BY <2>1, EndsLeaves
  <2>3. executed[c] \in Nat BY <1>1
  <2>4. /\ EndRec(call[c], "exception") \in CallType
        /\ Sound(c, EndRec(call[c], "exception"), "none", executed[c])
    BY <1>1, <1>2, <2>3, EndRecSound
  <2>5. EndRec(call[c], "exception").at # "queued" BY <1>1 DEF EndRec, CallType
  <2> QED BY <2>2, <2>4, <2>5
<1> QED BY <1>3, <1>4

\* A new invocation was not executed.
LEMMA BeginSafe == ASSUME ProxyTypes, CallsSound, QueueSound, NEW c \in Calls, P!Begin(c)
                   PROVE  (ProxyTypes /\ CallsSound /\ QueueSound)'
<1>0. Len(RetryIntervals) \in Nat BY LenNat
<1>1. PICK i \in BOOLEAN, o \in BOOLEAN :
        call' = [call EXCEPT ![c].at = "send", ![c].idempotent = i, ![c].oneway = o]
  BY DEF P!Begin
<1> DEFINE b == [call[c] EXCEPT !.at = "send", !.idempotent = i, !.oneway = o]
<1>2. UNCHANGED <<link, failures, executed, queue, tasks, timer, phase>> /\ call[c].at = "idle"
  BY DEF P!Begin, P!External
<1>3. /\ call[c] \in CallType /\ executed[c] \in 0 .. Len(RetryIntervals) + 3
      /\ link[c] \in Links /\ Sound(c, call[c], link[c], executed[c])
  BY Entry
<1>4. Leaves(c, b, link[c], executed[c]) BY <1>1, <1>2 DEF Leaves, ProxyTypes
<1>5. b \in CallType BY <1>3 DEF CallType
<1>6. /\ b.at = "send" /\ b.cnt = call[c].cnt /\ b.ends = call[c].ends
      /\ b.wrapper = call[c].wrapper
  BY <1>3 DEF CallType
<1> HIDE DEF b
<1>7. Sound(c, b, link[c], executed[c])
  BY <1>0, <1>2, <1>3, <1>5, <1>6 DEF Sound, Over, Tried, CallType
<1>8. c \notin queue BY <1>2 DEF QueueSound
<1> QED BY <1>2, <1>3, <1>4, <1>5, <1>7, <1>8, OneCall DEF ProxyTypes, Phases
\* A handler that takes the request: no attempt before it was executed in vain.
LEMMA SendSafe ==
    ASSUME ProxyTypes, CallsSound, QueueSound, NEW c \in Calls, P!Send(c)
    PROVE  (ProxyTypes /\ CallsSound /\ QueueSound)'
<1>0. /\ Len(RetryIntervals) \in Nat
      /\ call[c] \in CallType /\ executed[c] \in 0 .. Len(RetryIntervals) + 3
      /\ link[c] \in Links /\ Sound(c, call[c], link[c], executed[c])
  BY Entry
<1>1. /\ call[c].at = "send" /\ UNCHANGED <<queue, tasks, phase, failures, executed>>
      /\ call' = [call EXCEPT ![c].at = "pending", ![c].exc = "none", ![c].wrapper = "no"]
      /\ link' = [link EXCEPT ![c] = "queued"] /\ timer' \in {None, timer}
  BY DEF P!Send, P!Released
<1>9. c \notin queue BY <1>1 DEF QueueSound
<1> DEFINE b == [call[c] EXCEPT !.at = "pending", !.exc = "none", !.wrapper = "no"]
<1>11. Leaves(c, b, "queued", executed[c]) BY <1>0, <1>1, <1>9 DEF Leaves, ProxyTypes
<1>12. b \in CallType BY <1>0 DEF CallType, P!Exceptions
<1>13. b.at = "pending" /\ b.cnt = call[c].cnt /\ b.ends = call[c].ends /\ b.idempotent = call[c].idempotent
  BY <1>0 DEF CallType
<1> HIDE DEF b
<1>14. Sound(c, b, "queued", executed[c])
  BY <1>0, <1>1, <1>9, <1>12, <1>13 DEF Sound, Over, Tried, CallType, Links
<1> QED BY <1>0, <1>1, <1>9, <1>11, <1>12, <1>13, <1>14, OneCall DEF ProxyTypes, Phases, Links

\* An attempt that did not reach a connection was not executed.
LEMMA SendThrowsSafe ==
    ASSUME ProxyTypes, CallsSound, QueueSound, NEW c \in Calls, P!SendThrows(c)
    PROVE  (ProxyTypes /\ CallsSound /\ QueueSound)'
<1>0. /\ Len(RetryIntervals) \in Nat
      /\ call[c] \in CallType /\ executed[c] \in 0 .. Len(RetryIntervals) + 3
      /\ link[c] \in Links /\ Sound(c, call[c], link[c], executed[c])
  BY Entry
<1>1. /\ call[c].at = "send" /\ link[c] = "none"
      /\ UNCHANGED <<link, queue, tasks, timer, phase, executed>>
      /\ failures' \in 0 .. MaxFailures
  BY <1>0, FailuresAssumption DEF P!SendThrows, Sound, ProxyTypes
<1>2. P!Fails(c, "connect", "no") \/ P!Fails(c, "lost", "retry") \/ P!Fails(c, "destroyed", "no")
  BY DEF P!SendThrows
<1>9. c \notin queue BY <1>1 DEF QueueSound
<1>3. CASE P!Fails(c, "connect", "no")
  <2> DEFINE b == [call[c] EXCEPT !.at = "failed", !.exc = "connect", !.wrapper = "no"]
  <2>1. Leaves(c, b, link[c], executed[c])
    BY <1>0, <1>1, <1>9, <1>3 DEF Leaves, ProxyTypes, P!Fails
  <2>2. b \in CallType BY <1>0 DEF CallType, P!Exceptions
  <2>3. b.at = "failed" /\ b.wrapper = "no" /\ b.cnt = call[c].cnt /\ b.ends = call[c].ends /\ b.idempotent = call[c].idempotent
    BY <1>0 DEF CallType
  <2> HIDE DEF b
  <2>4. Sound(c, b, link[c], executed[c])
    BY <1>0, <1>1, <1>9, <1>3, <2>2, <2>3 DEF Sound, Over, Tried, CallType, Links
  <2> QED BY <1>0, <1>1, <1>9, <1>3, <2>1, <2>2, <2>3, <2>4, OneCall DEF ProxyTypes, Phases, Links
<1>4. CASE P!Fails(c, "lost", "retry")
  <2> DEFINE b == [call[c] EXCEPT !.at = "failed", !.exc = "lost", !.wrapper = "retry"]
  <2>1. Leaves(c, b, link[c], executed[c])
    BY <1>0, <1>1, <1>9, <1>4 DEF Leaves, ProxyTypes, P!Fails
  <2>2. b \in CallType BY <1>0 DEF CallType, P!Exceptions
  <2>3. b.at = "failed" /\ b.wrapper = "retry" /\ b.cnt = call[c].cnt /\ b.ends = call[c].ends /\ b.idempotent = call[c].idempotent
    BY <1>0 DEF CallType
  <2> HIDE DEF b
  <2>4. Sound(c, b, link[c], executed[c])
    BY <1>0, <1>1, <1>9, <1>4, <2>2, <2>3 DEF Sound, Over, Tried, CallType, Links
  <2> QED BY <1>0, <1>1, <1>9, <1>4, <2>1, <2>2, <2>3, <2>4, OneCall DEF ProxyTypes, Phases, Links
<1>5. CASE P!Fails(c, "destroyed", "no")
  <2> DEFINE b == [call[c] EXCEPT !.at = "failed", !.exc = "destroyed", !.wrapper = "no"]
  <2>1. Leaves(c, b, link[c], executed[c])
    BY <1>0, <1>1, <1>9, <1>5 DEF Leaves, ProxyTypes, P!Fails
  <2>2. b \in CallType BY <1>0 DEF CallType, P!Exceptions
  <2>3. b.at = "failed" /\ b.wrapper = "no" /\ b.cnt = call[c].cnt /\ b.ends = call[c].ends /\ b.idempotent = call[c].idempotent
    BY <1>0 DEF CallType
  <2> HIDE DEF b
  <2>4. Sound(c, b, link[c], executed[c])
    BY <1>0, <1>1, <1>9, <1>5, <2>2, <2>3 DEF Sound, Over, Tried, CallType, Links
  <2> QED BY <1>0, <1>1, <1>9, <1>5, <2>1, <2>2, <2>3, <2>4, OneCall DEF ProxyTypes, Phases, Links
<1> QED BY <1>2, <1>3, <1>4, <1>5

\* A oneway invocation ends when it is written.
LEMMA SentSafe ==
    ASSUME ProxyTypes, CallsSound, QueueSound, NEW c \in Calls, P!Sent(c)
    PROVE  (ProxyTypes /\ CallsSound /\ QueueSound)'
<1>0. /\ Len(RetryIntervals) \in Nat
      /\ call[c] \in CallType /\ executed[c] \in 0 .. Len(RetryIntervals) + 3
      /\ link[c] \in Links /\ Sound(c, call[c], link[c], executed[c])
  BY Entry
<1>1. /\ link[c] = "queued" /\ call[c].at = "pending"
      /\ UNCHANGED <<queue, tasks, timer, phase, failures>>
  BY <1>0 DEF P!Sent, Sound
<1>9. c \notin queue BY <1>1 DEF QueueSound
<1>2. CASE P!Ends(c, "ok") /\ executed' = executed /\ link' = [link EXCEPT ![c] = "none"]
  <2> DEFINE b == EndRec(call[c], "ok")
  <2>1. Leaves(c, b, "none", executed[c])
    BY <1>0, <1>1, <1>2, <1>9, EndsLeaves DEF Leaves, ProxyTypes
  <2>2. executed[c] \in Nat /\ executed[c] <= Len(RetryIntervals) + 2 /\ (~call[c].idempotent => executed[c] <= 1) /\ call[c].ends = 0
    BY <1>0, <1>1, <1>2, <1>9 DEF Sound, Over, Tried, CallType
  <2>3. b \in CallType /\ Sound(c, b, "none", executed[c]) BY <1>0, <2>2, EndRecSound
  <2> HIDE DEF b
  <2> QED BY <1>0, <1>1, <1>2, <1>9, <2>1, <2>2, <2>3, OneCall DEF ProxyTypes, Phases, Links
<1>3. CASE P!Ends(c, "ok") /\ executed' = [executed EXCEPT ![c] = @ + 1] /\ link' = [link EXCEPT ![c] = "none"]
  <2> DEFINE b == EndRec(call[c], "ok")
  <2>1. Leaves(c, b, "none", (executed[c] + 1))
    BY <1>0, <1>1, <1>3, <1>9, EndsLeaves DEF Leaves, ProxyTypes
  <2>2. (executed[c] + 1) \in Nat /\ (executed[c] + 1) <= Len(RetryIntervals) + 2 /\ (~call[c].idempotent => (executed[c] + 1) <= 1) /\ call[c].ends = 0
    BY <1>0, <1>1, <1>3, <1>9 DEF Sound, Over, Tried, CallType
  <2>3. b \in CallType /\ Sound(c, b, "none", (executed[c] + 1)) BY <1>0, <2>2, EndRecSound
  <2> HIDE DEF b
  <2> QED BY <1>0, <1>1, <1>3, <1>9, <2>1, <2>2, <2>3, OneCall DEF ProxyTypes, Phases, Links
<1>4. CASE call' = call /\ executed' = executed /\ link' = [link EXCEPT ![c] = "sent"]
  <2>1. Leaves(c, call[c], "sent", executed[c]) BY <1>4 DEF Leaves, ProxyTypes
  <2>2. Sound(c, call[c], "sent", executed[c]) BY <1>0, <1>1 DEF Sound, Over, Tried
  <2> QED BY <1>0, <1>1, <1>9, <2>1, <2>2, OneCall DEF ProxyTypes, Phases, Links
<1> QED BY <1>2, <1>3, <1>4 DEF P!Sent

\* The server executes the attempt that is under way.
LEMMA ExecuteSafe ==
    ASSUME ProxyTypes, CallsSound, QueueSound, NEW c \in Calls, P!Execute(c)
    PROVE  (ProxyTypes /\ CallsSound /\ QueueSound)'
<1>0. /\ Len(RetryIntervals) \in Nat
      /\ call[c] \in CallType /\ executed[c] \in 0 .. Len(RetryIntervals) + 3
      /\ link[c] \in Links /\ Sound(c, call[c], link[c], executed[c])
  BY Entry
<1>1. /\ link[c] = "sent" /\ call[c].at = "pending"
      /\ UNCHANGED <<call, queue, tasks, timer, phase, failures>>
  BY <1>0 DEF P!Execute, Sound
<1>9. c \notin queue BY <1>1 DEF QueueSound
<1>2. CASE executed' = [executed EXCEPT ![c] = @ + 1] /\ link' = [link EXCEPT ![c] = "executed"]
  <2>1. Leaves(c, call[c], "executed", executed[c] + 1) BY <1>1, <1>2 DEF Leaves, ProxyTypes
  <2>2. Sound(c, call[c], "executed", executed[c] + 1) /\ executed[c] + 1 \in 0 .. Len(RetryIntervals) + 3
    BY <1>0, <1>1 DEF Sound, Over, Tried, CallType
  <2> QED BY <1>0, <1>1, <1>9, <2>1, <2>2, OneCall DEF ProxyTypes, Phases, Links
<1>3. CASE UNCHANGED executed /\ link' = [link EXCEPT ![c] = "refused"]
  <2>1. Leaves(c, call[c], "refused", executed[c]) BY <1>1, <1>3 DEF Leaves, ProxyTypes
  <2>2. Sound(c, call[c], "refused", executed[c]) BY <1>0, <1>1 DEF Sound, Over, Tried
  <2> QED BY <1>0, <1>1, <1>9, <2>1, <2>2, OneCall DEF ProxyTypes, Phases, Links
<1> QED BY <1>2, <1>3 DEF P!Execute

\* A reply ends the invocation, or refuses it.
LEMMA FinishedSafe ==
    ASSUME ProxyTypes, CallsSound, QueueSound, NEW c \in Calls, P!Finished(c)
    PROVE  (ProxyTypes /\ CallsSound /\ QueueSound)'
<1>0. /\ Len(RetryIntervals) \in Nat
      /\ call[c] \in CallType /\ executed[c] \in 0 .. Len(RetryIntervals) + 3
      /\ link[c] \in Links /\ Sound(c, call[c], link[c], executed[c])
  BY Entry
<1>1. /\ call[c].at = "pending" /\ link[c] \in {"executed", "refused"}
      /\ UNCHANGED <<queue, tasks, timer, phase, failures, executed>>
      /\ link' = [link EXCEPT ![c] = "none"]
  BY <1>0 DEF P!Finished, Sound
<1>9. c \notin queue BY <1>1 DEF QueueSound
<1>2. CASE link[c] = "executed" /\ P!Ends(c, "ok")
  <2> DEFINE b == EndRec(call[c], "ok")
  <2>1. Leaves(c, b, "none", executed[c])
    BY <1>0, <1>1, <1>2, <1>9, EndsLeaves DEF Leaves, ProxyTypes
  <2>2. executed[c] \in Nat /\ executed[c] <= Len(RetryIntervals) + 2 /\ (~call[c].idempotent => executed[c] <= 1) /\ call[c].ends = 0
    BY <1>0, <1>1, <1>2, <1>9 DEF Sound, Over, Tried, CallType
  <2>3. b \in CallType /\ Sound(c, b, "none", executed[c]) BY <1>0, <2>2, EndRecSound
  <2> HIDE DEF b
  <2> QED BY <1>0, <1>1, <1>2, <1>9, <2>1, <2>2, <2>3, OneCall DEF ProxyTypes, Phases, Links
<1>3. CASE /\ link[c] = "refused"
          /\ call' = [call EXCEPT ![c].at = "failed", ![c].thread = "pool", ![c].exc = "refused",
                                  ![c].wrapper = "no"]
  <2> DEFINE b == [call[c] EXCEPT !.at = "failed", !.thread = "pool", !.exc = "refused", !.wrapper = "no"]
  <2>1. Leaves(c, b, "none", executed[c]) BY <1>0, <1>1, <1>3, <1>9 DEF Leaves, ProxyTypes
  <2>2. b \in CallType BY <1>0 DEF CallType, P!Exceptions
  <2>3. b.at = "failed" /\ b.wrapper = "no" /\ b.cnt = call[c].cnt /\ b.ends = call[c].ends /\ b.idempotent = call[c].idempotent
    BY <1>0 DEF CallType
  <2> HIDE DEF b
  <2>4. Sound(c, b, "none", executed[c])
    BY <1>0, <1>1, <1>3, <1>9, <2>2, <2>3 DEF Sound, Over, Tried, CallType, Links
  <2> QED BY <1>0, <1>1, <1>3, <1>9, <2>1, <2>2, <2>3, <2>4, OneCall DEF ProxyTypes, Phases, Links
<1> QED BY <1>2, <1>3 DEF P!Finished

\* A retry: only an idempotent operation is repeated after an attempt that may have been
\* executed, and it is counted.
LEMMA HandleExceptionSafe ==
    ASSUME ProxyTypes, CallsSound, QueueSound, NEW c \in Calls, P!HandleException(c)
    PROVE  (ProxyTypes /\ CallsSound /\ QueueSound)'
<1>0. /\ Len(RetryIntervals) \in Nat
      /\ call[c] \in CallType /\ executed[c] \in 0 .. Len(RetryIntervals) + 3
      /\ link[c] \in Links /\ Sound(c, call[c], link[c], executed[c])
  BY Entry
<1>1. /\ call[c].at = "failed" /\ link[c] = "none"
      /\ UNCHANGED <<link, failures, executed, queue, tasks, timer, phase>>
  BY <1>0 DEF P!HandleException, Sound, P!External
<1>9. c \notin queue BY <1>1 DEF QueueSound
<1>2. CASE P!Gives(c)
  <2>1. PICK b \in CallType : /\ call' = [call EXCEPT ![c] = b] /\ Sound(c, b, "none", executed[c])
                               /\ b.at # "queued"
    BY <1>0, <1>1, <1>2, <1>9, GivesLeaves
  <2>2. Leaves(c, b, "none", executed[c]) BY <1>0, <1>1, <1>2, <1>9, <2>1 DEF Leaves, ProxyTypes
  <2> QED BY <1>0, <1>1, <1>2, <1>9, <2>1, <2>2, OneCall DEF ProxyTypes, Phases, Links
<1>3. CASE ~P!Gives(c)
  <2> DEFINE k == IF P!Counted(c) THEN call[c].cnt + 1 ELSE call[c].cnt
             a == IF P!Interval(c) > 0 /\ c \in Async THEN "add" ELSE "send"
             b == [call[c] EXCEPT !.cnt = k, !.at = a]
  <2>1. P!Interval(c) # -1 BY <1>3 DEF P!HandleException
  <2>2. Leaves(c, b, "none", executed[c])
    BY <1>1, <2>1 DEF Leaves, ProxyTypes, P!HandleException
  \* The limit is passed by one, and only after a graceful closure.
  <2>3. /\ k \in 0 .. Len(RetryIntervals) + 1
        /\ call[c].wrapper = "noRetry" => k = call[c].cnt + 1 /\ call[c].idempotent = TRUE
        /\ k >= call[c].cnt
    <3>1. CASE call[c].wrapper = "retry"
      <4>1. k = call[c].cnt BY <3>1 DEF P!Counted
      <4> QED BY <1>0, <3>1, <4>1 DEF Sound, CallType
    <3>2. CASE call[c].wrapper # "retry"
      <4>1. P!Interval(c) = P!CheckRetry(c) /\ (call[c].wrapper = "noRetry" => call[c].idempotent)
        BY <2>1, <3>2 DEF P!Interval
      <4>2. P!CheckRetry(c) # -1 BY <2>1, <4>1
      <4>3. ~(P!Destroyed \/ call[c].exc = "refused") BY <4>2 DEF P!CheckRetry
      <4>4. call[c].cnt + 1 <= Len(RetryIntervals) + 1
        BY <1>0, <4>2, <4>3 DEF P!CheckRetry, CallType
      <4>5. k = call[c].cnt + 1 BY <3>2, <4>3 DEF P!Counted
      <4>6. call[c].idempotent \in BOOLEAN /\ call[c].cnt \in Nat BY <1>0 DEF CallType
      <4> QED BY <1>0, <4>1, <4>4, <4>5, <4>6
    <3> QED BY <3>1, <3>2
  <2>4. a \in {"add", "send"} /\ (a = "add" => c \in Async) OBVIOUS
  <2> HIDE DEF k, a
  <2>8. k \in 0 .. Len(RetryIntervals) + 2 BY <1>0, <2>3
  <2>5. b \in CallType BY <1>0, <2>8, <2>4 DEF CallType
  <2>6. /\ b.at = a /\ b.cnt = k /\ b.ends = call[c].ends /\ b.wrapper = call[c].wrapper
        /\ b.idempotent = call[c].idempotent
    BY <1>0 DEF CallType
  <2> HIDE DEF b
  <2>7. Sound(c, b, "none", executed[c])
    BY <1>0, <1>1, <2>3, <2>4, <2>5, <2>6 DEF Sound, Over, Tried, CallType
  <2> QED BY <1>0, <1>1, <1>9, <2>2, <2>4, <2>5, <2>6, <2>7, OneCall DEF ProxyTypes, Phases, Links
<1> QED BY <1>2, <1>3

\* RetryQueue::add() is called for asynchronous invocations.
LEMMA AddSafe ==
    ASSUME ProxyTypes, CallsSound, QueueSound, NEW c \in Calls, P!Add(c)
    PROVE  (ProxyTypes /\ CallsSound /\ QueueSound)'
<1>0. /\ Len(RetryIntervals) \in Nat
      /\ call[c] \in CallType /\ executed[c] \in 0 .. Len(RetryIntervals) + 3
      /\ link[c] \in Links /\ Sound(c, call[c], link[c], executed[c])
  BY Entry
<1>1. /\ call[c].at = "add" /\ link[c] = "none" /\ c \in Async
      /\ UNCHANGED <<link, failures, executed, phase>>
  BY <1>0 DEF P!Add, Sound, P!External
<1>9. c \notin queue BY <1>1 DEF QueueSound
<1>2. CASE P!Gives(c) /\ UNCHANGED <<queue, tasks, timer>>
  <2>1. PICK b \in CallType : /\ call' = [call EXCEPT ![c] = b] /\ Sound(c, b, "none", executed[c])
                               /\ b.at # "queued"
    BY <1>0, <1>1, <1>2, <1>9, GivesLeaves
  <2>2. Leaves(c, b, "none", executed[c]) BY <1>0, <1>1, <1>2, <1>9, <2>1 DEF Leaves, ProxyTypes
  <2> QED BY <1>0, <1>1, <1>2, <1>9, <2>1, <2>2, OneCall DEF ProxyTypes, Phases, Links
<1>3. CASE /\ queue' = queue \cup {c} /\ tasks' = tasks \cup {c} /\ timer' \in {None, timer}
          /\ call' = [call EXCEPT ![c].at = "queued", ![c].late = phase = "emptied"]
  <2> DEFINE b == [call[c] EXCEPT !.at = "queued", !.late = (phase = "emptied")]
  <2>1. Leaves(c, b, "none", executed[c]) BY <1>0, <1>1, <1>3, <1>9 DEF Leaves, ProxyTypes
  <2>2. b \in CallType BY <1>0 DEF CallType, P!Exceptions
  <2>3. b.at = "queued" /\ b.cnt = call[c].cnt /\ b.ends = call[c].ends /\ b.idempotent = call[c].idempotent
    BY <1>0 DEF CallType
  <2> HIDE DEF b
  <2>4. Sound(c, b, "none", executed[c])
    BY <1>0, <1>1, <1>3, <1>9, <2>2, <2>3 DEF Sound, Over, Tried, CallType, Links
  <2> QED BY <1>0, <1>1, <1>3, <1>9, <2>1, <2>2, <2>3, <2>4, OneCall DEF ProxyTypes, Phases, Links
<1> QED BY <1>2, <1>3 DEF P!Add, P!Released

\* The timer takes a task.
LEMMA TimerFiresSafe ==
    ASSUME ProxyTypes, CallsSound, QueueSound, NEW c \in Async, P!TimerFires(c)
    PROVE  (ProxyTypes /\ CallsSound /\ QueueSound)'
<1>1. /\ UNCHANGED <<link, failures, executed, call, queue, phase>>
      /\ tasks' \subseteq tasks /\ timer' = c
  BY DEF P!TimerFires, P!External
<1>2. ProxyTypes' BY <1>1 DEF ProxyTypes
<1>3. CallsSound' BY <1>1 DEF CallsSound
<1>4. QueueSound' BY <1>1 DEF QueueSound
<1> QED BY <1>2, <1>3, <1>4

\* RetryTask::runTimerTask() goes on with an invocation that is in the queue.
LEMMA RunTimerTaskSafe ==
    ASSUME ProxyTypes, CallsSound, QueueSound, NEW c \in Async, P!RunTimerTask(c)
    PROVE  (ProxyTypes /\ CallsSound /\ QueueSound)'
<1> c \in Calls BY DEF Calls, P!Calls
<1>0. /\ Len(RetryIntervals) \in Nat
      /\ call[c] \in CallType /\ executed[c] \in 0 .. Len(RetryIntervals) + 3
      /\ link[c] \in Links /\ Sound(c, call[c], link[c], executed[c])
  BY Entry
<1>1. UNCHANGED <<link, failures, executed, tasks, phase>> BY DEF P!RunTimerTask, P!External
<1>2. CASE c \in queue
  <2>1. /\ call[c].at = "queued" /\ queue' = queue \ {c} /\ UNCHANGED timer
        /\ call' = [call EXCEPT ![c].at = "send", ![c].thread = "timer"] /\ link[c] = "none"
    BY <1>0, <1>2 DEF P!RunTimerTask, QueueSound, Sound
  <2> DEFINE b == [call[c] EXCEPT !.at = "send", !.thread = "timer"]
  <2>2. Leaves(c, b, "none", executed[c]) BY <1>1, <2>1 DEF Leaves, ProxyTypes
  <2>3. b \in CallType BY <1>0 DEF CallType
  <2>4. b.at = "send" /\ b.wrapper = call[c].wrapper /\ b.cnt = call[c].cnt
        /\ b.ends = call[c].ends /\ b.idempotent = call[c].idempotent
    BY <1>0 DEF CallType
  <2> HIDE DEF b
  <2>5. Sound(c, b, "none", executed[c])
    BY <1>0, <2>1, <2>3, <2>4 DEF Sound, Over, Tried, CallType
  <2> QED BY <1>0, <1>1, <2>1, <2>2, <2>3, <2>5, OneCall DEF ProxyTypes, Phases, Links
<1>3. CASE c \notin queue
  <2>1. UNCHANGED <<queue, call>> /\ timer' = None BY <1>3 DEF P!RunTimerTask
  <2>2. ProxyTypes' BY <1>1, <2>1 DEF ProxyTypes
  <2>3. CallsSound' BY <1>1, <2>1 DEF CallsSound
  <2>4. QueueSound' BY <1>1, <2>1 DEF QueueSound
  <2> QED BY <2>2, <2>3, <2>4
<1> QED BY <1>2, <1>3

\* __exceptionAsync() does not tell the end itself.
LEMMA ExceptionAsyncSafe ==
    ASSUME ProxyTypes, CallsSound, QueueSound, NEW c \in Calls, P!ExceptionAsync(c)
    PROVE  (ProxyTypes /\ CallsSound /\ QueueSound)'
<1>0. /\ Len(RetryIntervals) \in Nat
      /\ call[c] \in CallType /\ executed[c] \in 0 .. Len(RetryIntervals) + 3
      /\ link[c] \in Links /\ Sound(c, call[c], link[c], executed[c])
  BY Entry
<1>1. /\ call[c].at = "async" /\ link[c] = "none"
      /\ UNCHANGED <<link, failures, executed, queue, tasks, phase>> /\ timer' \in {None, timer}
  BY <1>0 DEF P!ExceptionAsync, Sound, P!External, P!Released
<1>9. c \notin queue BY <1>1 DEF QueueSound
<1>2. CASE call' = [call EXCEPT ![c].at = "end", ![c].result = "thrown"]
  <2> DEFINE b == [call[c] EXCEPT !.at = "end", !.result = "thrown"]
  <2>1. Leaves(c, b, "none", executed[c]) BY <1>0, <1>1, <1>2, <1>9 DEF Leaves, ProxyTypes
  <2>2. b \in CallType BY <1>0 DEF CallType, P!Exceptions
  <2>3. b.at = "end" /\ b.cnt = call[c].cnt /\ b.ends = call[c].ends /\ b.idempotent = call[c].idempotent
    BY <1>0 DEF CallType
  <2> HIDE DEF b
  <2>4. Sound(c, b, "none", executed[c])
    BY <1>0, <1>1, <1>2, <1>9, <2>2, <2>3 DEF Sound, Over, Tried, CallType, Links
  <2> QED BY <1>0, <1>1, <1>2, <1>9, <2>1, <2>2, <2>3, <2>4, OneCall DEF ProxyTypes, Phases, Links
<1>3. CASE call' = [call EXCEPT ![c].at = "item"]
  <2> DEFINE b == [call[c] EXCEPT !.at = "item"]
  <2>1. Leaves(c, b, "none", executed[c]) BY <1>0, <1>1, <1>3, <1>9 DEF Leaves, ProxyTypes
  <2>2. b \in CallType BY <1>0 DEF CallType, P!Exceptions
  <2>3. b.at = "item" /\ b.cnt = call[c].cnt /\ b.ends = call[c].ends /\ b.idempotent = call[c].idempotent
    BY <1>0 DEF CallType
  <2> HIDE DEF b
  <2>4. Sound(c, b, "none", executed[c])
    BY <1>0, <1>1, <1>3, <1>9, <2>2, <2>3 DEF Sound, Over, Tried, CallType, Links
  <2> QED BY <1>0, <1>1, <1>3, <1>9, <2>1, <2>2, <2>3, <2>4, OneCall DEF ProxyTypes, Phases, Links
<1> QED BY <1>2, <1>3 DEF P!ExceptionAsync

\* The work item tells the end.
LEMMA AsynchronousExceptionSafe ==
    ASSUME ProxyTypes, CallsSound, QueueSound, NEW c \in Calls, P!AsynchronousException(c)
    PROVE  (ProxyTypes /\ CallsSound /\ QueueSound)'
<1>0. /\ Len(RetryIntervals) \in Nat
      /\ call[c] \in CallType /\ executed[c] \in 0 .. Len(RetryIntervals) + 3
      /\ link[c] \in Links /\ Sound(c, call[c], link[c], executed[c])
  BY Entry
<1>1. /\ call[c].at = "item" /\ link[c] = "none"
      /\ UNCHANGED <<link, failures, executed, queue, tasks, timer, phase>>
      /\ P!Ends(c, "exception")
  BY <1>0 DEF P!AsynchronousException, Sound, P!External
<1>9. c \notin queue BY <1>1 DEF QueueSound
<1>2. CASE TRUE
  <2> DEFINE b == EndRec(call[c], "exception")
  <2>1. Leaves(c, b, "none", executed[c]) BY <1>0, <1>1, <1>9, EndsLeaves DEF Leaves, ProxyTypes
  <2>2. executed[c] \in Nat /\ executed[c] <= Len(RetryIntervals) + 2 /\ (~call[c].idempotent => executed[c] <= 1) /\ call[c].ends = 0
    BY <1>0, <1>1, <1>9 DEF Sound, Over, Tried, CallType
  <2>3. b \in CallType /\ Sound(c, b, "none", executed[c]) BY <1>0, <2>2, EndRecSound
  <2> HIDE DEF b
  <2> QED BY <1>0, <1>1, <1>9, <2>1, <2>2, <2>3, OneCall DEF ProxyTypes, Phases, Links
<1> QED BY <1>2

\* A connection that ends: what may have been executed is marked.
LEMMA ConnectionEndsSafe ==
    ASSUME ProxyTypes, CallsSound, QueueSound, NEW e \in {"lost", "close"}, P!ConnectionEnds(e)
    PROVE  (ProxyTypes /\ CallsSound /\ QueueSound)'
<1>1. /\ call' = [c \in Calls |-> IF c \in P!OnConnection THEN P!FailedWith(c, e) ELSE call[c]]
      /\ link' = [c \in Calls |-> "none"]
      /\ UNCHANGED <<queue, tasks, timer, phase, executed>>
      /\ e = "close" => \A c \in Calls : link[c] \notin {"executed", "refused"}
      /\ failures' \in 0 .. MaxFailures
  BY FailuresAssumption DEF P!ConnectionEnds, Calls, ProxyTypes
<1>2. ASSUME NEW c \in Calls
      PROVE  /\ call'[c] \in CallType /\ Sound(c, call'[c], "none", executed[c])
             /\ call[c].at = "queued" => call'[c] = call[c]
  <2>1. /\ Len(RetryIntervals) \in Nat
        /\ call[c] \in CallType /\ executed[c] \in 0 .. Len(RetryIntervals) + 3
        /\ link[c] \in Links /\ Sound(c, call[c], link[c], executed[c])
    BY Entry
  <2>2. CASE c \notin P!OnConnection
    <3>1. call'[c] = call[c] /\ link[c] = "none" BY <1>1, <2>2 DEF P!OnConnection, Calls
    <3> QED BY <2>1, <3>1
  <2>3. CASE c \in P!OnConnection
    <3> DEFINE b == P!FailedWith(c, e)
               w == IF link[c] # "queued" /\ e # "close" THEN "noRetry" ELSE "no"
    <3>1. call'[c] = b /\ link[c] # "none" BY <1>1, <2>3 DEF P!OnConnection
    <3>2. call[c].at = "pending" BY <2>1, <3>1 DEF Sound
    <3>3. b \in CallType BY ZenonT(60), <2>1 DEF P!FailedWith, CallType, P!Exceptions
    <3>4. b.at = "failed" /\ b.wrapper = w /\ b.cnt = call[c].cnt /\ b.ends = call[c].ends
          /\ b.idempotent = call[c].idempotent
      BY <2>1 DEF P!FailedWith, CallType
    <3>5. link[c] = "executed" => w = "noRetry" BY <1>1
    <3> HIDE DEF b, w
    <3>6. Sound(c, b, "none", executed[c])
      BY <2>1, <3>1, <3>2, <3>3, <3>4, <3>5 DEF Sound, Over, Tried, CallType, Links
    <3> QED BY <3>1, <3>2, <3>3, <3>6
  <2> QED BY <2>2, <2>3
<1>3. ProxyTypes' BY <1>1, <1>2 DEF ProxyTypes
<1>4. CallsSound' BY <1>1, <1>2 DEF CallsSound
<1>5. Async \subseteq Calls BY DEF Calls, P!Calls
<1>6. QueueSound' BY <1>1, <1>2, <1>5 DEF QueueSound, ProxyTypes
<1> QED BY <1>3, <1>4, <1>6

\* RetryQueue::destroy() fails the invocations of the queue.
LEMMA RetryQueueDestroySafe ==
    ASSUME ProxyTypes, CallsSound, QueueSound, P!RetryQueueDestroy
    PROVE  (ProxyTypes /\ CallsSound /\ QueueSound)'
<1>1. /\ call' = [c \in Calls |-> IF c \in queue THEN ItemRec(call[c]) ELSE call[c]]
      /\ UNCHANGED <<link, failures, executed, timer>>
      /\ queue' = {} /\ tasks' \subseteq tasks /\ phase' = "emptied"
  BY DEF P!RetryQueueDestroy, P!Phase, P!External, Calls, ItemRec
<1>2. ASSUME NEW c \in Calls
      PROVE  call'[c] \in CallType /\ Sound(c, call'[c], link[c], executed[c])
  <2>1. /\ Len(RetryIntervals) \in Nat
        /\ call[c] \in CallType /\ executed[c] \in 0 .. Len(RetryIntervals) + 3
        /\ link[c] \in Links /\ Sound(c, call[c], link[c], executed[c])
    BY Entry
  <2>2. CASE c \notin queue BY <1>1, <2>1, <2>2
  <2>3. CASE c \in queue
    <3> DEFINE b == ItemRec(call[c])
    <3>1. call'[c] = b /\ call[c].at = "queued" BY <1>1, <2>3 DEF QueueSound
    <3>2. b \in CallType BY <2>1 DEF ItemRec, CallType
    <3>3. b.at = "item" /\ b.cnt = call[c].cnt /\ b.ends = call[c].ends
          /\ b.idempotent = call[c].idempotent
      BY <2>1 DEF ItemRec, CallType
    <3> HIDE DEF b
    <3>4. Sound(c, b, link[c], executed[c])
      BY <2>1, <3>1, <3>2, <3>3 DEF Sound, Over, Tried, CallType
    <3> QED BY <3>1, <3>2, <3>4
  <2> QED BY <2>2, <2>3
<1>3. ProxyTypes' BY <1>1, <1>2 DEF ProxyTypes
<1>4. CallsSound' BY <1>1, <1>2 DEF CallsSound
<1>5. QueueSound' BY <1>1 DEF QueueSound
<1> QED BY <1>3, <1>4, <1>5

\* Steps that change no invocation.
LEMMA CallsUnchanged ==
    ASSUME ProxyTypes, CallsSound, QueueSound, UNCHANGED <<call, link, executed, queue, failures>>,
           tasks' \subseteq tasks, timer' = timer, phase' \in Phases
    PROVE  (ProxyTypes /\ CallsSound /\ QueueSound)'
<1>1. ProxyTypes' BY DEF ProxyTypes, Phases
<1>2. CallsSound' BY DEF CallsSound
<1>3. QueueSound' BY DEF QueueSound
<1> QED BY <1>1, <1>2, <1>3

\* Every step of the proxy's end keeps the invariant.
LEMMA ProxyStep ==
    ASSUME ProxyTypes /\ CallsSound /\ QueueSound, [P!Next]_(P!vars)
    PROVE  (ProxyTypes /\ CallsSound /\ QueueSound)'
<1>1. ASSUME NEW c \in Calls, P!Begin(c) \/ P!CallStep(c) \/ P!LinkStep(c)
      PROVE  (ProxyTypes /\ CallsSound /\ QueueSound)'
  BY <1>1, BeginSafe, SendSafe, SendThrowsSafe, HandleExceptionSafe, AddSafe, ExceptionAsyncSafe,
     AsynchronousExceptionSafe, SentSafe, ExecuteSafe, FinishedSafe DEF P!CallStep, P!LinkStep
<1>2. ASSUME NEW c \in Async, P!TimerStep(c)
      PROVE  (ProxyTypes /\ CallsSound /\ QueueSound)'
  BY <1>2, TimerFiresSafe, RunTimerTaskSafe DEF P!TimerStep
<1>3. ASSUME P!DestroyBegin \/ P!DestroyStep
      PROVE  (ProxyTypes /\ CallsSound /\ QueueSound)'
  <2>1. CASE P!RetryQueueDestroy BY <2>1, RetryQueueDestroySafe
  <2>2. CASE P!DestroyBegin \/ P!ConnectionsFinished \/ P!DestroyTimer \/ P!JoinTimer \/ P!JoinThreads
    <3>1. /\ UNCHANGED <<call, link, executed, queue, failures>> /\ tasks' \subseteq tasks
          /\ timer' = timer /\ phase' \in Phases
      BY <2>2 DEF P!DestroyBegin, P!ConnectionsFinished, P!DestroyTimer, P!JoinTimer,
                  P!JoinThreads, P!Phase, P!External, Phases
    <3> QED BY <3>1, CallsUnchanged
  <2> QED BY <1>3, <2>1, <2>2 DEF P!DestroyStep
<1>4. CASE UNCHANGED P!vars
  <2>1. /\ UNCHANGED <<call, link, executed, queue, failures>> /\ tasks' \subseteq tasks
        /\ timer' = timer /\ phase' \in Phases
    BY <1>4 DEF P!vars, ProxyTypes, Phases
  <2> QED BY <2>1, CallsUnchanged
<1> QED BY <1>1, <1>2, <1>3, <1>4, ConnectionEndsSafe DEF P!Next, Calls

\* Every invocation is sound at all times, for any number of invocations, any retry
\* intervals and any number of failures.
THEOREM InvocationInductive == P!Spec => [](P!TypeOK /\ CallsSound /\ QueueSound)
<1>1. P!Init => ProxyTypes /\ CallsSound /\ QueueSound
  <2> SUFFICES ASSUME P!Init PROVE ProxyTypes /\ CallsSound /\ QueueSound OBVIOUS
  <2> DEFINE b == [at |-> "idle", idempotent |-> FALSE, oneway |-> FALSE,
                   thread |-> "user", cnt |-> 0, exc |-> "none",
                   wrapper |-> "no", result |-> "none", ends |-> 0, late |-> FALSE]
  <2>1. /\ call = [c \in Calls |-> b] /\ link = [c \in Calls |-> "none"]
        /\ executed = [c \in Calls |-> 0] /\ queue = {} /\ tasks = {} /\ timer = None
        /\ phase = "active" /\ failures = 0
    BY DEF P!Init, Calls
  <2>2. b \in CallType BY LenNat DEF CallType, P!Exceptions
  <2>3. b.at = "idle" /\ b.cnt = 0 /\ b.ends = 0 OBVIOUS
  <2> HIDE DEF b
  <2>4. ProxyTypes BY <2>1, <2>2, LenNat, FailuresAssumption DEF ProxyTypes
  <2>5. \A c \in Calls : Sound(c, b, "none", 0) BY <2>3, LenNat DEF Sound, Over, Tried
  <2>6. CallsSound BY <2>1, <2>5 DEF CallsSound
  <2>7. QueueSound BY <2>1 DEF QueueSound
  <2> QED BY <2>4, <2>6, <2>7
<1> QED BY <1>1, ProxyStep, ProxyTypesAreTypeOK, PTL DEF P!Spec

\* InvocationOnce: the server executes an operation that is not idempotent at most once
\* over all retries (checkRetryAfterException(), OutgoingAsync::__finished()), and the end
\* of an invocation is told once.
THEOREM InvocationIsOnce == P!Spec => []InvocationOnce
<1>1. P!TypeOK /\ CallsSound /\ QueueSound => InvocationOnce
  <2> SUFFICES ASSUME P!TypeOK, CallsSound, QueueSound PROVE InvocationOnce OBVIOUS
  <2>1. \A c \in Calls : Sound(c, call[c], link[c], executed[c]) /\ call[c] \in CallType
                         /\ executed[c] \in Nat
    BY ProxyTypesAreTypeOK, Entry
  <2>2. P!AtMostOnce BY <2>1 DEF P!AtMostOnce, Sound, Calls
  <2>3. P!EndsOnce BY <2>1 DEF P!EndsOnce, Sound, Calls, QueueSound
  <2> QED BY <2>2, <2>3 DEF InvocationOnce
<1> QED BY <1>1, InvocationInductive, PTL

-----------------------------------------------------------------------------
(* The object adapter's end *)

\* The record of a thread.
ThreadType ==
    [at : {"idle", "register", "holdFactory", "holdConns", "holdRetry", "holdAgain",
           "destroyBegin", "deactivate", "unregister", "destroyFactory", "wait",
           "waitFactory", "waitConns", "waitReap", "servants", "direct", "crashed"},
     conns : SUBSET Connections, destroy : BOOLEAN, since : 0 .. 2]
\* The members of the adapter.
AdapterType ==
    [deactivated : BOOLEAN, waitForActivate : BOOLEAN, oneOffDone : BOOLEAN,
     waitForHold : Nat, retry : BOOLEAN, destroying : BOOLEAN, destroyed : BOOLEAN,
     directCount : Nat, servants : BOOLEAN]
\* The members of the factory.
FactoryType ==
    [state : {"holding", "active", "closed", "finished"}, conns : SUBSET Connections,
     adapter : BOOLEAN]
\* The record of a connection.
ConnectionType == [state : A!ConnStates, dispatch : BOOLEAN, callback : BOOLEAN]

\* The type invariant of ObjectAdapter, without the limits of its counters.
AdapterTypes ==
    /\ oa \in AdapterType /\ fac \in FactoryType
    /\ conn \in [Connections -> ConnectionType] /\ reaper \subseteq Connections
    /\ thr \in [Threads -> ThreadType]
    /\ registered \in BOOLEAN /\ activations \in 0 .. 2 /\ deactivated2 \in BOOLEAN

\* A thread is counted in _waitForHold.
AtHold(r) == r.at \in {"holdFactory", "holdConns"}
\* The threads that are in a round of waitForHold().
Holding == {t \in Threads : AtHold(thr[t])}
\* The threads that make a collocated call.
Direct == {t \in Threads : thr[t].at = "direct"}
\* The adapter's counters count threads.
CountsExact == oa.waitForHold = Cardinality(Holding) /\ oa.directCount = Cardinality(Direct)

\* A connection is finished and dispatches nothing.
Done(x) == x.state = "finished" /\ x.dispatch = FALSE
\* The factory, its connections and the reaper: the reaper holds the connections that are
\* done, one that the factory does not know is not open, and waitUntilFinished() ends only
\* with a finished factory.
FactorySound ==
    /\ fac.adapter = FALSE => fac.state = "finished"
    /\ reaper = {k \in fac.conns : Done(conn[k])}
    /\ \A k \in Connections : k \notin fac.conns => conn[k].state = "none" \/ Done(conn[k])
    /\ \A k \in Connections : conn[k].state = "none" => conn[k].dispatch = FALSE /\ conn[k].callback = FALSE
    /\ A!FollowsFactory

\* waitForDeactivate() has passed the adapter's own wait.
Waited(r) == r.at \in {"waitFactory", "waitConns", "waitReap", "servants"}
\* waitForDeactivate() has passed the wait for the factory.
Closed(r) == r.at \in {"waitConns", "waitReap", "servants"}
\* What a thread relies on after it has unlocked the monitors, while others go on.
ThreadSound(r, a, f, c, p, n) ==
    /\ Waited(r) => a.deactivated = TRUE /\ a.directCount = 0
    /\ Closed(r) => f.adapter = FALSE
    /\ r.at = "waitConns" => f.conns \subseteq r.conns
    /\ r.at = "waitReap" => f.conns \subseteq p
    /\ r.at = "servants" => f.conns = {}
    /\ AtHold(r) => r.since <= n
    /\ r.at = "holdConns" /\ r.since = n /\ n < 2 =>
           /\ f.state # "active"
           /\ \A k \in f.conns : k \notin r.conns => c[k].dispatch = FALSE
\* All threads may rely on it.
ThreadsSound == \A t \in Threads : ThreadSound(thr[t], oa, fac, conn, reaper, activations)
\* Servants are destroyed only when nothing can be dispatched any more.
ServantsSound ==
    oa.servants = FALSE =>
        oa.deactivated = TRUE /\ oa.directCount = 0 /\ fac.adapter = FALSE /\ fac.conns = {}

\* The inductive invariant of the adapter.
AdapterInv == AdapterTypes /\ CountsExact /\ FactorySound /\ ThreadsSound /\ ServantsSound

-----------------------------------------------------------------------------
\* No step undoes the deactivation, or begins a collocated call after it.
AdapterAdvances ==
    /\ oa.deactivated = TRUE => oa'.deactivated = TRUE
    /\ oa.deactivated = TRUE /\ oa.directCount = 0 => oa'.directCount = 0
\* No step revives a factory that waitUntilFinished() has left, and without an activation
\* a held factory accepts nothing and its connections dispatch nothing new.
FactoryAdvances ==
    /\ fac.adapter = FALSE => fac'.adapter = FALSE /\ fac'.conns \subseteq fac.conns
    /\ fac.adapter = FALSE /\ fac.conns \subseteq reaper => fac'.conns \subseteq reaper'
    /\ activations <= activations'
    /\ activations' = activations /\ activations < 2 /\ fac.state # "active" =>
           /\ fac'.state # "active" /\ fac'.conns \subseteq fac.conns
           /\ \A k \in fac.conns : conn[k].dispatch = FALSE => conn'[k].dispatch = FALSE

\* The types of the factory's part of the state.
FactoryTypes ==
    /\ fac \in FactoryType /\ conn \in [Connections -> ConnectionType]
    /\ reaper \subseteq Connections /\ activations \in 0 .. 2

\* What others do does not take away what a thread relies on.
LEMMA ThreadKeeps ==
    ASSUME AdapterAdvances, FactoryAdvances, NEW r \in ThreadType, activations \in 0 .. 2, activations' \in 0 .. 2,
           ThreadSound(r, oa, fac, conn, reaper, activations)
    PROVE  ThreadSound(r, oa', fac', conn', reaper', activations')
<1>1. Waited(r) => oa'.deactivated = TRUE /\ oa'.directCount = 0
  BY DEF ThreadSound, AdapterAdvances
<1>2. Closed(r) => fac'.adapter = FALSE BY DEF ThreadSound, FactoryAdvances
<1>3. r.at = "waitConns" => fac'.conns \subseteq r.conns
  BY DEF ThreadSound, FactoryAdvances, Closed
<1>4. r.at = "waitReap" => fac'.conns \subseteq reaper'
  BY DEF ThreadSound, FactoryAdvances, Closed
<1>5. r.at = "servants" => fac'.conns = {} BY DEF ThreadSound, FactoryAdvances, Closed
<1>6. AtHold(r) => r.since <= activations' BY DEF ThreadSound, FactoryAdvances, ThreadType
<1>7. ASSUME r.at = "holdConns" /\ r.since = activations' /\ activations' < 2
      PROVE  /\ fac'.state # "active"
             /\ \A k \in fac'.conns : k \notin r.conns => conn'[k].dispatch = FALSE
  <2>1. r.since = activations /\ activations' = activations
    BY <1>7 DEF ThreadSound, FactoryAdvances, ThreadType, AtHold
  <2> QED BY <1>7, <2>1 DEF ThreadSound, FactoryAdvances
<1> QED BY <1>1, <1>2, <1>3, <1>4, <1>5, <1>6, <1>7 DEF ThreadSound

\* 1 if p holds.
Bit(p) == IF p THEN 1 ELSE 0

\* The size of a set of which one member comes or goes.
LEMMA CountMember ==
    ASSUME NEW T, IsFiniteSet(T), NEW X \in SUBSET T, NEW Y \in SUBSET T, NEW t \in T,
           \A d \in T : d # t => (d \in X <=> d \in Y)
    PROVE  /\ Cardinality(X) \in Nat
           /\ Cardinality(Y) = Cardinality(X) + Bit(t \in Y) - Bit(t \in X)
<1>1. IsFiniteSet(X) /\ IsFiniteSet(Y) BY FS_Subset
<1>2. Cardinality(X) \in Nat /\ Cardinality(Y) \in Nat BY <1>1, FS_CardinalityType
<1>3. CASE (t \in X) <=> (t \in Y)
  <2>1. X = Y BY <1>3
  <2> QED BY <1>2, <2>1 DEF Bit
<1>4. CASE t \in X /\ t \notin Y
  <2>1. X = Y \cup {t} BY <1>4
  <2>2. Cardinality(X) = Cardinality(Y) + 1 BY <1>1, <1>4, <2>1, FS_AddElement
  <2> QED BY <1>2, <1>4, <2>2 DEF Bit
<1>5. CASE t \notin X /\ t \in Y
  <2>1. Y = X \cup {t} BY <1>5
  <2>2. Cardinality(Y) = Cardinality(X) + 1 BY <1>1, <1>5, <2>1, FS_AddElement
  <2> QED BY <1>2, <1>5, <2>2 DEF Bit
<1> QED BY <1>3, <1>4, <1>5

\* The counters are bounded by the number of threads.
LEMMA CountsBound ==
    ASSUME CountsExact
    PROVE  oa.waitForHold \in 0 .. Cardinality(Threads) /\ oa.directCount \in 0 .. Cardinality(Threads)
<1>1. Holding \subseteq Threads /\ Direct \subseteq Threads BY DEF Holding, Direct
<1>2. /\ Cardinality(Holding) \in Nat /\ Cardinality(Direct) \in Nat /\ Cardinality(Threads) \in Nat
      /\ Cardinality(Holding) <= Cardinality(Threads) /\ Cardinality(Direct) <= Cardinality(Threads)
  BY <1>1, ThreadsAssumption, FS_Subset, FS_CardinalityType
<1> QED BY <1>2 DEF CountsExact

\* Nothing is dispatched after the servants are gone.
LEMMA ServantsKeep ==
    ASSUME ServantsSound, AdapterAdvances, FactoryAdvances, oa'.servants = oa.servants
    PROVE  ServantsSound'
BY DEF ServantsSound, AdapterAdvances, FactoryAdvances

\* The counters follow a thread that changes from x to r.
Counted(r, x) ==
    /\ oa'.waitForHold = oa.waitForHold + Bit(AtHold(r)) - Bit(AtHold(x))
    /\ oa'.directCount = oa.directCount + Bit(r.at = "direct") - Bit(x.at = "direct")

\* A step of a thread that changes it to r.
LEMMA ThreadMoves ==
    ASSUME AdapterInv, NEW t \in Threads, NEW r \in ThreadType, thr' = [thr EXCEPT ![t] = r],
           oa' \in AdapterType, registered' \in BOOLEAN, deactivated2' \in BOOLEAN,
           FactoryTypes', FactorySound', AdapterAdvances, FactoryAdvances, ServantsSound',
           ThreadSound(r, oa', fac', conn', reaper', activations'),
           Counted(r, thr[t])
    PROVE  AdapterInv'
<1>1. AdapterTypes' BY DEF AdapterInv, AdapterTypes, FactoryTypes
<1>2. \A d \in Threads : thr'[d] = IF d = t THEN r ELSE thr[d] BY DEF AdapterInv, AdapterTypes
<1>3. \A d \in Threads : thr[d] \in ThreadType BY DEF AdapterInv, AdapterTypes
<1>4. activations \in 0 .. 2 /\ activations' \in 0 .. 2
  BY DEF AdapterInv, AdapterTypes, FactoryTypes
<1>5. ThreadsSound'
  <2> SUFFICES ASSUME NEW d \in Threads
               PROVE  ThreadSound(thr'[d], oa', fac', conn', reaper', activations')
    BY DEF ThreadsSound
  <2>1. CASE d = t BY <1>2, <2>1
  <2>2. CASE d # t
    <3>1. thr'[d] = thr[d] BY <1>2, <2>2
    <3>2. ThreadSound(thr[d], oa, fac, conn, reaper, activations) BY DEF AdapterInv, ThreadsSound
    <3> QED BY <1>3, <1>4, <3>1, <3>2, ThreadKeeps
  <2> QED BY <2>1, <2>2
<1>6. CountsExact'
  <2>1. /\ Holding \in SUBSET Threads /\ Holding' \in SUBSET Threads
        /\ \A d \in Threads : d # t => (d \in Holding <=> d \in Holding')
        /\ (t \in Holding <=> AtHold(thr[t])) /\ (t \in Holding' <=> AtHold(r))
    BY <1>2 DEF Holding
  <2>2. /\ Direct \in SUBSET Threads /\ Direct' \in SUBSET Threads
        /\ \A d \in Threads : d # t => (d \in Direct <=> d \in Direct')
        /\ (t \in Direct <=> thr[t].at = "direct") /\ (t \in Direct' <=> r.at = "direct")
    BY <1>2 DEF Direct
  <2>3. /\ Cardinality(Holding') = Cardinality(Holding) + Bit(t \in Holding') - Bit(t \in Holding)
    BY <2>1, CountMember, ThreadsAssumption
  <2>4. Cardinality(Direct') = Cardinality(Direct) + Bit(t \in Direct') - Bit(t \in Direct)
    BY <2>2, CountMember, ThreadsAssumption
  <2>5. /\ Bit(t \in Holding') = Bit(AtHold(r)) /\ Bit(t \in Holding) = Bit(AtHold(thr[t]))
        /\ Bit(t \in Direct') = Bit(r.at = "direct") /\ Bit(t \in Direct) = Bit(thr[t].at = "direct")
    BY <2>1, <2>2 DEF Bit
  <2>6. oa.waitForHold = Cardinality(Holding) /\ oa.directCount = Cardinality(Direct)
    BY DEF AdapterInv, CountsExact
  <2> QED BY <2>3, <2>4, <2>5, <2>6 DEF CountsExact, Counted
<1> QED BY <1>1, <1>5, <1>6 DEF AdapterInv

\* A step that changes no thread.
LEMMA ThreadsStay ==
    ASSUME AdapterInv, thr' = thr, oa' \in AdapterType, registered' \in BOOLEAN, deactivated2' \in BOOLEAN,
           FactoryTypes', FactorySound', AdapterAdvances, FactoryAdvances, oa'.servants = oa.servants,
           oa'.waitForHold = oa.waitForHold, oa'.directCount = oa.directCount
    PROVE  AdapterInv'
<1>1. AdapterTypes' BY DEF AdapterInv, AdapterTypes, FactoryTypes
<1>2. CountsExact' BY DEF AdapterInv, CountsExact, Holding, Direct
<1>3. ThreadsSound'
  <2> SUFFICES ASSUME NEW d \in Threads
               PROVE  ThreadSound(thr'[d], oa', fac', conn', reaper', activations')
    BY DEF ThreadsSound
  <2>1. ThreadSound(thr[d], oa, fac, conn, reaper, activations) BY DEF AdapterInv, ThreadsSound
  <2>2. thr[d] \in ThreadType /\ activations \in 0 .. 2 /\ activations' \in 0 .. 2
    BY DEF AdapterInv, AdapterTypes, FactoryTypes
  <2> QED BY <2>1, <2>2, ThreadKeeps
<1>4. ServantsSound' BY ServantsKeep DEF AdapterInv
<1> QED BY <1>1, <1>2, <1>3, <1>4 DEF AdapterInv

-----------------------------------------------------------------------------
(* The factory and its connections *)

\* Steps that do not touch the factory.
LEMMA FactoryStays ==
    ASSUME AdapterTypes, FactorySound, UNCHANGED <<fac, conn, reaper, activations>>
    PROVE  FactoryTypes' /\ FactorySound' /\ FactoryAdvances
<1>1. FactoryTypes' BY DEF AdapterTypes, FactoryTypes
<1>2. FactorySound' BY DEF FactorySound, A!FollowsFactory
<1>3. FactoryAdvances BY DEF FactoryAdvances, AdapterTypes
<1> QED BY <1>1, <1>2, <1>3

\* setState(StateActive) keeps connections and factory together.
LEMMA FactoryActivates ==
    ASSUME AdapterTypes, FactorySound, A!FactoryActivate, reaper' = reaper
    PROVE  FactoryTypes' /\ FactorySound' /\ FactoryAdvances
<1>1. CASE fac.state # "holding"
  BY <1>1, FactoryStays DEF A!FactoryActivate
<1>2. CASE fac.state = "holding"
  <2>1. /\ fac' = [fac EXCEPT !.state = "active"] /\ conn' = A!Told("holding", "active")
        /\ activations' = IF activations < 2 THEN activations + 1 ELSE 2
    BY <1>2 DEF A!FactoryActivate
  <2>2. /\ fac' \in FactoryType /\ fac'.state = "active" /\ fac'.conns = fac.conns
        /\ fac'.adapter = fac.adapter
    BY <2>1 DEF AdapterTypes, FactoryType
  <2>3. \A k \in Connections :
          conn'[k] = IF k \in fac.conns /\ conn[k].state = "holding"
                     THEN [conn[k] EXCEPT !.state = "active"] ELSE conn[k]
    BY <2>1 DEF A!Told
  <2>4. \A k \in Connections :
          /\ conn'[k] \in ConnectionType /\ conn'[k].dispatch = conn[k].dispatch
          /\ conn'[k].callback = conn[k].callback
          /\ conn'[k].state = IF k \in fac.conns /\ conn[k].state = "holding"
                              THEN "active" ELSE conn[k].state
    BY <2>3 DEF AdapterTypes, ConnectionType, A!ConnStates
  <2>5. FactoryTypes' BY <2>1, <2>2, <2>4 DEF AdapterTypes, FactoryTypes, A!Told
  <2>6. \A k \in Connections : Done(conn'[k]) <=> Done(conn[k]) BY <2>4 DEF Done
  <2>7. fac.conns \subseteq Connections BY DEF AdapterTypes, FactoryType
  <2>8. A!FollowsFactory' BY <1>2, <2>2, <2>4, <2>7 DEF A!FollowsFactory
  <2>9. FactorySound' BY <1>2, <2>2, <2>4, <2>6, <2>7, <2>8 DEF FactorySound
  <2>10. FactoryAdvances
    BY <1>2, <2>1, <2>2, <2>4, <2>7 DEF FactoryAdvances, FactorySound, AdapterTypes
  <2> QED BY <2>5, <2>9, <2>10
<1> QED BY <1>1, <1>2

\* setState(StateHolding) keeps connections and factory together.
LEMMA FactoryHolds ==
    ASSUME AdapterTypes, FactorySound, A!FactoryHold, reaper' = reaper, activations' = activations
    PROVE  FactoryTypes' /\ FactorySound' /\ FactoryAdvances
<1>1. CASE fac.state # "active"
  BY <1>1, FactoryStays DEF A!FactoryHold
<1>2. CASE fac.state = "active"
  <2>1. /\ fac' = [fac EXCEPT !.state = "holding"] /\ conn' = A!Told("active", "holding")
    BY <1>2 DEF A!FactoryHold
  <2>2. /\ fac' \in FactoryType /\ fac'.state = "holding" /\ fac'.conns = fac.conns
        /\ fac'.adapter = fac.adapter
    BY <2>1 DEF AdapterTypes, FactoryType
  <2>3. \A k \in Connections :
          conn'[k] = IF k \in fac.conns /\ conn[k].state = "active"
                     THEN [conn[k] EXCEPT !.state = "holding"] ELSE conn[k]
    BY <2>1 DEF A!Told
  <2>4. \A k \in Connections :
          /\ conn'[k] \in ConnectionType /\ conn'[k].dispatch = conn[k].dispatch
          /\ conn'[k].callback = conn[k].callback
          /\ conn'[k].state = IF k \in fac.conns /\ conn[k].state = "active"
                              THEN "holding" ELSE conn[k].state
    BY <2>3 DEF AdapterTypes, ConnectionType, A!ConnStates
  <2>5. FactoryTypes' BY <2>1, <2>2, <2>4 DEF AdapterTypes, FactoryTypes, A!Told
  <2>6. \A k \in Connections : Done(conn'[k]) <=> Done(conn[k]) BY <2>4 DEF Done
  <2>7. fac.conns \subseteq Connections BY DEF AdapterTypes, FactoryType
  <2>8. A!FollowsFactory' BY <1>2, <2>2, <2>4, <2>7 DEF A!FollowsFactory
  <2>9. FactorySound' BY <1>2, <2>2, <2>4, <2>6, <2>7, <2>8 DEF FactorySound
  <2>10. FactoryAdvances
    BY <1>2, <2>1, <2>2, <2>4, <2>7 DEF FactoryAdvances, FactorySound, AdapterTypes
  <2> QED BY <2>5, <2>9, <2>10
<1> QED BY <1>1, <1>2

\* setState(StateClosed) closes all connections.
LEMMA FactoryCloses ==
    ASSUME AdapterTypes, FactorySound, A!FactoryDestroy, reaper' = reaper, activations' = activations,
           fac.adapter = TRUE \/ fac.state = "closed"
    PROVE  FactoryTypes' /\ FactorySound' /\ FactoryAdvances
<1>1. CASE fac.state = "closed"
  BY <1>1, FactoryStays DEF A!FactoryDestroy
<1>2. CASE fac.state # "closed"
  <2>1. /\ fac' = [fac EXCEPT !.state = "closed"]
        /\ conn' = [k \in Connections |->
                        IF k \in fac.conns /\ conn[k].state \in {"starting", "active", "holding"}
                        THEN [conn[k] EXCEPT !.state = "closing"] ELSE conn[k]]
    BY <1>2 DEF A!FactoryDestroy
  <2>2. /\ fac' \in FactoryType /\ fac'.state = "closed" /\ fac'.conns = fac.conns
        /\ fac'.adapter = fac.adapter /\ fac.adapter = TRUE
    BY <1>2, <2>1 DEF AdapterTypes, FactoryType
  <2>4. \A k \in Connections :
          /\ conn'[k] \in ConnectionType /\ conn'[k].dispatch = conn[k].dispatch
          /\ conn'[k].callback = conn[k].callback
          /\ conn'[k].state = IF k \in fac.conns /\ conn[k].state \in {"starting", "active", "holding"}
                              THEN "closing" ELSE conn[k].state
    BY <2>1 DEF AdapterTypes, ConnectionType, A!ConnStates
  <2>5. FactoryTypes' BY <2>1, <2>2, <2>4 DEF AdapterTypes, FactoryTypes
  <2>6. \A k \in Connections : Done(conn'[k]) <=> Done(conn[k]) BY <2>4 DEF Done
  <2>7. fac.conns \subseteq Connections BY DEF AdapterTypes, FactoryType
  <2>8. A!FollowsFactory' BY <1>2, <2>2, <2>4, <2>7 DEF A!FollowsFactory
  <2>9. FactorySound' BY <1>2, <2>2, <2>4, <2>6, <2>7, <2>8 DEF FactorySound
  <2>10. FactoryAdvances
    BY <1>2, <2>1, <2>2, <2>4, <2>7 DEF FactoryAdvances, FactorySound, AdapterTypes
  <2> QED BY <2>5, <2>9, <2>10
<1> QED BY <1>1, <1>2

\* A step of a connection of the factory.
LEMMA ConnectionMoves ==
    ASSUME AdapterInv, NEW k \in Connections, NEW x \in ConnectionType, conn' = [conn EXCEPT ![k] = x],
           UNCHANGED <<oa, fac, thr, registered, activations, deactivated2>>,
           reaper' = IF Done(x) /\ k \in fac.conns THEN reaper \cup {k} ELSE reaper,
           k \in fac.conns \/ (Done(conn[k]) /\ Done(x)),
           Done(conn[k]) => Done(x),
           x.state = "none" => x.dispatch = FALSE /\ x.callback = FALSE,
           x.state = "active" => fac.state = "active",
           x.state = "holding" /\ x.callback = FALSE => fac.state # "active",
           x.dispatch = FALSE \/ conn[k].dispatch = TRUE \/ fac.state = "active"
    PROVE  AdapterInv'
<1>0. AdapterTypes /\ FactorySound BY DEF AdapterInv
<1>1. \A j \in Connections : conn'[j] = IF j = k THEN x ELSE conn[j] BY <1>0 DEF AdapterTypes
<1>2. fac.conns \subseteq Connections /\ reaper \subseteq Connections
  BY <1>0 DEF AdapterTypes, FactoryType
<1>3. FactoryTypes' BY <1>0, <1>2 DEF FactoryTypes, AdapterTypes
<1>4. reaper' = {j \in fac'.conns : Done(conn'[j])}
  BY <1>0, <1>1, <1>2 DEF FactorySound
<1>5. \A j \in Connections : j \notin fac'.conns => conn'[j].state = "none" \/ Done(conn'[j])
  BY <1>0, <1>1 DEF FactorySound, Done
<1>6. \A j \in Connections : conn'[j].state = "none" => conn'[j].dispatch = FALSE /\ conn'[j].callback = FALSE
  BY <1>0, <1>1 DEF FactorySound
<1>7. x.callback \in BOOLEAN BY DEF ConnectionType
<1>8. A!FollowsFactory' BY <1>0, <1>1, <1>2, <1>7 DEF FactorySound, A!FollowsFactory
<1>9. FactorySound' BY <1>0, <1>4, <1>5, <1>6, <1>8 DEF FactorySound
<1>10. FactoryAdvances BY <1>0, <1>1, <1>2 DEF FactoryAdvances, AdapterTypes
<1>11. AdapterAdvances BY DEF AdapterAdvances
<1> QED BY <1>0, <1>3, <1>9, <1>10, <1>11, ThreadsStay DEF AdapterTypes

\* What the invariant says about one connection.
LEMMA ConnectionEntry ==
    ASSUME AdapterInv, NEW k \in Connections
    PROVE  /\ conn[k] \in ConnectionType /\ (conn[k].dispatch = TRUE \/ conn[k].dispatch = FALSE)
           /\ conn[k].callback = TRUE \/ conn[k].callback = FALSE
           /\ k \notin fac.conns => conn[k].state = "none" \/ Done(conn[k])
           /\ conn[k].state = "none" => conn[k].dispatch = FALSE /\ conn[k].callback = FALSE
           /\ k \in fac.conns =>
                  /\ conn[k].state = "active" => fac.state = "active"
                  /\ conn[k].state = "holding" /\ conn[k].callback = FALSE => fac.state # "active"
           /\ Done(conn[k]) /\ k \in fac.conns => k \in reaper
BY DEF AdapterInv, AdapterTypes, FactorySound, A!FollowsFactory, ConnectionType

\* A connection is validated, and the factory is told later.
LEMMA StartSafe ==
    ASSUME AdapterInv, NEW k \in Connections, A!Start(k)
    PROVE  AdapterInv'
<1>0. AdapterInv BY DEF AdapterInv
<1>1. /\ conn[k] \in ConnectionType /\ (conn[k].dispatch = TRUE \/ conn[k].dispatch = FALSE)
      /\ conn[k].callback = TRUE \/ conn[k].callback = FALSE
      /\ k \notin fac.conns => conn[k].state = "none" \/ Done(conn[k])
      /\ conn[k].state = "none" => conn[k].dispatch = FALSE /\ conn[k].callback = FALSE
      /\ k \in fac.conns =>
             /\ conn[k].state = "active" => fac.state = "active"
             /\ conn[k].state = "holding" /\ conn[k].callback = FALSE => fac.state # "active"
      /\ Done(conn[k]) /\ k \in fac.conns => k \in reaper
  BY ConnectionEntry
<1>2. /\ UNCHANGED <<oa, fac, thr, registered, activations, deactivated2>>
      /\ conn[k].state = "starting" /\ reaper' = reaper
  BY DEF A!Start, A!history
<1> DEFINE x == [conn[k] EXCEPT !.state = "holding", !.callback = TRUE]
<1>3. conn' = [conn EXCEPT ![k] = x] BY <1>2 DEF AdapterInv, AdapterTypes, A!Start
<1>4. x \in ConnectionType BY <1>1 DEF ConnectionType, A!ConnStates
<1>5. x.state = "holding" /\ x.callback = TRUE /\ x.dispatch = conn[k].dispatch
  BY <1>1 DEF ConnectionType
<1> HIDE DEF x
<1>6. Done(x) <=> FALSE BY <1>1, <1>2, <1>5 DEF Done
<1>7. reaper' = IF Done(x) /\ k \in fac.conns THEN reaper \cup {k} ELSE reaper
  BY <1>0, <1>1, <1>2, <1>5, <1>6 DEF Done, A!Start
<1>8. k \in fac.conns \/ (Done(conn[k]) /\ Done(x))
  BY <1>1, <1>2, <1>5, <1>6, <1>7 DEF Done
<1>9. /\ Done(conn[k]) => Done(x)
      /\ x.state = "none" => x.dispatch = FALSE /\ x.callback = FALSE
      /\ x.state = "active" => fac.state = "active"
      /\ x.state = "holding" /\ x.callback = FALSE => fac.state # "active"
      /\ x.dispatch = FALSE \/ conn[k].dispatch = TRUE \/ fac.state = "active"
  BY <1>1, <1>2, <1>5, <1>6 DEF Done
<1> QED BY <1>2, <1>3, <1>4, <1>7, <1>8, <1>9, ConnectionMoves

\* Requests are dispatched by active connections.
LEMMA DispatchBeginSafe ==
    ASSUME AdapterInv, NEW k \in Connections, A!DispatchBegin(k)
    PROVE  AdapterInv'
<1>0. AdapterInv BY DEF AdapterInv
<1>1. /\ conn[k] \in ConnectionType /\ (conn[k].dispatch = TRUE \/ conn[k].dispatch = FALSE)
      /\ conn[k].callback = TRUE \/ conn[k].callback = FALSE
      /\ k \notin fac.conns => conn[k].state = "none" \/ Done(conn[k])
      /\ conn[k].state = "none" => conn[k].dispatch = FALSE /\ conn[k].callback = FALSE
      /\ k \in fac.conns =>
             /\ conn[k].state = "active" => fac.state = "active"
             /\ conn[k].state = "holding" /\ conn[k].callback = FALSE => fac.state # "active"
      /\ Done(conn[k]) /\ k \in fac.conns => k \in reaper
  BY ConnectionEntry
<1>2. /\ UNCHANGED <<oa, fac, thr, registered, activations, deactivated2>>
      /\ conn[k].state = "active" /\ reaper' = reaper
  BY DEF A!DispatchBegin, A!history
<1> DEFINE x == [conn[k] EXCEPT !.dispatch = TRUE]
<1>3. conn' = [conn EXCEPT ![k] = x] BY <1>2 DEF AdapterInv, AdapterTypes, A!DispatchBegin
<1>4. x \in ConnectionType BY <1>1 DEF ConnectionType, A!ConnStates
<1>5. x.state = conn[k].state /\ x.callback = conn[k].callback /\ x.dispatch = TRUE
  BY <1>1 DEF ConnectionType
<1> HIDE DEF x
<1>6. Done(x) <=> FALSE BY <1>1, <1>2, <1>5 DEF Done
<1>7. reaper' = IF Done(x) /\ k \in fac.conns THEN reaper \cup {k} ELSE reaper
  BY <1>0, <1>1, <1>2, <1>5, <1>6 DEF Done, A!DispatchBegin
<1>8. k \in fac.conns \/ (Done(conn[k]) /\ Done(x))
  BY <1>1, <1>2, <1>5, <1>6, <1>7 DEF Done
<1>9. /\ Done(conn[k]) => Done(x)
      /\ x.state = "none" => x.dispatch = FALSE /\ x.callback = FALSE
      /\ x.state = "active" => fac.state = "active"
      /\ x.state = "holding" /\ x.callback = FALSE => fac.state # "active"
      /\ x.dispatch = FALSE \/ conn[k].dispatch = TRUE \/ fac.state = "active"
  BY <1>1, <1>2, <1>5, <1>6 DEF Done
<1> QED BY <1>2, <1>3, <1>4, <1>7, <1>8, <1>9, ConnectionMoves

\* The last dispatch of a finished connection gives it to the reaper.
LEMMA DispatchEndSafe ==
    ASSUME AdapterInv, NEW k \in Connections, A!DispatchEnd(k)
    PROVE  AdapterInv'
<1>0. AdapterInv BY DEF AdapterInv
<1>1. /\ conn[k] \in ConnectionType /\ (conn[k].dispatch = TRUE \/ conn[k].dispatch = FALSE)
      /\ conn[k].callback = TRUE \/ conn[k].callback = FALSE
      /\ k \notin fac.conns => conn[k].state = "none" \/ Done(conn[k])
      /\ conn[k].state = "none" => conn[k].dispatch = FALSE /\ conn[k].callback = FALSE
      /\ k \in fac.conns =>
             /\ conn[k].state = "active" => fac.state = "active"
             /\ conn[k].state = "holding" /\ conn[k].callback = FALSE => fac.state # "active"
      /\ Done(conn[k]) /\ k \in fac.conns => k \in reaper
  BY ConnectionEntry
<1>2. /\ UNCHANGED <<oa, fac, thr, registered, activations, deactivated2>>
      /\ conn[k].dispatch = TRUE
      /\ reaper' = IF conn[k].state = "finished" THEN reaper \cup {k} ELSE reaper
  BY <1>1 DEF A!DispatchEnd, A!history
<1> DEFINE x == [conn[k] EXCEPT !.dispatch = FALSE]
<1>3. conn' = [conn EXCEPT ![k] = x] BY <1>2 DEF AdapterInv, AdapterTypes, A!DispatchEnd
<1>4. x \in ConnectionType BY <1>1 DEF ConnectionType, A!ConnStates
<1>5. x.state = conn[k].state /\ x.callback = conn[k].callback /\ x.dispatch = FALSE
  BY <1>1 DEF ConnectionType
<1> HIDE DEF x
<1>6. Done(x) <=> conn[k].state = "finished" BY <1>1, <1>2, <1>5 DEF Done
<1>7. reaper' = IF Done(x) /\ k \in fac.conns THEN reaper \cup {k} ELSE reaper
  BY <1>0, <1>1, <1>2, <1>5, <1>6 DEF Done, A!DispatchEnd
<1>8. k \in fac.conns \/ (Done(conn[k]) /\ Done(x))
  BY <1>1, <1>2, <1>5, <1>6, <1>7 DEF Done
<1>9. /\ Done(conn[k]) => Done(x)
      /\ x.state = "none" => x.dispatch = FALSE /\ x.callback = FALSE
      /\ x.state = "active" => fac.state = "active"
      /\ x.state = "holding" /\ x.callback = FALSE => fac.state # "active"
      /\ x.dispatch = FALSE \/ conn[k].dispatch = TRUE \/ fac.state = "active"
  BY <1>1, <1>2, <1>5, <1>6 DEF Done
<1> QED BY <1>2, <1>3, <1>4, <1>7, <1>8, <1>9, ConnectionMoves

\* A connection is closed.
LEMMA ConnectionClosesSafe ==
    ASSUME AdapterInv, NEW k \in Connections, A!ConnectionCloses(k)
    PROVE  AdapterInv'
<1>0. AdapterInv BY DEF AdapterInv
<1>1. /\ conn[k] \in ConnectionType /\ (conn[k].dispatch = TRUE \/ conn[k].dispatch = FALSE)
      /\ conn[k].callback = TRUE \/ conn[k].callback = FALSE
      /\ k \notin fac.conns => conn[k].state = "none" \/ Done(conn[k])
      /\ conn[k].state = "none" => conn[k].dispatch = FALSE /\ conn[k].callback = FALSE
      /\ k \in fac.conns =>
             /\ conn[k].state = "active" => fac.state = "active"
             /\ conn[k].state = "holding" /\ conn[k].callback = FALSE => fac.state # "active"
      /\ Done(conn[k]) /\ k \in fac.conns => k \in reaper
  BY ConnectionEntry
<1>2. /\ UNCHANGED <<oa, fac, thr, registered, activations, deactivated2>>
      /\ conn[k].state \in {"starting", "active", "holding"} /\ reaper' = reaper
  BY DEF A!ConnectionCloses, A!history
<1> DEFINE x == [conn[k] EXCEPT !.state = "closing"]
<1>3. conn' = [conn EXCEPT ![k] = x] BY <1>2 DEF AdapterInv, AdapterTypes, A!ConnectionCloses
<1>4. x \in ConnectionType BY <1>1 DEF ConnectionType, A!ConnStates
<1>5. x.state = "closing" /\ x.callback = conn[k].callback /\ x.dispatch = conn[k].dispatch
  BY <1>1 DEF ConnectionType
<1> HIDE DEF x
<1>6. Done(x) <=> FALSE BY <1>1, <1>2, <1>5 DEF Done
<1>7. reaper' = IF Done(x) /\ k \in fac.conns THEN reaper \cup {k} ELSE reaper
  BY <1>0, <1>1, <1>2, <1>5, <1>6 DEF Done, A!ConnectionCloses
<1>8. k \in fac.conns \/ (Done(conn[k]) /\ Done(x))
  BY <1>1, <1>2, <1>5, <1>6, <1>7 DEF Done
<1>9. /\ Done(conn[k]) => Done(x)
      /\ x.state = "none" => x.dispatch = FALSE /\ x.callback = FALSE
      /\ x.state = "active" => fac.state = "active"
      /\ x.state = "holding" /\ x.callback = FALSE => fac.state # "active"
      /\ x.dispatch = FALSE \/ conn[k].dispatch = TRUE \/ fac.state = "active"
  BY <1>1, <1>2, <1>5, <1>6 DEF Done
<1> QED BY <1>2, <1>3, <1>4, <1>7, <1>8, <1>9, ConnectionMoves

\* A finished connection is given to the reaper.
LEMMA ConnectionFinishesSafe ==
    ASSUME AdapterInv, NEW k \in Connections, A!ConnectionFinishes(k)
    PROVE  AdapterInv'
<1>0. AdapterInv BY DEF AdapterInv
<1>1. /\ conn[k] \in ConnectionType /\ (conn[k].dispatch = TRUE \/ conn[k].dispatch = FALSE)
      /\ conn[k].callback = TRUE \/ conn[k].callback = FALSE
      /\ k \notin fac.conns => conn[k].state = "none" \/ Done(conn[k])
      /\ conn[k].state = "none" => conn[k].dispatch = FALSE /\ conn[k].callback = FALSE
      /\ k \in fac.conns =>
             /\ conn[k].state = "active" => fac.state = "active"
             /\ conn[k].state = "holding" /\ conn[k].callback = FALSE => fac.state # "active"
      /\ Done(conn[k]) /\ k \in fac.conns => k \in reaper
  BY ConnectionEntry
<1>2. /\ UNCHANGED <<oa, fac, thr, registered, activations, deactivated2>>
      /\ conn[k].state = "closing"
      /\ reaper' = IF conn[k].dispatch THEN reaper ELSE reaper \cup {k}
  BY DEF A!ConnectionFinishes, A!history
<1> DEFINE x == [conn[k] EXCEPT !.state = "finished"]
<1>3. conn' = [conn EXCEPT ![k] = x] BY <1>2 DEF AdapterInv, AdapterTypes, A!ConnectionFinishes
<1>4. x \in ConnectionType BY <1>1 DEF ConnectionType, A!ConnStates
<1>5. x.state = "finished" /\ x.callback = conn[k].callback /\ x.dispatch = conn[k].dispatch
  BY <1>1 DEF ConnectionType
<1> HIDE DEF x
<1>6. Done(x) <=> conn[k].dispatch = FALSE BY <1>1, <1>2, <1>5 DEF Done
<1>7. reaper' = IF Done(x) /\ k \in fac.conns THEN reaper \cup {k} ELSE reaper
  BY <1>0, <1>1, <1>2, <1>5, <1>6 DEF Done, A!ConnectionFinishes
<1>8. k \in fac.conns \/ (Done(conn[k]) /\ Done(x))
  BY <1>1, <1>2, <1>5, <1>6, <1>7 DEF Done
<1>9. /\ Done(conn[k]) => Done(x)
      /\ x.state = "none" => x.dispatch = FALSE /\ x.callback = FALSE
      /\ x.state = "active" => fac.state = "active"
      /\ x.state = "holding" /\ x.callback = FALSE => fac.state # "active"
      /\ x.dispatch = FALSE \/ conn[k].dispatch = TRUE \/ fac.state = "active"
  BY <1>1, <1>2, <1>5, <1>6 DEF Done
<1> QED BY <1>2, <1>3, <1>4, <1>7, <1>8, <1>9, ConnectionMoves

\* connectionStartCompleted() looks at the state of the factory.
LEMMA StartCompletedSafe ==
    ASSUME AdapterInv, NEW k \in Connections, A!ConnectionStartCompleted(k)
    PROVE  AdapterInv'
<1>0. AdapterInv BY DEF AdapterInv
<1>1. /\ conn[k] \in ConnectionType /\ (conn[k].dispatch = TRUE \/ conn[k].dispatch = FALSE)
      /\ conn[k].callback = TRUE \/ conn[k].callback = FALSE
      /\ k \notin fac.conns => conn[k].state = "none" \/ Done(conn[k])
      /\ conn[k].state = "none" => conn[k].dispatch = FALSE /\ conn[k].callback = FALSE
      /\ k \in fac.conns =>
             /\ conn[k].state = "active" => fac.state = "active"
             /\ conn[k].state = "holding" /\ conn[k].callback = FALSE => fac.state # "active"
      /\ Done(conn[k]) /\ k \in fac.conns => k \in reaper
  BY ConnectionEntry
<1>2. /\ UNCHANGED <<oa, fac, thr, registered, activations, deactivated2>>
      /\ conn[k].callback /\ reaper' = reaper
  BY DEF A!ConnectionStartCompleted, A!history
<1> DEFINE x == [conn[k] EXCEPT !.callback = FALSE, !.state = IF fac.state = "active" /\ @ = "holding" THEN "active" ELSE @]
<1>3. conn' = [conn EXCEPT ![k] = x]
  BY <1>2 DEF AdapterInv, AdapterTypes, A!ConnectionStartCompleted
<1>4. x \in ConnectionType BY <1>1 DEF ConnectionType, A!ConnStates
<1>5. /\ x.callback = FALSE /\ x.dispatch = conn[k].dispatch
      /\ x.state = IF fac.state = "active" /\ conn[k].state = "holding" THEN "active" ELSE conn[k].state
  BY <1>1 DEF ConnectionType
<1> HIDE DEF x
<1>6. Done(x) <=> Done(conn[k]) BY <1>1, <1>2, <1>5 DEF Done
<1>7. reaper' = IF Done(x) /\ k \in fac.conns THEN reaper \cup {k} ELSE reaper
  BY <1>0, <1>1, <1>2, <1>5, <1>6 DEF Done, A!ConnectionStartCompleted
<1>8. k \in fac.conns \/ (Done(conn[k]) /\ Done(x))
  BY <1>1, <1>2, <1>5, <1>6, <1>7 DEF Done
<1>9. /\ Done(conn[k]) => Done(x)
      /\ x.state = "none" => x.dispatch = FALSE /\ x.callback = FALSE
      /\ x.state = "active" => fac.state = "active"
      /\ x.state = "holding" /\ x.callback = FALSE => fac.state # "active"
      /\ x.dispatch = FALSE \/ conn[k].dispatch = TRUE \/ fac.state = "active"
  BY <1>1, <1>2, <1>5, <1>6 DEF Done
<1> QED BY <1>2, <1>3, <1>4, <1>7, <1>8, <1>9, ConnectionMoves

\* message() reaps what is done and accepts a connection.
LEMMA AcceptSafe ==
    ASSUME AdapterInv, NEW k \in Connections, A!Accept(k)
    PROVE  AdapterInv'
<1>0. AdapterTypes /\ FactorySound BY DEF AdapterInv
<1>1. /\ UNCHANGED <<oa, thr, registered, activations, deactivated2>> /\ reaper' = {}
      /\ fac.state = "active" /\ conn[k].state = "none"
      /\ fac' = [fac EXCEPT !.conns = (@ \ reaper) \cup {k}]
      /\ conn' = [conn EXCEPT ![k].state = "starting"]
  BY DEF A!Accept, A!history
<1>2. /\ fac' \in FactoryType /\ fac'.conns = (fac.conns \ reaper) \cup {k}
      /\ fac'.state = fac.state /\ fac'.adapter = fac.adapter /\ fac.conns \subseteq Connections
      /\ fac.adapter = TRUE
  BY <1>0, <1>1 DEF AdapterTypes, FactoryType, FactorySound
<1>3. \A j \in Connections :
        /\ conn'[j] \in ConnectionType /\ conn'[j].dispatch = conn[j].dispatch
        /\ conn'[j].callback = conn[j].callback
        /\ conn'[j].state = IF j = k THEN "starting" ELSE conn[j].state
  BY <1>0, <1>1 DEF AdapterTypes, ConnectionType, A!ConnStates
<1>4. FactoryTypes' BY <1>0, <1>1, <1>2, <1>3 DEF FactoryTypes, AdapterTypes
<1>5. \A j \in Connections : j # k => (Done(conn'[j]) <=> Done(conn[j])) BY <1>3 DEF Done
<1>6. ~Done(conn'[k]) BY <1>3 DEF Done
<1>7. reaper' = {j \in fac'.conns : Done(conn'[j])}
  BY <1>0, <1>1, <1>2, <1>5, <1>6 DEF FactorySound
<1>8. \A j \in Connections : j \notin fac'.conns => conn'[j].state = "none" \/ Done(conn'[j])
  <2> SUFFICES ASSUME NEW j \in Connections, j \notin fac'.conns
               PROVE  conn'[j].state = "none" \/ Done(conn'[j])
    OBVIOUS
  <2>1. j # k /\ (j \notin fac.conns \/ j \in reaper) BY <1>2
  <2>2. conn'[j].state = conn[j].state BY <1>3, <2>1
  <2> QED BY <1>0, <1>5, <2>1, <2>2 DEF FactorySound
<1>9. \A j \in Connections : conn'[j].state = "none" => conn'[j].dispatch = FALSE /\ conn'[j].callback = FALSE
  BY <1>0, <1>3 DEF FactorySound
<1>10. A!FollowsFactory' BY <1>0, <1>2, <1>3 DEF FactorySound, A!FollowsFactory
<1>11. FactorySound' BY <1>2, <1>7, <1>8, <1>9, <1>10 DEF FactorySound
<1>12. FactoryAdvances BY <1>0, <1>1, <1>2 DEF FactoryAdvances, AdapterTypes
<1>13. AdapterAdvances BY <1>1 DEF AdapterAdvances
<1> QED BY <1>0, <1>1, <1>4, <1>11, <1>12, <1>13, ThreadsStay DEF AdapterTypes

\* A closed factory is finished.
LEMMA FactoryFinishedSafe ==
    ASSUME AdapterInv, A!FactoryFinished
    PROVE  AdapterInv'
<1>0. AdapterTypes /\ FactorySound BY DEF AdapterInv
<1>1. /\ UNCHANGED <<oa, conn, reaper, thr, registered, activations, deactivated2>>
      /\ fac.state = "closed" /\ fac' = [fac EXCEPT !.state = "finished"]
  BY DEF A!FactoryFinished, A!history, A!Connecting
<1>2. /\ fac' \in FactoryType /\ fac'.conns = fac.conns
      /\ fac'.state = "finished" /\ fac'.adapter = fac.adapter
  BY <1>0, <1>1 DEF AdapterTypes, FactoryType
<1>3. FactoryTypes' BY <1>0, <1>1, <1>2 DEF FactoryTypes, AdapterTypes
<1>4. FactorySound' BY <1>0, <1>1, <1>2 DEF FactorySound, A!FollowsFactory
<1>5. FactoryAdvances BY <1>0, <1>1, <1>2 DEF FactoryAdvances, AdapterTypes
<1>6. AdapterAdvances BY <1>1 DEF AdapterAdvances
<1> QED BY <1>0, <1>1, <1>3, <1>4, <1>5, <1>6, ThreadsStay DEF AdapterTypes

-----------------------------------------------------------------------------
(* The threads *)

\* Where a thread can be.
Places == {"idle", "register", "holdFactory", "holdConns", "holdRetry", "holdAgain",
           "destroyBegin", "deactivate", "unregister", "destroyFactory", "wait",
           "waitFactory", "waitConns", "waitReap", "servants", "direct", "crashed"}
\* Places where a thread relies on nothing.
Plain == {"idle", "register", "holdRetry", "holdAgain", "destroyBegin", "deactivate",
          "unregister", "destroyFactory", "wait", "direct", "crashed"}
\* The record of a thread that goes to p, see Goes.
GoesRec(x, p) == [x EXCEPT !.at = p, !.since = IF p = "idle" THEN 0 ELSE @]

\* Goes changes one thread.
LEMMA GoesIs ==
    ASSUME AdapterTypes, NEW t \in Threads, NEW p \in Places, A!Goes(t, p)
    PROVE  /\ thr' = [thr EXCEPT ![t] = GoesRec(thr[t], p)]
           /\ GoesRec(thr[t], p) \in ThreadType /\ GoesRec(thr[t], p).at = p
<1>1. thr[t] \in ThreadType BY DEF AdapterTypes
<1>2. thr' = [thr EXCEPT ![t] = GoesRec(thr[t], p)] BY DEF A!Goes, GoesRec, AdapterTypes
<1>5. (IF p = "idle" THEN 0 ELSE thr[t].since) \in 0 .. 2 BY <1>1 DEF ThreadType
<1>3. GoesRec(thr[t], p) \in ThreadType BY <1>1, <1>5 DEF GoesRec, ThreadType, Places
<1>4. GoesRec(thr[t], p).at = p BY <1>1 DEF GoesRec, ThreadType
<1> QED BY <1>2, <1>3, <1>4

\* A thread in a plain place relies on nothing.
LEMMA PlainSound ==
    ASSUME NEW r, r.at \in Plain, NEW a, NEW f, NEW c, NEW p, NEW n
    PROVE  ThreadSound(r, a, f, c, p, n) /\ ~AtHold(r)
BY DEF ThreadSound, Plain, Waited, Closed, AtHold

\* A thread goes to a plain place.
LEMMA GoesPlain ==
    ASSUME AdapterInv, NEW t \in Threads, NEW p \in Plain, A!Goes(t, p),
           oa' \in AdapterType, registered' \in BOOLEAN, deactivated2' \in BOOLEAN,
           FactoryTypes', FactorySound', AdapterAdvances, FactoryAdvances, oa'.servants = oa.servants,
           oa'.waitForHold = oa.waitForHold - Bit(AtHold(thr[t])),
           oa'.directCount = oa.directCount + Bit(p = "direct") - Bit(thr[t].at = "direct")
    PROVE  AdapterInv'
<1> DEFINE r == GoesRec(thr[t], p)
<1>1. thr' = [thr EXCEPT ![t] = r] /\ r \in ThreadType /\ r.at = p
  BY GoesIs DEF AdapterInv, Plain, Places
<1> HIDE DEF r
<1>2. ThreadSound(r, oa', fac', conn', reaper', activations') /\ ~AtHold(r) BY <1>1, PlainSound
<1>3. ServantsSound' BY ServantsKeep DEF AdapterInv
<1>4. oa.waitForHold \in Nat BY DEF AdapterInv, AdapterTypes, AdapterType
<1>5. Counted(r, thr[t]) BY <1>1, <1>2, <1>4 DEF Counted, Bit
<1> QED BY <1>1, <1>2, <1>3, <1>5, ThreadMoves

\* What the invariant says about one thread.
LEMMA AdapterEntry ==
    ASSUME AdapterInv, NEW t \in Threads
    PROVE  /\ AdapterTypes /\ FactorySound /\ ServantsSound /\ thr[t] \in ThreadType
           /\ ThreadSound(thr[t], oa, fac, conn, reaper, activations)
           /\ oa.waitForHold \in Nat /\ oa.directCount \in Nat
           /\ AtHold(thr[t]) => oa.waitForHold >= 1
           /\ thr[t].at = "direct" => oa.directCount >= 1
<1>1. /\ AdapterTypes /\ FactorySound /\ ServantsSound /\ thr[t] \in ThreadType
      /\ ThreadSound(thr[t], oa, fac, conn, reaper, activations)
      /\ oa.waitForHold \in Nat /\ oa.directCount \in Nat
  BY DEF AdapterInv, AdapterTypes, ThreadsSound, AdapterType
<1>2. IsFiniteSet(Holding) /\ IsFiniteSet(Direct)
  BY ThreadsAssumption, FS_Subset DEF Holding, Direct
<1>3. AtHold(thr[t]) => oa.waitForHold >= 1
  <2>1. AtHold(thr[t]) => Holding # {} BY DEF Holding
  <2>2. Cardinality(Holding) = 0 => Holding = {} BY <1>2, FS_EmptySet
  <2> QED BY <1>1, <2>1, <2>2 DEF AdapterInv, CountsExact
<1>4. thr[t].at = "direct" => oa.directCount >= 1
  <2>1. thr[t].at = "direct" => Direct # {} BY DEF Direct
  <2>2. Cardinality(Direct) = 0 => Direct = {} BY <1>2, FS_EmptySet
  <2> QED BY <1>1, <2>1, <2>2 DEF AdapterInv, CountsExact
<1> QED BY <1>1, <1>3, <1>4

\* Activate keeps the invariant.
LEMMA ActivateSafe ==
    ASSUME AdapterInv, NEW t \in Threads, A!Activate(t)
    PROVE  AdapterInv'
<1>0. /\ AdapterTypes /\ FactorySound /\ ServantsSound /\ thr[t] \in ThreadType
      /\ ThreadSound(thr[t], oa, fac, conn, reaper, activations)
      /\ oa.waitForHold \in Nat /\ oa.directCount \in Nat
      /\ AtHold(thr[t]) => oa.waitForHold >= 1
      /\ thr[t].at = "direct" => oa.directCount >= 1
  BY AdapterEntry
<1>a. /\ oa \in AdapterType /\ registered \in BOOLEAN /\ deactivated2 \in BOOLEAN
       /\ fac \in FactoryType
  BY <1>0 DEF AdapterTypes
<1>b. PICK w \in BOOLEAN : w = (oa.waitForHold > 0)
  <2>1. (oa.waitForHold > 0) \in BOOLEAN OBVIOUS
  <2> WITNESS (oa.waitForHold > 0) \in BOOLEAN
  <2> QED OBVIOUS
<1>1. /\ thr[t].at = "idle" /\ UNCHANGED <<reaper, registered, deactivated2>>
  BY DEF A!Activate
<1>2. CASE oa.oneOffDone
  <2>1. A!FactoryActivate /\ oa' = [oa EXCEPT !.retry = w] /\ UNCHANGED thr
    BY <1>2, <1>b DEF A!Activate
  <2>2. /\ oa' \in AdapterType /\ oa'.servants = oa.servants /\ oa'.waitForHold = oa.waitForHold
        /\ oa'.directCount = oa.directCount /\ oa'.deactivated = oa.deactivated
    BY <1>0, <1>a, <2>1 DEF AdapterType
  <2>3. FactoryTypes' /\ FactorySound' /\ FactoryAdvances BY <1>0, <1>1, <2>1, FactoryActivates
  <2>4. AdapterAdvances BY <2>2 DEF AdapterAdvances
  <2> QED BY <1>1, <1>a, <2>1, <2>2, <2>3, <2>4, ThreadsStay
<1>3. CASE ~oa.oneOffDone
  <2>1. /\ oa' = [oa EXCEPT !.retry = w, !.waitForActivate = TRUE]
        /\ A!Goes(t, "register") /\ UNCHANGED <<fac, conn, activations>>
    BY <1>3, <1>b DEF A!Activate
  <2>2. /\ oa' \in AdapterType /\ oa'.servants = oa.servants /\ oa'.waitForHold = oa.waitForHold
        /\ oa'.directCount = oa.directCount /\ oa'.deactivated = oa.deactivated
    BY <1>0, <1>a, <2>1 DEF AdapterType
  <2>3. FactoryTypes' /\ FactorySound' /\ FactoryAdvances BY <1>0, <1>1, <2>1, FactoryStays
  <2>4. AdapterAdvances BY <2>2 DEF AdapterAdvances
  <2>5. ~AtHold(thr[t]) BY <1>1 DEF AtHold
  <2>6. /\ oa'.waitForHold = oa.waitForHold - Bit(AtHold(thr[t]))
        /\ oa'.directCount = oa.directCount + Bit("register" = "direct") - Bit(thr[t].at = "direct")
    BY <1>0, <1>1, <2>2, <2>5 DEF Bit
  <2>7. "register" \in Plain BY DEF Plain
  <2> QED BY <1>1, <1>a, <2>1, <2>2, <2>3, <2>4, <2>6, <2>7, GoesPlain
<1> QED BY <1>2, <1>3

\* ActivateEnd keeps the invariant.
LEMMA ActivateEndSafe ==
    ASSUME AdapterInv, NEW t \in Threads, A!ActivateEnd(t)
    PROVE  AdapterInv'
<1>0. /\ AdapterTypes /\ FactorySound /\ ServantsSound /\ thr[t] \in ThreadType
      /\ ThreadSound(thr[t], oa, fac, conn, reaper, activations)
      /\ oa.waitForHold \in Nat /\ oa.directCount \in Nat
      /\ AtHold(thr[t]) => oa.waitForHold >= 1
      /\ thr[t].at = "direct" => oa.directCount >= 1
  BY AdapterEntry
<1>a. /\ oa \in AdapterType /\ registered \in BOOLEAN /\ deactivated2 \in BOOLEAN
       /\ fac \in FactoryType
  BY <1>0 DEF AdapterTypes
<1>1. /\ thr[t].at = "register" /\ UNCHANGED <<reaper, deactivated2>> /\ A!Goes(t, "idle")
      /\ registered' \in BOOLEAN
  BY <1>a DEF A!ActivateEnd
<1>2. CASE /\ oa' = [oa EXCEPT !.waitForActivate = FALSE, !.oneOffDone = TRUE]
          /\ A!FactoryActivate
  <2>1. /\ oa' \in AdapterType /\ oa'.servants = oa.servants /\ oa'.waitForHold = oa.waitForHold
        /\ oa'.directCount = oa.directCount /\ oa'.deactivated = oa.deactivated
    BY <1>0, <1>a, <1>2 DEF AdapterType
  <2>2. FactoryTypes' /\ FactorySound' /\ FactoryAdvances BY <1>0, <1>1, <1>2, FactoryActivates
  <2>3. AdapterAdvances BY <2>1 DEF AdapterAdvances
  <2>4. ~AtHold(thr[t]) /\ thr[t].at # "direct" BY <1>1 DEF AtHold
  <2>5. /\ oa'.waitForHold = oa.waitForHold - Bit(AtHold(thr[t]))
        /\ oa'.directCount = oa.directCount + Bit("idle" = "direct") - Bit(thr[t].at = "direct")
    BY <1>0, <1>2, <2>1, <2>4 DEF Bit
  <2>6. "idle" \in Plain BY <1>2 DEF Plain
  <2> QED BY <1>1, <1>a, <1>2, <2>1, <2>2, <2>3, <2>5, <2>6, GoesPlain
<1>3. CASE /\ oa' = [oa EXCEPT !.waitForActivate = FALSE]
          /\ UNCHANGED <<fac, conn, activations>>
  <2>1. /\ oa' \in AdapterType /\ oa'.servants = oa.servants /\ oa'.waitForHold = oa.waitForHold
        /\ oa'.directCount = oa.directCount /\ oa'.deactivated = oa.deactivated
    BY <1>0, <1>a, <1>3 DEF AdapterType
  <2>2. FactoryTypes' /\ FactorySound' /\ FactoryAdvances BY <1>0, <1>1, <1>3, FactoryStays
  <2>3. AdapterAdvances BY <2>1 DEF AdapterAdvances
  <2>4. ~AtHold(thr[t]) /\ thr[t].at # "direct" BY <1>1 DEF AtHold
  <2>5. /\ oa'.waitForHold = oa.waitForHold - Bit(AtHold(thr[t]))
        /\ oa'.directCount = oa.directCount + Bit("idle" = "direct") - Bit(thr[t].at = "direct")
    BY <1>0, <1>3, <2>1, <2>4 DEF Bit
  <2>6. "idle" \in Plain BY <1>3 DEF Plain
  <2> QED BY <1>1, <1>a, <1>3, <2>1, <2>2, <2>3, <2>5, <2>6, GoesPlain
<1> QED BY <1>2, <1>3 DEF A!ActivateEnd

\* Hold keeps the invariant.
LEMMA HoldSafe ==
    ASSUME AdapterInv, NEW t \in Threads, A!Hold(t)
    PROVE  AdapterInv'
<1>0. /\ AdapterTypes /\ FactorySound /\ ServantsSound /\ thr[t] \in ThreadType
      /\ ThreadSound(thr[t], oa, fac, conn, reaper, activations)
      /\ oa.waitForHold \in Nat /\ oa.directCount \in Nat
      /\ AtHold(thr[t]) => oa.waitForHold >= 1
      /\ thr[t].at = "direct" => oa.directCount >= 1
  BY AdapterEntry
<1>a. /\ oa \in AdapterType /\ registered \in BOOLEAN /\ deactivated2 \in BOOLEAN
       /\ fac \in FactoryType
  BY <1>0 DEF AdapterTypes
<1>1. A!FactoryHold /\ UNCHANGED <<oa, reaper, thr, registered, activations, deactivated2>>
  BY DEF A!Hold, A!history
<1>2. FactoryTypes' /\ FactorySound' /\ FactoryAdvances BY <1>0, <1>1, FactoryHolds
<1>3. AdapterAdvances BY <1>1 DEF AdapterAdvances
<1> QED BY <1>1, <1>a, <1>2, <1>3, ThreadsStay

\* WaitForHold keeps the invariant.
LEMMA WaitForHoldSafe ==
    ASSUME AdapterInv, NEW t \in Threads, A!WaitForHold(t)
    PROVE  AdapterInv'
<1>0. /\ AdapterTypes /\ FactorySound /\ ServantsSound /\ thr[t] \in ThreadType
      /\ ThreadSound(thr[t], oa, fac, conn, reaper, activations)
      /\ oa.waitForHold \in Nat /\ oa.directCount \in Nat
      /\ AtHold(thr[t]) => oa.waitForHold >= 1
      /\ thr[t].at = "direct" => oa.directCount >= 1
  BY AdapterEntry
<1>a. /\ oa \in AdapterType /\ registered \in BOOLEAN /\ deactivated2 \in BOOLEAN
       /\ fac \in FactoryType
  BY <1>0 DEF AdapterTypes
<1>1. /\ thr[t].at \in {"idle", "holdAgain"} /\ A!HoldRound(t)
      /\ UNCHANGED <<fac, conn, reaper, registered, activations, deactivated2>>
  BY DEF A!WaitForHold, A!Connecting, A!history
<1>2. CASE oa.deactivated
  <2>1. A!Goes(t, "idle") /\ UNCHANGED oa BY <1>1, <1>2 DEF A!HoldRound
  <2>2. /\ oa' \in AdapterType /\ oa'.servants = oa.servants /\ oa'.waitForHold = oa.waitForHold
        /\ oa'.directCount = oa.directCount /\ oa'.deactivated = oa.deactivated
    BY <1>0, <1>a, <2>1 DEF AdapterType
  <2>3. FactoryTypes' /\ FactorySound' /\ FactoryAdvances BY <1>0, <1>1, FactoryStays
  <2>4. AdapterAdvances BY <2>2 DEF AdapterAdvances
  <2>5. ~AtHold(thr[t]) /\ thr[t].at # "direct" BY <1>1 DEF AtHold
  <2>6. /\ oa'.waitForHold = oa.waitForHold - Bit(AtHold(thr[t]))
        /\ oa'.directCount = oa.directCount + Bit("idle" = "direct") - Bit(thr[t].at = "direct")
    BY <1>0, <2>1, <2>2, <2>5 DEF Bit
  <2>7. "idle" \in Plain BY <2>1 DEF Plain
  <2> QED BY <1>1, <1>a, <2>1, <2>2, <2>3, <2>4, <2>6, <2>7, GoesPlain
<1>3. CASE ~oa.deactivated
  <2> DEFINE r == [thr[t] EXCEPT !.at = "holdFactory", !.since = activations]
  <2>1. /\ oa' = [oa EXCEPT !.waitForHold = @ + 1] /\ thr' = [thr EXCEPT ![t] = r]
    BY <1>0, <1>1, <1>3 DEF A!HoldRound, AdapterTypes
  <2>2. /\ oa' \in AdapterType /\ oa'.servants = oa.servants /\ oa'.waitForHold = oa.waitForHold + 1
        /\ oa'.directCount = oa.directCount /\ oa'.deactivated = oa.deactivated
    BY <1>0, <1>a, <2>1 DEF AdapterType
  <2>3. FactoryTypes' /\ FactorySound' /\ FactoryAdvances BY <1>0, <1>1, FactoryStays
  <2>4. AdapterAdvances BY <2>2 DEF AdapterAdvances
  <2>5. r \in ThreadType BY <1>0 DEF ThreadType, AdapterTypes
  <2>6. r.at = "holdFactory" /\ r.since = activations BY <1>0 DEF ThreadType
  <2> HIDE DEF r
  <2>7. ThreadSound(r, oa', fac', conn', reaper', activations')
    BY <1>0, <1>1, <2>6 DEF ThreadSound, AtHold, Waited, Closed, AdapterTypes
  <2>8. ServantsSound' BY <1>0, <2>2, <2>3, <2>4, ServantsKeep
  <2>9. Counted(r, thr[t]) BY <1>0, <1>1, <2>2, <2>6 DEF Counted, Bit, AtHold
  <2> QED BY <1>1, <1>a, <2>1, <2>2, <2>3, <2>4, <2>5, <2>7, <2>8, <2>9, ThreadMoves
<1> QED BY <1>2, <1>3

\* WaitHoldingFactory keeps the invariant.
LEMMA WaitHoldingFactorySafe ==
    ASSUME AdapterInv, NEW t \in Threads, A!WaitHoldingFactory(t)
    PROVE  AdapterInv'
<1>0. /\ AdapterTypes /\ FactorySound /\ ServantsSound /\ thr[t] \in ThreadType
      /\ ThreadSound(thr[t], oa, fac, conn, reaper, activations)
      /\ oa.waitForHold \in Nat /\ oa.directCount \in Nat
      /\ AtHold(thr[t]) => oa.waitForHold >= 1
      /\ thr[t].at = "direct" => oa.directCount >= 1
  BY AdapterEntry
<1>a. /\ oa \in AdapterType /\ registered \in BOOLEAN /\ deactivated2 \in BOOLEAN
       /\ fac \in FactoryType
  BY <1>0 DEF AdapterTypes
<1> DEFINE r == [thr[t] EXCEPT !.at = "holdConns", !.conns = fac.conns]
<1>1. /\ thr[t].at = "holdFactory" /\ fac.state # "active" /\ UNCHANGED oa
      /\ UNCHANGED <<fac, conn, reaper, registered, activations, deactivated2>>
  BY DEF A!WaitHoldingFactory, A!Connecting, A!history
<1>4. thr' = [thr EXCEPT ![t] = r] BY <1>0 DEF A!WaitHoldingFactory, AdapterTypes
<1>2. /\ oa' = oa /\ AdapterAdvances BY <1>1 DEF AdapterAdvances
<1>3. FactoryTypes' /\ FactorySound' /\ FactoryAdvances BY <1>0, <1>1, FactoryStays
<1>6. r \in ThreadType BY <1>0, <1>a DEF ThreadType, FactoryType
<1>5. r.at = "holdConns" /\ r.since = thr[t].since /\ r.conns = fac.conns BY <1>0 DEF ThreadType
<1> HIDE DEF r
<1>7. ThreadSound(r, oa', fac', conn', reaper', activations')
  BY <1>0, <1>1, <1>5 DEF ThreadSound, AtHold, Waited, Closed
<1>8. ServantsSound' BY <1>0, <1>2, <1>3, ServantsKeep
<1>9. Counted(r, thr[t]) BY <1>0, <1>1, <1>2, <1>5 DEF Counted, Bit, AtHold
<1> QED BY <1>1, <1>a, <1>2, <1>3, <1>4, <1>6, <1>7, <1>8, <1>9, ThreadMoves

\* WaitHoldingConnection keeps the invariant.
LEMMA WaitHoldingConnectionSafe ==
    ASSUME AdapterInv, NEW t \in Threads, A!WaitHoldingConnection(t)
    PROVE  AdapterInv'
<1>0. /\ AdapterTypes /\ FactorySound /\ ServantsSound /\ thr[t] \in ThreadType
      /\ ThreadSound(thr[t], oa, fac, conn, reaper, activations)
      /\ oa.waitForHold \in Nat /\ oa.directCount \in Nat
      /\ AtHold(thr[t]) => oa.waitForHold >= 1
      /\ thr[t].at = "direct" => oa.directCount >= 1
  BY AdapterEntry
<1>a. /\ oa \in AdapterType /\ registered \in BOOLEAN /\ deactivated2 \in BOOLEAN
       /\ fac \in FactoryType
  BY <1>0 DEF AdapterTypes
<1>1. /\ thr[t].at = "holdConns" /\ UNCHANGED oa
      /\ UNCHANGED <<fac, conn, reaper, registered, activations, deactivated2>>
  BY DEF A!WaitHoldingConnection, A!Connecting, A!history
<1>x. PICK k \in thr[t].conns : /\ conn[k].state \in {"holding", "closing", "finished"} /\ ~conn[k].dispatch
                               /\ thr' = [thr EXCEPT ![t].conns = @ \ {k}]
  BY DEF A!WaitHoldingConnection
<1> DEFINE r == [thr[t] EXCEPT !.conns = @ \ {k}]
<1>y. conn[k].dispatch = FALSE BY <1>0, <1>x DEF AdapterTypes, ThreadType, ConnectionType
<1>4. thr' = [thr EXCEPT ![t] = r] BY <1>0, <1>x DEF AdapterTypes
<1>2. /\ oa' = oa /\ AdapterAdvances BY <1>1 DEF AdapterAdvances
<1>3. FactoryTypes' /\ FactorySound' /\ FactoryAdvances BY <1>0, <1>1, FactoryStays
<1>6. r \in ThreadType BY <1>0, <1>a DEF ThreadType
<1>5. r.at = "holdConns" /\ r.since = thr[t].since /\ r.conns = thr[t].conns \ {k}
  BY <1>0, <1>1 DEF ThreadType
<1> HIDE DEF r
<1>7. ThreadSound(r, oa', fac', conn', reaper', activations')
  BY <1>0, <1>1, <1>5, <1>y DEF ThreadSound, AtHold, Waited, Closed
<1>8. ServantsSound' BY <1>0, <1>2, <1>3, ServantsKeep
<1>9. Counted(r, thr[t]) BY <1>0, <1>1, <1>2, <1>5 DEF Counted, Bit, AtHold
<1> QED BY <1>1, <1>a, <1>2, <1>3, <1>4, <1>6, <1>7, <1>8, <1>9, ThreadMoves

\* WaitForHoldEnd keeps the invariant.
LEMMA WaitForHoldEndSafe ==
    ASSUME AdapterInv, NEW t \in Threads, A!WaitForHoldEnd(t)
    PROVE  AdapterInv'
<1>0. /\ AdapterTypes /\ FactorySound /\ ServantsSound /\ thr[t] \in ThreadType
      /\ ThreadSound(thr[t], oa, fac, conn, reaper, activations)
      /\ oa.waitForHold \in Nat /\ oa.directCount \in Nat
      /\ AtHold(thr[t]) => oa.waitForHold >= 1
      /\ thr[t].at = "direct" => oa.directCount >= 1
  BY AdapterEntry
<1>a. /\ oa \in AdapterType /\ registered \in BOOLEAN /\ deactivated2 \in BOOLEAN
       /\ fac \in FactoryType
  BY <1>0 DEF AdapterTypes
<1>1. /\ thr[t].at = "holdConns" /\ UNCHANGED <<fac, conn, reaper, registered, activations, deactivated2>>
      /\ oa' = [oa EXCEPT !.waitForHold = @ - 1, !.retry = @ /\ ~(oa.waitForHold = 1)]
  BY DEF A!WaitForHoldEnd, A!Connecting, A!history
<1> DEFINE p == CASE ~oa.retry                      -> "idle"
                  [] oa.retry /\ oa.waitForHold = 1  -> "holdAgain"
                  [] oa.retry /\ ~(oa.waitForHold = 1) -> "holdRetry"
<1>2. A!Goes(t, p) BY DEF A!WaitForHoldEnd
<1>3. p \in {"idle", "holdAgain", "holdRetry"} OBVIOUS
<1> HIDE DEF p
<1>4. AtHold(thr[t]) /\ thr[t].at # "direct" BY <1>1 DEF AtHold
<1>5. /\ oa' \in AdapterType /\ oa'.servants = oa.servants /\ oa'.waitForHold = oa.waitForHold - 1
      /\ oa'.directCount = oa.directCount /\ oa'.deactivated = oa.deactivated
  <2>1. oa.waitForHold - 1 \in Nat BY <1>0, <1>4
  <2> QED BY <1>a, <1>1, <2>1 DEF AdapterType
<1>6. FactoryTypes' /\ FactorySound' /\ FactoryAdvances BY <1>0, <1>1, FactoryStays
<1>7. AdapterAdvances BY <1>5 DEF AdapterAdvances
<1>8. /\ oa'.waitForHold = oa.waitForHold - Bit(AtHold(thr[t]))
      /\ oa'.directCount = oa.directCount + Bit(p = "direct") - Bit(thr[t].at = "direct")
  BY <1>0, <1>3, <1>4, <1>5 DEF Bit
<1>9. p \in Plain BY <1>3 DEF Plain
<1> QED BY <1>1, <1>2, <1>a, <1>5, <1>6, <1>7, <1>8, <1>9, GoesPlain

\* WaitForHoldRetry keeps the invariant.
LEMMA WaitForHoldRetrySafe ==
    ASSUME AdapterInv, NEW t \in Threads, A!WaitForHoldRetry(t)
    PROVE  AdapterInv'
<1>0. /\ AdapterTypes /\ FactorySound /\ ServantsSound /\ thr[t] \in ThreadType
      /\ ThreadSound(thr[t], oa, fac, conn, reaper, activations)
      /\ oa.waitForHold \in Nat /\ oa.directCount \in Nat
      /\ AtHold(thr[t]) => oa.waitForHold >= 1
      /\ thr[t].at = "direct" => oa.directCount >= 1
  BY AdapterEntry
<1>a. /\ oa \in AdapterType /\ registered \in BOOLEAN /\ deactivated2 \in BOOLEAN
       /\ fac \in FactoryType
  BY <1>0 DEF AdapterTypes
<1>1. /\ thr[t].at = "holdRetry" /\ UNCHANGED <<fac, conn, reaper, registered, activations, deactivated2>>
  BY DEF A!WaitForHoldRetry, A!Connecting, A!history
<1>2. CASE oa' = [oa EXCEPT !.retry = FALSE] /\ A!Goes(t, "holdAgain")
  <2>1. /\ oa' \in AdapterType /\ oa'.servants = oa.servants /\ oa'.waitForHold = oa.waitForHold
        /\ oa'.directCount = oa.directCount /\ oa'.deactivated = oa.deactivated
    BY <1>0, <1>a, <1>2 DEF AdapterType
  <2>2. FactoryTypes' /\ FactorySound' /\ FactoryAdvances BY <1>0, <1>1, FactoryStays
  <2>3. AdapterAdvances BY <2>1 DEF AdapterAdvances
  <2>4. ~AtHold(thr[t]) /\ thr[t].at # "direct" BY <1>1 DEF AtHold
  <2>5. /\ oa'.waitForHold = oa.waitForHold - Bit(AtHold(thr[t]))
        /\ oa'.directCount = oa.directCount + Bit("holdAgain" = "direct") - Bit(thr[t].at = "direct")
    BY <1>0, <1>2, <2>1, <2>4 DEF Bit
  <2>6. "holdAgain" \in Plain BY <1>2 DEF Plain
  <2> QED BY <1>1, <1>a, <1>2, <2>1, <2>2, <2>3, <2>5, <2>6, GoesPlain
<1>3. CASE A!Goes(t, "idle") /\ UNCHANGED oa
  <2>1. /\ oa' \in AdapterType /\ oa'.servants = oa.servants /\ oa'.waitForHold = oa.waitForHold
        /\ oa'.directCount = oa.directCount /\ oa'.deactivated = oa.deactivated
    BY <1>0, <1>a, <1>3 DEF AdapterType
  <2>2. FactoryTypes' /\ FactorySound' /\ FactoryAdvances BY <1>0, <1>1, FactoryStays
  <2>3. AdapterAdvances BY <2>1 DEF AdapterAdvances
  <2>4. ~AtHold(thr[t]) /\ thr[t].at # "direct" BY <1>1 DEF AtHold
  <2>5. /\ oa'.waitForHold = oa.waitForHold - Bit(AtHold(thr[t]))
        /\ oa'.directCount = oa.directCount + Bit("idle" = "direct") - Bit(thr[t].at = "direct")
    BY <1>0, <1>3, <2>1, <2>4 DEF Bit
  <2>6. "idle" \in Plain BY <1>3 DEF Plain
  <2> QED BY <1>1, <1>a, <1>3, <2>1, <2>2, <2>3, <2>5, <2>6, GoesPlain
<1> QED BY <1>2, <1>3 DEF A!WaitForHoldRetry

\* The adapter is deactivated, perhaps once more.
LEMMA SetDeactivatedSafe ==
    ASSUME AdapterInv, NEW t \in Threads, A!SetDeactivated(t), thr[t].at \in Plain, thr[t].at # "direct",
           UNCHANGED <<fac, conn, reaper, registered, activations>>
    PROVE  AdapterInv'
<1>0. /\ AdapterTypes /\ FactorySound /\ ServantsSound /\ thr[t] \in ThreadType
      /\ ThreadSound(thr[t], oa, fac, conn, reaper, activations)
      /\ oa.waitForHold \in Nat /\ oa.directCount \in Nat
      /\ AtHold(thr[t]) => oa.waitForHold >= 1
      /\ thr[t].at = "direct" => oa.directCount >= 1
  BY AdapterEntry
<1>a. /\ oa \in AdapterType /\ registered \in BOOLEAN /\ deactivated2 \in BOOLEAN
       /\ fac \in FactoryType
  BY <1>0 DEF AdapterTypes
<1>1. ~AtHold(thr[t]) BY DEF AtHold, Plain
<1>2. FactoryTypes' /\ FactorySound' /\ FactoryAdvances BY <1>0, FactoryStays
<1>3. CASE oa.destroyed
  <2>1. A!Goes(t, "crashed") /\ UNCHANGED <<oa, deactivated2>> BY <1>3 DEF A!SetDeactivated
  <2>2. AdapterAdvances BY <2>1 DEF AdapterAdvances
  <2>3. "crashed" \in Plain BY DEF Plain
  <2>4. /\ oa'.waitForHold = oa.waitForHold - Bit(AtHold(thr[t]))
        /\ oa'.directCount = oa.directCount + Bit("crashed" = "direct") - Bit(thr[t].at = "direct")
    BY <1>0, <1>1, <2>1 DEF Bit
  <2> QED BY <1>a, <1>2, <2>1, <2>2, <2>3, <2>4, GoesPlain
<1>4. CASE ~oa.destroyed
  <2>1. /\ oa' = [oa EXCEPT !.deactivated = TRUE] /\ deactivated2' = (deactivated2 \/ oa.deactivated)
        /\ A!Goes(t, "unregister")
    BY <1>4 DEF A!SetDeactivated
  <2>2. /\ oa' \in AdapterType /\ oa'.servants = oa.servants /\ oa'.waitForHold = oa.waitForHold
        /\ oa'.directCount = oa.directCount /\ oa'.deactivated = TRUE /\ deactivated2' \in BOOLEAN
    BY <1>a, <2>1 DEF AdapterType
  <2>3. AdapterAdvances BY <2>2 DEF AdapterAdvances
  <2>4. "unregister" \in Plain BY DEF Plain
  <2>5. /\ oa'.waitForHold = oa.waitForHold - Bit(AtHold(thr[t]))
        /\ oa'.directCount = oa.directCount + Bit("unregister" = "direct") - Bit(thr[t].at = "direct")
    BY <1>0, <1>1, <2>2 DEF Bit
  <2> QED BY <1>a, <1>2, <2>1, <2>2, <2>3, <2>4, <2>5, GoesPlain
<1> QED BY <1>3, <1>4

\* Deactivate keeps the invariant.
LEMMA DeactivateSafe ==
    ASSUME AdapterInv, NEW t \in Threads, A!Deactivate(t)
    PROVE  AdapterInv'
<1>0. /\ AdapterTypes /\ FactorySound /\ ServantsSound /\ thr[t] \in ThreadType
      /\ ThreadSound(thr[t], oa, fac, conn, reaper, activations)
      /\ oa.waitForHold \in Nat /\ oa.directCount \in Nat
      /\ AtHold(thr[t]) => oa.waitForHold >= 1
      /\ thr[t].at = "direct" => oa.directCount >= 1
  BY AdapterEntry
<1>a. /\ oa \in AdapterType /\ registered \in BOOLEAN /\ deactivated2 \in BOOLEAN
       /\ fac \in FactoryType
  BY <1>0 DEF AdapterTypes
<1>1. /\ thr[t].at \in {"idle", "destroyBegin"} /\ UNCHANGED <<fac, conn, reaper, registered, activations>>
  BY DEF A!Deactivate, A!Connecting
<1>2. CASE oa.deactivated \/ oa.waitForActivate
  <2> DEFINE p == IF oa.deactivated THEN "wait" ELSE "deactivate"
  <2>1. A!Goes(t, p) /\ UNCHANGED <<oa, deactivated2>> BY <1>2 DEF A!Deactivate
  <2>x. p \in {"wait", "deactivate"} OBVIOUS
  <2> HIDE DEF p
  <2>2. /\ oa' \in AdapterType /\ oa'.servants = oa.servants /\ oa'.waitForHold = oa.waitForHold
        /\ oa'.directCount = oa.directCount /\ oa'.deactivated = oa.deactivated
    BY <1>0, <1>a, <2>1 DEF AdapterType
  <2>3. FactoryTypes' /\ FactorySound' /\ FactoryAdvances BY <1>0, <1>1, <2>1, FactoryStays
  <2>4. AdapterAdvances BY <2>2 DEF AdapterAdvances
  <2>5. ~AtHold(thr[t]) /\ thr[t].at # "direct" BY <1>1 DEF AtHold
  <2>6. /\ oa'.waitForHold = oa.waitForHold - Bit(AtHold(thr[t]))
        /\ oa'.directCount = oa.directCount + Bit(p = "direct") - Bit(thr[t].at = "direct")
    BY <1>0, <2>1, <2>x, <2>2, <2>5 DEF Bit
  <2>7. p \in Plain BY <2>1, <2>x DEF Plain
  <2> QED BY <1>1, <1>a, <2>1, <2>x, <2>2, <2>3, <2>4, <2>6, <2>7, GoesPlain
<1>3. CASE ~(oa.deactivated \/ oa.waitForActivate)
  <2>1. A!SetDeactivated(t) BY <1>3 DEF A!Deactivate
  <2>2. thr[t].at \in Plain /\ thr[t].at # "direct" BY <1>1 DEF Plain
  <2> QED BY <1>1, <2>1, <2>2, SetDeactivatedSafe
<1> QED BY <1>2, <1>3

\* DeactivateWaited keeps the invariant.
LEMMA DeactivateWaitedSafe ==
    ASSUME AdapterInv, NEW t \in Threads, A!DeactivateWaited(t)
    PROVE  AdapterInv'
<1>0. /\ AdapterTypes /\ FactorySound /\ ServantsSound /\ thr[t] \in ThreadType
      /\ ThreadSound(thr[t], oa, fac, conn, reaper, activations)
      /\ oa.waitForHold \in Nat /\ oa.directCount \in Nat
      /\ AtHold(thr[t]) => oa.waitForHold >= 1
      /\ thr[t].at = "direct" => oa.directCount >= 1
  BY AdapterEntry
<1>a. /\ oa \in AdapterType /\ registered \in BOOLEAN /\ deactivated2 \in BOOLEAN
       /\ fac \in FactoryType
  BY <1>0 DEF AdapterTypes
<1>1. /\ thr[t].at = "deactivate" /\ UNCHANGED <<fac, conn, reaper, registered, activations>>
      /\ A!SetDeactivated(t)
  BY DEF A!DeactivateWaited, A!Connecting
<1>2. thr[t].at \in Plain /\ thr[t].at # "direct" BY <1>1 DEF Plain
<1> QED BY <1>1, <1>2, SetDeactivatedSafe

\* Unregister keeps the invariant.
LEMMA UnregisterSafe ==
    ASSUME AdapterInv, NEW t \in Threads, A!Unregister(t)
    PROVE  AdapterInv'
<1>0. /\ AdapterTypes /\ FactorySound /\ ServantsSound /\ thr[t] \in ThreadType
      /\ ThreadSound(thr[t], oa, fac, conn, reaper, activations)
      /\ oa.waitForHold \in Nat /\ oa.directCount \in Nat
      /\ AtHold(thr[t]) => oa.waitForHold >= 1
      /\ thr[t].at = "direct" => oa.directCount >= 1
  BY AdapterEntry
<1>a. /\ oa \in AdapterType /\ registered \in BOOLEAN /\ deactivated2 \in BOOLEAN
       /\ fac \in FactoryType
  BY <1>0 DEF AdapterTypes
<1>1. /\ thr[t].at = "unregister" /\ A!Goes(t, "destroyFactory") /\ registered' \in BOOLEAN
      /\ UNCHANGED <<oa, fac, conn, reaper, activations, deactivated2>>
  BY <1>a DEF A!Unregister, A!Connecting, A!history
<1>2. /\ oa' \in AdapterType /\ oa'.servants = oa.servants /\ oa'.waitForHold = oa.waitForHold
      /\ oa'.directCount = oa.directCount /\ oa'.deactivated = oa.deactivated
  BY <1>0, <1>a, <1>1 DEF AdapterType
<1>3. FactoryTypes' /\ FactorySound' /\ FactoryAdvances BY <1>0, <1>1, FactoryStays
<1>4. AdapterAdvances BY <1>2 DEF AdapterAdvances
<1>5. ~AtHold(thr[t]) /\ thr[t].at # "direct" BY <1>1 DEF AtHold
<1>6. /\ oa'.waitForHold = oa.waitForHold - Bit(AtHold(thr[t]))
      /\ oa'.directCount = oa.directCount + Bit("destroyFactory" = "direct") - Bit(thr[t].at = "direct")
  BY <1>0, <1>1, <1>2, <1>5 DEF Bit
<1>7. "destroyFactory" \in Plain BY <1>1 DEF Plain
<1> QED BY <1>1, <1>a, <1>1, <1>2, <1>3, <1>4, <1>6, <1>7, GoesPlain

\* DeactivateFactory keeps the invariant.
LEMMA DeactivateFactorySafe ==
    ASSUME AdapterInv, NEW t \in Threads, A!DeactivateFactory(t)
    PROVE  AdapterInv'
<1>0. /\ AdapterTypes /\ FactorySound /\ ServantsSound /\ thr[t] \in ThreadType
      /\ ThreadSound(thr[t], oa, fac, conn, reaper, activations)
      /\ oa.waitForHold \in Nat /\ oa.directCount \in Nat
      /\ AtHold(thr[t]) => oa.waitForHold >= 1
      /\ thr[t].at = "direct" => oa.directCount >= 1
  BY AdapterEntry
<1>a. /\ oa \in AdapterType /\ registered \in BOOLEAN /\ deactivated2 \in BOOLEAN
       /\ fac \in FactoryType
  BY <1>0 DEF AdapterTypes
<1>1. /\ thr[t].at = "destroyFactory" /\ UNCHANGED <<oa, reaper, registered, activations, deactivated2>>
  BY DEF A!DeactivateFactory, A!history
<1>2. CASE fac.adapter \/ fac.state = "closed"
  <2> DEFINE p == A!AfterDeactivate(t)
  <2>1. A!FactoryDestroy /\ A!Goes(t, p) BY <1>2 DEF A!DeactivateFactory
  <2>x. p \in {"wait", "idle"} BY DEF A!AfterDeactivate
  <2>y. fac.adapter = TRUE \/ fac.state = "closed" BY <1>2, <1>a DEF FactoryType
  <2> HIDE DEF p
  <2>2. /\ oa' \in AdapterType /\ oa'.servants = oa.servants /\ oa'.waitForHold = oa.waitForHold
        /\ oa'.directCount = oa.directCount /\ oa'.deactivated = oa.deactivated
    BY <1>0, <1>a, <1>1 DEF AdapterType
  <2>3. FactoryTypes' /\ FactorySound' /\ FactoryAdvances BY <1>0, <1>1, <2>1, <2>y, FactoryCloses
  <2>4. AdapterAdvances BY <2>2 DEF AdapterAdvances
  <2>5. ~AtHold(thr[t]) /\ thr[t].at # "direct" BY <1>1 DEF AtHold
  <2>6. /\ oa'.waitForHold = oa.waitForHold - Bit(AtHold(thr[t]))
        /\ oa'.directCount = oa.directCount + Bit(p = "direct") - Bit(thr[t].at = "direct")
    BY <1>0, <2>1, <2>x, <2>2, <2>5 DEF Bit
  <2>7. p \in Plain BY <2>1, <2>x DEF Plain
  <2> QED BY <1>1, <1>a, <2>1, <2>x, <2>2, <2>3, <2>4, <2>6, <2>7, GoesPlain
<1>3. CASE ~(fac.adapter \/ fac.state = "closed")
  <2>1. A!Goes(t, "crashed") /\ UNCHANGED <<fac, conn>> BY <1>3 DEF A!DeactivateFactory
  <2>2. /\ oa' \in AdapterType /\ oa'.servants = oa.servants /\ oa'.waitForHold = oa.waitForHold
        /\ oa'.directCount = oa.directCount /\ oa'.deactivated = oa.deactivated
    BY <1>0, <1>a, <1>1 DEF AdapterType
  <2>3. FactoryTypes' /\ FactorySound' /\ FactoryAdvances BY <1>0, <1>1, <2>1, FactoryStays
  <2>4. AdapterAdvances BY <2>2 DEF AdapterAdvances
  <2>5. ~AtHold(thr[t]) /\ thr[t].at # "direct" BY <1>1 DEF AtHold
  <2>6. /\ oa'.waitForHold = oa.waitForHold - Bit(AtHold(thr[t]))
        /\ oa'.directCount = oa.directCount + Bit("crashed" = "direct") - Bit(thr[t].at = "direct")
    BY <1>0, <2>1, <2>2, <2>5 DEF Bit
  <2>7. "crashed" \in Plain BY <2>1 DEF Plain
  <2> QED BY <1>1, <1>a, <2>1, <2>2, <2>3, <2>4, <2>6, <2>7, GoesPlain
<1> QED BY <1>2, <1>3

\* WaitForDeactivate keeps the invariant.
LEMMA WaitForDeactivateSafe ==
    ASSUME AdapterInv, NEW t \in Threads, A!WaitForDeactivate(t)
    PROVE  AdapterInv'
<1>0. /\ AdapterTypes /\ FactorySound /\ ServantsSound /\ thr[t] \in ThreadType
      /\ ThreadSound(thr[t], oa, fac, conn, reaper, activations)
      /\ oa.waitForHold \in Nat /\ oa.directCount \in Nat
      /\ AtHold(thr[t]) => oa.waitForHold >= 1
      /\ thr[t].at = "direct" => oa.directCount >= 1
  BY AdapterEntry
<1>a. /\ oa \in AdapterType /\ registered \in BOOLEAN /\ deactivated2 \in BOOLEAN
       /\ fac \in FactoryType
  BY <1>0 DEF AdapterTypes
<1>1. /\ thr[t].at = "idle" /\ A!Goes(t, "wait") /\ UNCHANGED oa
      /\ UNCHANGED <<fac, conn, reaper, registered, activations, deactivated2>>
  BY DEF A!WaitForDeactivate, A!Connecting, A!history
<1>2. /\ oa' \in AdapterType /\ oa'.servants = oa.servants /\ oa'.waitForHold = oa.waitForHold
      /\ oa'.directCount = oa.directCount /\ oa'.deactivated = oa.deactivated
  BY <1>0, <1>a, <1>1 DEF AdapterType
<1>3. FactoryTypes' /\ FactorySound' /\ FactoryAdvances BY <1>0, <1>1, FactoryStays
<1>4. AdapterAdvances BY <1>2 DEF AdapterAdvances
<1>5. ~AtHold(thr[t]) /\ thr[t].at # "direct" BY <1>1 DEF AtHold
<1>6. /\ oa'.waitForHold = oa.waitForHold - Bit(AtHold(thr[t]))
      /\ oa'.directCount = oa.directCount + Bit("wait" = "direct") - Bit(thr[t].at = "direct")
  BY <1>0, <1>1, <1>2, <1>5 DEF Bit
<1>7. "wait" \in Plain BY <1>1 DEF Plain
<1> QED BY <1>1, <1>a, <1>1, <1>2, <1>3, <1>4, <1>6, <1>7, GoesPlain

\* WaitDeactivated keeps the invariant.
LEMMA WaitDeactivatedSafe ==
    ASSUME AdapterInv, NEW t \in Threads, A!WaitDeactivated(t)
    PROVE  AdapterInv'
<1>0. /\ AdapterTypes /\ FactorySound /\ ServantsSound /\ thr[t] \in ThreadType
      /\ ThreadSound(thr[t], oa, fac, conn, reaper, activations)
      /\ oa.waitForHold \in Nat /\ oa.directCount \in Nat
      /\ AtHold(thr[t]) => oa.waitForHold >= 1
      /\ thr[t].at = "direct" => oa.directCount >= 1
  BY AdapterEntry
<1>a. /\ oa \in AdapterType /\ registered \in BOOLEAN /\ deactivated2 \in BOOLEAN
       /\ fac \in FactoryType
  BY <1>0 DEF AdapterTypes
<1>1. /\ thr[t].at = "wait" /\ oa.deactivated = TRUE /\ oa.directCount = 0 /\ UNCHANGED oa
      /\ UNCHANGED <<fac, conn, reaper, registered, activations, deactivated2>>
  BY <1>a DEF A!WaitDeactivated, A!Connecting, A!history, AdapterType
<1>b. CASE oa.destroyed
  <2>1. A!Goes(t, "idle") BY <1>b DEF A!WaitDeactivated
  <2>2. /\ oa' \in AdapterType /\ oa'.servants = oa.servants /\ oa'.waitForHold = oa.waitForHold
        /\ oa'.directCount = oa.directCount /\ oa'.deactivated = oa.deactivated
    BY <1>0, <1>a, <1>1 DEF AdapterType
  <2>3. FactoryTypes' /\ FactorySound' /\ FactoryAdvances BY <1>0, <1>1, FactoryStays
  <2>4. AdapterAdvances BY <2>2 DEF AdapterAdvances
  <2>5. ~AtHold(thr[t]) /\ thr[t].at # "direct" BY <1>1 DEF AtHold
  <2>6. /\ oa'.waitForHold = oa.waitForHold - Bit(AtHold(thr[t]))
        /\ oa'.directCount = oa.directCount + Bit("idle" = "direct") - Bit(thr[t].at = "direct")
    BY <1>0, <2>1, <2>2, <2>5 DEF Bit
  <2>7. "idle" \in Plain BY <2>1 DEF Plain
  <2> QED BY <1>1, <1>a, <2>1, <2>2, <2>3, <2>4, <2>6, <2>7, GoesPlain
<1>c. CASE ~oa.destroyed
  <2>1. A!Goes(t, "waitFactory") BY <1>c DEF A!WaitDeactivated
  <2> DEFINE r == GoesRec(thr[t], "waitFactory")
  <2>4. thr' = [thr EXCEPT ![t] = r] /\ r \in ThreadType /\ r.at = "waitFactory"
    BY <1>0, <2>1, GoesIs DEF Places
  <2> HIDE DEF r
  <2>2. AdapterAdvances BY <1>1 DEF AdapterAdvances
  <2>3. FactoryTypes' /\ FactorySound' /\ FactoryAdvances BY <1>0, <1>1, FactoryStays
  <2>7. ThreadSound(r, oa', fac', conn', reaper', activations')
    BY <1>1, <2>4 DEF ThreadSound, AtHold, Waited, Closed
  <2>8. ServantsSound' BY <1>0, <1>1, <2>2, <2>3, ServantsKeep
  <2>9. Counted(r, thr[t]) BY <1>0, <1>1, <2>4 DEF Counted, Bit, AtHold
  <2> QED BY <1>1, <1>a, <2>2, <2>3, <2>4, <2>7, <2>8, <2>9, ThreadMoves
<1> QED BY <1>b, <1>c

\* WaitFinishedFactory keeps the invariant.
LEMMA WaitFinishedFactorySafe ==
    ASSUME AdapterInv, NEW t \in Threads, A!WaitFinishedFactory(t)
    PROVE  AdapterInv'
<1>0. /\ AdapterTypes /\ FactorySound /\ ServantsSound /\ thr[t] \in ThreadType
      /\ ThreadSound(thr[t], oa, fac, conn, reaper, activations)
      /\ oa.waitForHold \in Nat /\ oa.directCount \in Nat
      /\ AtHold(thr[t]) => oa.waitForHold >= 1
      /\ thr[t].at = "direct" => oa.directCount >= 1
  BY AdapterEntry
<1>a. /\ oa \in AdapterType /\ registered \in BOOLEAN /\ deactivated2 \in BOOLEAN
       /\ fac \in FactoryType
  BY <1>0 DEF AdapterTypes
<1> DEFINE r == [thr[t] EXCEPT !.at = "waitConns", !.conns = fac.conns]
<1>1. /\ thr[t].at = "waitFactory" /\ fac.state = "finished" /\ UNCHANGED oa
      /\ UNCHANGED <<conn, reaper, registered, activations, deactivated2>>
      /\ fac' = [fac EXCEPT !.adapter = FALSE]
  BY DEF A!WaitFinishedFactory, A!Connecting, A!history
<1>4. thr' = [thr EXCEPT ![t] = r] BY <1>0 DEF A!WaitFinishedFactory, AdapterTypes
<1>2. /\ oa' = oa /\ AdapterAdvances BY <1>1 DEF AdapterAdvances
<1>3. FactoryTypes' /\ FactorySound' /\ FactoryAdvances
  <2>1. /\ fac' \in FactoryType /\ fac'.conns = fac.conns /\ fac'.state = "finished" /\ fac'.adapter = FALSE
    BY <1>a, <1>1 DEF FactoryType
  <2>2. FactoryTypes' BY <1>0, <1>1, <2>1 DEF FactoryTypes, AdapterTypes
  <2>3. FactorySound' BY <1>0, <1>1, <2>1 DEF FactorySound, A!FollowsFactory
  <2>4. FactoryAdvances BY <1>0, <1>1, <2>1 DEF FactoryAdvances, AdapterTypes
  <2> QED BY <2>2, <2>3, <2>4
<1>6. r \in ThreadType BY <1>0, <1>a DEF ThreadType, FactoryType
<1>5. r.at = "waitConns" /\ r.conns = fac.conns BY <1>0 DEF ThreadType
<1>b. fac'.adapter = FALSE /\ fac'.conns = fac.conns BY <1>a, <1>1 DEF FactoryType
<1> HIDE DEF r
<1>7. ThreadSound(r, oa', fac', conn', reaper', activations')
  BY <1>0, <1>1, <1>5, <1>b DEF ThreadSound, AtHold, Waited, Closed
<1>8. ServantsSound' BY <1>0, <1>2, <1>3, ServantsKeep
<1>9. Counted(r, thr[t]) BY <1>0, <1>1, <1>2, <1>5 DEF Counted, Bit, AtHold
<1> QED BY <1>1, <1>a, <1>2, <1>3, <1>4, <1>6, <1>7, <1>8, <1>9, ThreadMoves

\* WaitFinishedConnections keeps the invariant.
LEMMA WaitFinishedConnectionsSafe ==
    ASSUME AdapterInv, NEW t \in Threads, A!WaitFinishedConnections(t)
    PROVE  AdapterInv'
<1>0. /\ AdapterTypes /\ FactorySound /\ ServantsSound /\ thr[t] \in ThreadType
      /\ ThreadSound(thr[t], oa, fac, conn, reaper, activations)
      /\ oa.waitForHold \in Nat /\ oa.directCount \in Nat
      /\ AtHold(thr[t]) => oa.waitForHold >= 1
      /\ thr[t].at = "direct" => oa.directCount >= 1
  BY AdapterEntry
<1>a. /\ oa \in AdapterType /\ registered \in BOOLEAN /\ deactivated2 \in BOOLEAN
       /\ fac \in FactoryType
  BY <1>0 DEF AdapterTypes
<1> DEFINE r == [thr[t] EXCEPT !.at = "waitReap", !.conns = {}]
<1>1. /\ thr[t].at = "waitConns" /\ UNCHANGED oa /\ UNCHANGED <<fac, conn, reaper, registered, activations, deactivated2>>
      /\ \A k \in thr[t].conns : conn[k].state = "finished" /\ ~conn[k].dispatch
  BY DEF A!WaitFinishedConnections, A!Connecting, A!history
<1>4. thr' = [thr EXCEPT ![t] = r] BY <1>0 DEF A!WaitFinishedConnections, AdapterTypes
<1>2. /\ oa' = oa /\ AdapterAdvances BY <1>1 DEF AdapterAdvances
<1>3. FactoryTypes' /\ FactorySound' /\ FactoryAdvances BY <1>0, <1>1, FactoryStays
<1>6. r \in ThreadType BY <1>0, <1>a DEF ThreadType
<1>5. r.at = "waitReap" BY <1>0 DEF ThreadType
<1> HIDE DEF r
<1>b. fac.conns \subseteq thr[t].conns BY <1>0, <1>1 DEF ThreadSound
<1>c. fac.conns \subseteq Connections BY <1>a DEF FactoryType
<1>d. \A k \in fac.conns : Done(conn[k])
  BY <1>0, <1>1, <1>b, <1>c DEF Done, AdapterTypes, ConnectionType
<1>e. fac.conns \subseteq reaper BY <1>0, <1>d DEF FactorySound
<1>7. ThreadSound(r, oa', fac', conn', reaper', activations')
  BY <1>0, <1>1, <1>5, <1>e DEF ThreadSound, AtHold, Waited, Closed
<1>8. ServantsSound' BY <1>0, <1>2, <1>3, ServantsKeep
<1>9. Counted(r, thr[t]) BY <1>0, <1>1, <1>2, <1>5 DEF Counted, Bit, AtHold
<1> QED BY <1>1, <1>a, <1>2, <1>3, <1>4, <1>6, <1>7, <1>8, <1>9, ThreadMoves

\* WaitReap keeps the invariant.
LEMMA WaitReapSafe ==
    ASSUME AdapterInv, NEW t \in Threads, A!WaitReap(t)
    PROVE  AdapterInv'
<1>0. /\ AdapterTypes /\ FactorySound /\ ServantsSound /\ thr[t] \in ThreadType
      /\ ThreadSound(thr[t], oa, fac, conn, reaper, activations)
      /\ oa.waitForHold \in Nat /\ oa.directCount \in Nat
      /\ AtHold(thr[t]) => oa.waitForHold >= 1
      /\ thr[t].at = "direct" => oa.directCount >= 1
  BY AdapterEntry
<1>a. /\ oa \in AdapterType /\ registered \in BOOLEAN /\ deactivated2 \in BOOLEAN
       /\ fac \in FactoryType
  BY <1>0 DEF AdapterTypes
<1> DEFINE p == IF thr[t].destroy THEN "servants" ELSE "idle"
<1> DEFINE r == GoesRec(thr[t], p)
<1>1. /\ thr[t].at = "waitReap" /\ UNCHANGED oa
      /\ UNCHANGED <<conn, registered, activations, deactivated2>>
      /\ fac' = [fac EXCEPT !.conns = {}] /\ reaper' = {} /\ A!Goes(t, p)
  BY DEF A!WaitReap, A!history
<1>x. p \in {"servants", "idle"} OBVIOUS
<1> HIDE DEF p
<1>4. thr' = [thr EXCEPT ![t] = r] /\ r \in ThreadType /\ r.at = p
  BY <1>0, <1>1, <1>x, GoesIs DEF Places
<1> HIDE DEF r
<1>2. /\ oa' = oa /\ AdapterAdvances BY <1>1 DEF AdapterAdvances
<1>b. /\ fac' \in FactoryType /\ fac'.conns = {} /\ fac'.state = fac.state /\ fac'.adapter = fac.adapter
  BY <1>a, <1>1 DEF FactoryType
<1>c. fac.conns \subseteq reaper /\ fac.adapter = FALSE BY <1>0, <1>1 DEF ThreadSound, Closed
<1>3. FactoryTypes' /\ FactorySound' /\ FactoryAdvances
  <2>2. FactoryTypes' BY <1>0, <1>1, <1>b DEF FactoryTypes, AdapterTypes
  <2>3. FactorySound' BY <1>0, <1>1, <1>b, <1>c DEF FactorySound, A!FollowsFactory
  <2>4. FactoryAdvances BY <1>0, <1>1, <1>b DEF FactoryAdvances, AdapterTypes
  <2> QED BY <2>2, <2>3, <2>4
<1>7. ThreadSound(r, oa', fac', conn', reaper', activations')
  BY <1>0, <1>1, <1>4, <1>x, <1>b, <1>c DEF ThreadSound, AtHold, Waited, Closed
<1>8. ServantsSound' BY <1>0, <1>2, <1>3, ServantsKeep
<1>9. Counted(r, thr[t]) BY <1>0, <1>1, <1>2, <1>4, <1>x DEF Counted, Bit, AtHold
<1> QED BY <1>1, <1>a, <1>2, <1>3, <1>4, <1>7, <1>8, <1>9, ThreadMoves

\* Destroy keeps the invariant.
LEMMA DestroySafe ==
    ASSUME AdapterInv, NEW t \in Threads, A!Destroy(t)
    PROVE  AdapterInv'
<1>0. /\ AdapterTypes /\ FactorySound /\ ServantsSound /\ thr[t] \in ThreadType
      /\ ThreadSound(thr[t], oa, fac, conn, reaper, activations)
      /\ oa.waitForHold \in Nat /\ oa.directCount \in Nat
      /\ AtHold(thr[t]) => oa.waitForHold >= 1
      /\ thr[t].at = "direct" => oa.directCount >= 1
  BY AdapterEntry
<1>a. /\ oa \in AdapterType /\ registered \in BOOLEAN /\ deactivated2 \in BOOLEAN
       /\ fac \in FactoryType
  BY <1>0 DEF AdapterTypes
<1> DEFINE r == [thr[t] EXCEPT !.at = "destroyBegin", !.destroy = TRUE]
<1>1. /\ thr[t].at = "idle" /\ oa' = [oa EXCEPT !.destroying = TRUE] /\ UNCHANGED <<fac, conn, reaper, registered, activations, deactivated2>>
  BY DEF A!Destroy, A!Connecting, A!history
<1>4. thr' = [thr EXCEPT ![t] = r] BY <1>0 DEF A!Destroy, AdapterTypes
<1>b. /\ oa' \in AdapterType /\ oa'.servants = oa.servants /\ oa'.waitForHold = oa.waitForHold
      /\ oa'.directCount = oa.directCount /\ oa'.deactivated = oa.deactivated
  BY <1>a, <1>1 DEF AdapterType
<1>2. AdapterAdvances BY <1>b DEF AdapterAdvances
<1>3. FactoryTypes' /\ FactorySound' /\ FactoryAdvances BY <1>0, <1>1, FactoryStays
<1>6. r \in ThreadType BY <1>0, <1>a DEF ThreadType
<1>5. r.at = "destroyBegin" BY <1>0 DEF ThreadType
<1> HIDE DEF r
<1>7. ThreadSound(r, oa', fac', conn', reaper', activations') BY <1>5, PlainSound DEF Plain
<1>8. ServantsSound' BY <1>0, <1>2, <1>3, <1>b, ServantsKeep
<1>9. Counted(r, thr[t]) BY <1>0, <1>1, <1>b, <1>5 DEF Counted, Bit, AtHold
<1> QED BY <1>1, <1>a, <1>b, <1>2, <1>3, <1>4, <1>6, <1>7, <1>8, <1>9, ThreadMoves

\* DestroyEnd keeps the invariant.
LEMMA DestroyEndSafe ==
    ASSUME AdapterInv, NEW t \in Threads, A!DestroyEnd(t)
    PROVE  AdapterInv'
<1>0. /\ AdapterTypes /\ FactorySound /\ ServantsSound /\ thr[t] \in ThreadType
      /\ ThreadSound(thr[t], oa, fac, conn, reaper, activations)
      /\ oa.waitForHold \in Nat /\ oa.directCount \in Nat
      /\ AtHold(thr[t]) => oa.waitForHold >= 1
      /\ thr[t].at = "direct" => oa.directCount >= 1
  BY AdapterEntry
<1>a. /\ oa \in AdapterType /\ registered \in BOOLEAN /\ deactivated2 \in BOOLEAN
       /\ fac \in FactoryType
  BY <1>0 DEF AdapterTypes
<1>1. /\ thr[t].at = "servants" /\ UNCHANGED <<fac, conn, reaper, registered, activations, deactivated2>>
  BY DEF A!DestroyEnd, A!Connecting, A!history
<1>3. FactoryTypes' /\ FactorySound' /\ FactoryAdvances BY <1>0, <1>1, FactoryStays
<1>b. CASE oa.servants
  <2>1. oa' = [oa EXCEPT !.servants = FALSE] /\ thr' = thr BY <1>b DEF A!DestroyEnd
  <2>2. /\ oa' \in AdapterType /\ oa'.servants = FALSE /\ oa'.waitForHold = oa.waitForHold
        /\ oa'.directCount = oa.directCount /\ oa'.deactivated = oa.deactivated
    BY <1>a, <2>1 DEF AdapterType
  <2>3. AdapterAdvances BY <2>2 DEF AdapterAdvances
  <2>4. thr' = [thr EXCEPT ![t] = thr[t]] BY <1>0, <2>1 DEF AdapterTypes
  <2>5. activations \in 0 .. 2 /\ activations' \in 0 .. 2 BY <1>0, <1>1 DEF AdapterTypes
  <2>6. ThreadSound(thr[t], oa', fac', conn', reaper', activations')
    BY <1>0, <1>3, <2>3, <2>5, ThreadKeeps
  <2>7. ServantsSound' BY <1>0, <1>1, <2>2 DEF ServantsSound, ThreadSound, Waited, Closed
  <2>8. Counted(thr[t], thr[t]) BY <1>0, <2>2 DEF Counted, Bit
  <2> QED BY <1>1, <1>3, <1>0, <1>a, <2>2, <2>3, <2>4, <2>6, <2>7, <2>8, ThreadMoves
<1>c. CASE ~oa.servants
  <2> DEFINE r == [thr[t] EXCEPT !.at = "idle", !.destroy = FALSE]
  <2>1. oa' = [oa EXCEPT !.destroying = FALSE, !.destroyed = TRUE] BY <1>c DEF A!DestroyEnd
  <2>2. /\ oa' \in AdapterType /\ oa'.servants = oa.servants /\ oa'.waitForHold = oa.waitForHold
        /\ oa'.directCount = oa.directCount /\ oa'.deactivated = oa.deactivated
    BY <1>a, <2>1 DEF AdapterType
  <2>3. AdapterAdvances BY <2>2 DEF AdapterAdvances
  <2>4. thr' = [thr EXCEPT ![t] = r] BY <1>0, <1>c DEF AdapterTypes, A!DestroyEnd
  <2>5. r \in ThreadType BY <1>0 DEF ThreadType
  <2>6. r.at = "idle" BY <1>0 DEF ThreadType
  <2> HIDE DEF r
  <2>7. ThreadSound(r, oa', fac', conn', reaper', activations') BY <2>6, PlainSound DEF Plain
  <2>8. ServantsSound' BY <1>0, <1>3, <2>2, <2>3, ServantsKeep
  <2>9. Counted(r, thr[t]) BY <1>0, <1>1, <2>2, <2>6 DEF Counted, Bit, AtHold
  <2> QED BY <1>1, <1>3, <1>a, <2>2, <2>3, <2>4, <2>5, <2>7, <2>8, <2>9, ThreadMoves
<1> QED BY <1>b, <1>c

\* DirectBegin keeps the invariant.
LEMMA DirectBeginSafe ==
    ASSUME AdapterInv, NEW t \in Threads, A!DirectBegin(t)
    PROVE  AdapterInv'
<1>0. /\ AdapterTypes /\ FactorySound /\ ServantsSound /\ thr[t] \in ThreadType
      /\ ThreadSound(thr[t], oa, fac, conn, reaper, activations)
      /\ oa.waitForHold \in Nat /\ oa.directCount \in Nat
      /\ AtHold(thr[t]) => oa.waitForHold >= 1
      /\ thr[t].at = "direct" => oa.directCount >= 1
  BY AdapterEntry
<1>a. /\ oa \in AdapterType /\ registered \in BOOLEAN /\ deactivated2 \in BOOLEAN
       /\ fac \in FactoryType
  BY <1>0 DEF AdapterTypes
<1>1. /\ thr[t].at = "idle" /\ oa.deactivated = FALSE /\ oa' = [oa EXCEPT !.directCount = @ + 1]
      /\ A!Goes(t, "direct") /\ UNCHANGED <<fac, conn, reaper, registered, activations, deactivated2>>
  BY <1>a DEF A!DirectBegin, A!Connecting, A!history, AdapterType
<1>b. /\ oa' \in AdapterType /\ oa'.servants = oa.servants /\ oa'.waitForHold = oa.waitForHold
      /\ oa'.directCount = oa.directCount + 1 /\ oa'.deactivated = oa.deactivated
  BY <1>0, <1>a, <1>1 DEF AdapterType
<1>2. AdapterAdvances BY <1>1, <1>b DEF AdapterAdvances
<1>3. FactoryTypes' /\ FactorySound' /\ FactoryAdvances BY <1>0, <1>1, FactoryStays
<1>4. ~AtHold(thr[t]) BY <1>1 DEF AtHold
<1>5. /\ oa'.waitForHold = oa.waitForHold - Bit(AtHold(thr[t]))
      /\ oa'.directCount = oa.directCount + Bit("direct" = "direct") - Bit(thr[t].at = "direct")
  BY <1>0, <1>1, <1>b, <1>4 DEF Bit
<1>6. "direct" \in Plain BY DEF Plain
<1> QED BY <1>1, <1>a, <1>b, <1>2, <1>3, <1>5, <1>6, GoesPlain

\* DirectEnd keeps the invariant.
LEMMA DirectEndSafe ==
    ASSUME AdapterInv, NEW t \in Threads, A!DirectEnd(t)
    PROVE  AdapterInv'
<1>0. /\ AdapterTypes /\ FactorySound /\ ServantsSound /\ thr[t] \in ThreadType
      /\ ThreadSound(thr[t], oa, fac, conn, reaper, activations)
      /\ oa.waitForHold \in Nat /\ oa.directCount \in Nat
      /\ AtHold(thr[t]) => oa.waitForHold >= 1
      /\ thr[t].at = "direct" => oa.directCount >= 1
  BY AdapterEntry
<1>a. /\ oa \in AdapterType /\ registered \in BOOLEAN /\ deactivated2 \in BOOLEAN
       /\ fac \in FactoryType
  BY <1>0 DEF AdapterTypes
<1>1. /\ thr[t].at = "direct" /\ oa' = [oa EXCEPT !.directCount = @ - 1]
      /\ A!Goes(t, "idle") /\ UNCHANGED <<fac, conn, reaper, registered, activations, deactivated2>>
  BY DEF A!DirectEnd, A!Connecting, A!history
<1>c. oa.directCount - 1 \in Nat BY <1>0, <1>1
<1>b. /\ oa' \in AdapterType /\ oa'.servants = oa.servants /\ oa'.waitForHold = oa.waitForHold
      /\ oa'.directCount = oa.directCount - 1 /\ oa'.deactivated = oa.deactivated
  BY <1>c, <1>a, <1>1 DEF AdapterType
<1>2. AdapterAdvances BY <1>0, <1>1, <1>b DEF AdapterAdvances
<1>3. FactoryTypes' /\ FactorySound' /\ FactoryAdvances BY <1>0, <1>1, FactoryStays
<1>4. ~AtHold(thr[t]) BY <1>1 DEF AtHold
<1>5. /\ oa'.waitForHold = oa.waitForHold - Bit(AtHold(thr[t]))
      /\ oa'.directCount = oa.directCount + Bit("idle" = "direct") - Bit(thr[t].at = "direct")
  BY <1>0, <1>1, <1>b, <1>4 DEF Bit
<1>6. "idle" \in Plain BY DEF Plain
<1> QED BY <1>1, <1>a, <1>b, <1>2, <1>3, <1>5, <1>6, GoesPlain

\* Every step of the adapter keeps the invariant.
LEMMA AdapterStep ==
    ASSUME AdapterInv, [A!Next]_(A!vars)
    PROVE  AdapterInv'
<1>1. ASSUME NEW t \in Threads, A!Calling(t)
      PROVE  AdapterInv'
  BY <1>1, ActivateSafe, HoldSafe, WaitForHoldSafe, DeactivateSafe, WaitForDeactivateSafe,
     DestroySafe, DirectBeginSafe DEF A!Calling
<1>2. ASSUME NEW t \in Threads, A!ThreadStep(t)
      PROVE  AdapterInv'
  BY <1>2, ActivateEndSafe, WaitHoldingFactorySafe, WaitHoldingConnectionSafe,
     WaitForHoldEndSafe, WaitForHoldRetrySafe, DeactivateWaitedSafe, UnregisterSafe,
     DeactivateFactorySafe, WaitDeactivatedSafe, WaitFinishedFactorySafe,
     WaitFinishedConnectionsSafe, WaitReapSafe, DestroyEndSafe, DirectEndSafe DEF A!ThreadStep
<1>3. ASSUME NEW k \in Connections,
             \/ A!Accept(k) \/ A!Start(k) \/ A!DispatchBegin(k) \/ A!ConnectionCloses(k)
             \/ A!ConnectionStep(k)
      PROVE  AdapterInv'
  BY <1>3, AcceptSafe, StartSafe, DispatchBeginSafe, ConnectionClosesSafe, StartCompletedSafe,
     DispatchEndSafe, ConnectionFinishesSafe DEF A!ConnectionStep
<1>4. CASE UNCHANGED A!vars
  <2>1. UNCHANGED <<oa, fac, conn, reaper, thr, registered, activations, deactivated2>>
    BY <1>4 DEF A!vars
  <2>2. FactoryTypes' /\ FactorySound' /\ FactoryAdvances BY <2>1, FactoryStays DEF AdapterInv
  <2>3. AdapterAdvances BY <2>1 DEF AdapterAdvances
  <2> QED BY <2>1, <2>2, <2>3, ThreadsStay DEF AdapterInv, AdapterTypes
<1> QED BY <1>1, <1>2, <1>3, <1>4, FactoryFinishedSafe DEF A!Next

\* The adapter's invariant holds at all times, for any number of threads and connections.
THEOREM AdapterInductive == A!Spec => []AdapterInv
<1>1. A!Init => AdapterInv
  <2> SUFFICES ASSUME A!Init PROVE AdapterInv OBVIOUS
  <2> USE DEF A!Init
  <2>1. AdapterTypes
    <3>1. oa \in AdapterType BY DEF AdapterType
    <3>2. fac \in FactoryType BY DEF FactoryType
    <3>3. conn \in [Connections -> ConnectionType] BY DEF ConnectionType, A!ConnStates
    <3>4. thr \in [Threads -> ThreadType] BY DEF ThreadType
    <3>5. /\ reaper \subseteq Connections /\ registered \in BOOLEAN /\ activations \in 0 .. 2
          /\ deactivated2 \in BOOLEAN
      <4>1. reaper = {} /\ registered = FALSE /\ activations = 0 /\ deactivated2 = FALSE
        BY Zenon
      <4>2. activations \in 0 .. 2 BY ONLY <4>1
      <4>3. registered \in BOOLEAN /\ deactivated2 \in BOOLEAN /\ reaper \subseteq Connections
        BY ONLY <4>1, Zenon
      <4> QED BY ONLY <4>2, <4>3
    <3> QED BY ONLY <3>1, <3>2, <3>3, <3>4, <3>5 DEF AdapterTypes
  <2>2. CountsExact
    <3>1. Holding = {} /\ Direct = {} BY DEF Holding, Direct, AtHold
    <3> QED BY <3>1, FS_EmptySet DEF CountsExact
  <2>3. FactorySound BY DEF FactorySound, A!FollowsFactory
  <2>4. ThreadsSound BY DEF ThreadsSound, ThreadSound, Waited, Closed, AtHold
  <2>5. ServantsSound BY DEF ServantsSound
  <2> QED BY <2>1, <2>2, <2>3, <2>4, <2>5 DEF AdapterInv
<1> QED BY <1>1, AdapterStep, PTL DEF A!Spec

\* AdapterExact: destroy() of the adapter leaves no dispatch without servants, connections
\* follow the factory's state, and the assertion of waitUntilFinished() about the reaper
\* holds.
THEOREM AdapterIsExact == A!Spec => []AdapterExact
<1>1. AdapterInv => AdapterExact
  <2> SUFFICES ASSUME AdapterInv PROVE AdapterExact OBVIOUS
  <2>1. A!TypeOK
    <3>1. /\ oa.waitForHold \in 0 .. Cardinality(Threads)
          /\ oa.directCount \in 0 .. Cardinality(Threads)
      BY CountsBound DEF AdapterInv
    <3>2. oa \in [deactivated : BOOLEAN, waitForActivate : BOOLEAN, oneOffDone : BOOLEAN,
                  waitForHold : 0 .. Cardinality(Threads), retry : BOOLEAN,
                  destroying : BOOLEAN, destroyed : BOOLEAN,
                  directCount : 0 .. Cardinality(Threads), servants : BOOLEAN]
      BY <3>1 DEF AdapterInv, AdapterTypes, AdapterType
    <3>3. /\ fac \in FactoryType /\ conn \in [Connections -> ConnectionType]
          /\ reaper \subseteq Connections /\ thr \in [Threads -> ThreadType]
          /\ registered \in BOOLEAN /\ activations \in 0 .. 2 /\ deactivated2 \in BOOLEAN
      BY DEF AdapterInv, AdapterTypes
    <3>4. fac \in [state : {"holding", "active", "closed", "finished"},
                   conns : SUBSET Connections, adapter : BOOLEAN]
      BY ONLY <3>3 DEF FactoryType
    <3>5. conn \in [Connections -> [state : A!ConnStates, dispatch : BOOLEAN, callback : BOOLEAN]]
      BY ONLY <3>3 DEF ConnectionType
    <3>6. thr \in [Threads ->
            [at : {"idle", "register", "holdFactory", "holdConns", "holdRetry", "holdAgain",
                   "destroyBegin", "deactivate", "unregister", "destroyFactory", "wait",
                   "waitFactory", "waitConns", "waitReap", "servants", "direct", "crashed"},
             conns : SUBSET Connections, destroy : BOOLEAN, since : 0 .. 2]]
      BY ONLY <3>3 DEF ThreadType
    <3>7. A!Cardinality(Threads) = Cardinality(Threads) BY Zenon DEF A!Cardinality, Cardinality
    <3> QED BY ONLY <3>2, <3>3, <3>4, <3>5, <3>6, <3>7, Zenon DEF A!TypeOK
  <2>2. A!ServantsAlive
    <3>1. oa.servants = TRUE \/ oa.servants = FALSE BY DEF AdapterInv, AdapterTypes, AdapterType
    <3>2. oa.servants = FALSE =>
            oa.directCount = 0 /\ \A k \in Connections : conn[k].dispatch = FALSE
      BY DEF AdapterInv, ServantsSound, FactorySound, Done
    <3> QED BY <3>1, <3>2 DEF A!ServantsAlive
  <2>3. A!FollowsFactory BY DEF AdapterInv, FactorySound
  <2>4. A!ReaperComplete
    BY DEF A!ReaperComplete, AdapterInv, ThreadsSound, ThreadSound, FactorySound
  <2> QED BY <2>1, <2>2, <2>3, <2>4 DEF AdapterExact
<1> QED BY <1>1, AdapterInductive, PTL

\* HoldIsComplete: waitForHold() returns, when nobody activated the adapter meanwhile, only
\* if every connection is held and dispatches nothing.
THEOREM HoldingIsComplete == A!Spec => A!HoldIsComplete
<1> DEFINE Returns(t) == /\ thr[t].at = "holdConns" /\ thr'[t].at = "idle"
                         /\ thr[t].since = activations /\ activations < 2
           Held == \A k \in fac.conns : conn[k].state # "active" /\ ~conn[k].dispatch
<1>1. ASSUME AdapterInv, A!Next, NEW t \in Threads, Returns(t)
      PROVE  Held
  <2>1. A!WaitForHoldEnd(t)
    <3>1. ASSUME NEW d \in Threads, A!Calling(d) PROVE FALSE
      <4>1. thr[d].at \in {"idle", "holdAgain", "destroyBegin"}
        BY <3>1 DEF A!Calling, A!Activate, A!Hold, A!WaitForHold, A!Deactivate,
                    A!WaitForDeactivate, A!Destroy, A!DirectBegin
      <4>2. d # t BY <1>1, <4>1
      <4>3. thr'[t].at = thr[t].at
        BY <1>1, <3>1, <4>2
        DEF A!Calling, A!Activate, A!Hold, A!WaitForHold, A!HoldRound, A!Deactivate,
            A!SetDeactivated, A!WaitForDeactivate, A!Destroy, A!DirectBegin, A!Goes, AdapterInv, AdapterTypes
      <4> QED BY <1>1, <4>3
    <3>2. ASSUME NEW d \in Threads, A!ThreadStep(d) PROVE A!WaitForHoldEnd(t)
      <4>1. CASE d # t
        <5>1. thr'[t] = thr[t]
          BY <1>1, <3>2, <4>1
          DEF A!ThreadStep, A!ActivateEnd, A!WaitHoldingFactory, A!WaitHoldingConnection,
              A!WaitForHoldEnd, A!WaitForHoldRetry, A!DeactivateWaited, A!SetDeactivated,
              A!Unregister, A!DeactivateFactory, A!WaitDeactivated, A!WaitFinishedFactory,
              A!WaitFinishedConnections, A!WaitReap, A!DestroyEnd, A!DirectEnd, A!Goes, AdapterInv, AdapterTypes
        <5> QED BY <1>1, <5>1
      <4>2. CASE d = t
        <5>1. A!WaitHoldingConnection(t) \/ A!WaitForHoldEnd(t)
          BY <1>1, <3>2, <4>2
          DEF A!ThreadStep, A!ActivateEnd, A!WaitHoldingFactory,
              A!WaitForHoldRetry, A!DeactivateWaited,
              A!Unregister, A!DeactivateFactory, A!WaitDeactivated, A!WaitFinishedFactory,
              A!WaitFinishedConnections, A!WaitReap, A!DestroyEnd, A!DirectEnd
        <5>2. A!WaitHoldingConnection(t) => thr'[t].at = thr[t].at
          BY <1>1 DEF A!WaitHoldingConnection, AdapterInv, AdapterTypes, ThreadType
        <5> QED BY <1>1, <5>1, <5>2
      <4> QED BY <4>1, <4>2
    <3>3. ASSUME \/ A!FactoryFinished
                 \/ \E k \in Connections :
                      \/ A!Accept(k) \/ A!Start(k) \/ A!DispatchBegin(k) \/ A!ConnectionCloses(k)
                      \/ A!ConnectionStep(k)
          PROVE  FALSE
      <4>1. thr' = thr
        BY <3>3 DEF A!FactoryFinished, A!Accept, A!Start, A!DispatchBegin, A!ConnectionCloses,
                    A!ConnectionStep, A!ConnectionStartCompleted, A!DispatchEnd, A!ConnectionFinishes
      <4> QED BY <1>1, <4>1
    <3> QED BY <1>1, <3>1, <3>2, <3>3 DEF A!Next
  <2>2. thr[t].conns = {} BY <2>1 DEF A!WaitForHoldEnd
  <2>3. ThreadSound(thr[t], oa, fac, conn, reaper, activations) /\ FactorySound
    BY <1>1 DEF AdapterInv, ThreadsSound
  <2>4. fac.state # "active" /\ \A k \in fac.conns : conn[k].dispatch = FALSE
    BY <1>1, <2>2, <2>3 DEF ThreadSound
  <2> QED BY <2>3, <2>4 DEF FactorySound, A!FollowsFactory
<1>2. AdapterInv /\ [A!Next]_(A!vars) =>
        [\A t \in Threads :
           (thr[t].at = "holdConns" /\ thr'[t].at = "idle" /\ thr[t].since = activations
              /\ activations < 2) =>
                 \A k \in fac.conns : conn[k].state # "active" /\ ~conn[k].dispatch]_(A!vars)
  BY <1>1
<1> QED BY <1>2, AdapterInductive, PTL DEF A!Spec, A!HoldIsComplete
=============================================================================
