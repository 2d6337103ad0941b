--------------------------------- MODULE GC ---------------------------------
(***************************************************************************)
(* The garbage collector of class instances (cpp/src/Ice/GC.cpp), with the *)
(* handles that refer to them (cpp/include/Ice/Handle.h) and the functions *)
(* that slice2cpp generates for it.                                        *)
(*                                                                         *)
(* The collector locks reference counts, but a handle is assigned in three *)
(* steps of which the second, the assignment of the pointer, takes no      *)
(* lock: the collector reads handles while they change.  The program       *)
(* synchronizes its own accesses, so that it is one thread here; it does   *)
(* not use swap() on handles that are members, which would not touch a     *)
(* count at all.  An instance has one member.  Classes without members are *)
(* not the collector's business.                                           *)
(***************************************************************************)
EXTENDS Naturals, Integers, FiniteSets, Sequences

CONSTANTS
    Objects,     \* numbers
    Locals,      \* handles of the program that are not members
    Users,       \* threads that call Ice::collectGarbage()
    Destroys,    \* the last communicator is destroyed at some time
    Null

VARIABLES
    heap,        \* heap[o]: "none", "live" or "dead"
    ref,         \* _ref
    member,      \* member[o]: the member of o
    local,       \* local[l]
    gcObjects,
    todo,        \* what the program is about to do
    lock,        \* who has gcRecMutex
    state,       \* _state
    collecting,  \* _collecting
    at,          \* at[c]: where a caller of collectGarbage() is
    pass,        \* the local variables of collectGarbage(), and what was lost when it began
    thread,      \* where run() is
    destroyer,   \* where CommunicatorI::destroy() is
    crashed      \* memory was used after it was deleted

heapVars == <<heap, ref, member, local, gcObjects>>
runVars == <<state, thread, destroyer>>
vars == <<heapVars, todo, lock, collecting, at, pass, runVars, crashed>>

\* The collector's thread, destroy(), and applications.
Callers == {"thread", "destroy"} \cup Users
Nobody == "nobody"
Idle == [left |-> {}, counts |-> [o \in {} |-> 0], live |-> {}, lost |-> {}]

Init ==
    /\ heap = [o \in Objects |-> "none"] /\ ref = [o \in Objects |-> 0]
    /\ member = [o \in Objects |-> Null] /\ local = [l \in Locals |-> Null]
    /\ gcObjects = {} /\ todo = <<>> /\ lock = Nobody
    /\ state = "NotStarted" /\ collecting = FALSE
    /\ at = [c \in Callers |-> "idle"] /\ pass = Idle
    /\ thread = "new" /\ destroyer = "idle" /\ crashed = FALSE

TypeOK ==
    /\ heap \in [Objects -> {"none", "live", "dead"}] /\ ref \in [Objects -> Nat]
    /\ member \in [Objects -> Objects \cup {Null}] /\ local \in [Locals -> Objects \cup {Null}]
    /\ gcObjects \subseteq Objects /\ lock \in Callers \cup {Nobody}
    /\ state \in {"NotStarted", "Started", "Stopping", "Stopped"}
    /\ at \in [Callers -> {"idle", "call", "lock", "count", "trace", "clear", "delete", "flag",
                           "unlock"}]
    /\ thread \in {"new", "top", "wait", "collect", "exit"}
    /\ destroyer \in {"idle", "stop", "notify", "join", "collect", "done"}

-----------------------------------------------------------------------------
(* The program: Handle::operator=(), and what follows from it. *)

\* A handle is a local or the member of an instance that a local refers to.
Handles == {<<"local", l>> : l \in Locals}
              \cup {<<"member", local[l]>> : l \in {k \in Locals : local[k] # Null}}
Value(h) == IF h[1] = "local" THEN local[h[2]] ELSE member[h[2]]
Step(op, h, o) == [op |-> op, h |-> h, o |-> o]
NoHandle == <<"none", Null>>
If(cond, s) == IF cond THEN <<s>> ELSE <<>>

Assignment(h, o) ==
    If(o # Null, Step("inc", NoHandle, o)) \o <<Step("store", h, o)>>
        \o If(Value(h) # Null, Step("dec", NoHandle, Value(h)))

Assign(h, o) ==
    /\ todo = <<>> /\ Value(h) # o
    /\ todo' = Assignment(h, o)
    /\ UNCHANGED <<heapVars, lock, collecting, at, pass, runVars, crashed>>

\* Instances are interchangeable: the first that is not used.
New(h, o) ==
    /\ todo = <<>> /\ heap[o] = "none" /\ \A p \in Objects : p < o => heap[p] # "none"
    /\ heap' = [heap EXCEPT ![o] = "live"]
    /\ todo' = Assignment(h, o)
    /\ UNCHANGED <<ref, member, local, gcObjects, lock, collecting, at, pass, runVars, crashed>>

Does(op) == todo # <<>> /\ Head(todo).op = op

\* __incRef()
IncRef ==
    /\ Does("inc") /\ lock = Nobody
    /\ LET o == Head(todo).o IN
       /\ ref' = [ref EXCEPT ![o] = @ + 1]
       /\ gcObjects' = IF ref[o] = 0 THEN gcObjects \cup {o} ELSE gcObjects
    /\ todo' = Tail(todo)
    /\ UNCHANGED <<heap, member, local, lock, collecting, at, pass, runVars, crashed>>

Store ==
    /\ Does("store")
    /\ LET h == Head(todo).h  o == Head(todo).o IN
       IF h[1] = "local" THEN local' = [local EXCEPT ![h[2]] = o] /\ UNCHANGED member
       ELSE member' = [member EXCEPT ![h[2]] = o] /\ UNCHANGED local
    /\ todo' = Tail(todo)
    /\ UNCHANGED <<heap, ref, gcObjects, lock, collecting, at, pass, runVars, crashed>>

\* __decRef(); the instance is deleted when the lock is released.
DecRef ==
    /\ Does("dec") /\ lock = Nobody
    /\ LET o == Head(todo).o  last == ref[o] = 1 IN
       IF heap[o] = "dead" THEN crashed' = TRUE /\ UNCHANGED <<ref, gcObjects, todo>>
       ELSE /\ ref' = [ref EXCEPT ![o] = @ - 1]
            /\ gcObjects' = IF last THEN gcObjects \ {o} ELSE gcObjects
            /\ todo' = If(last, Step("delete", NoHandle, o)) \o Tail(todo)
            /\ UNCHANGED crashed
    /\ UNCHANGED <<heap, member, local, lock, collecting, at, pass, runVars>>

\* The destructor of the member follows.
Delete ==
    /\ Does("delete")
    /\ LET o == Head(todo).o IN
       /\ heap' = [heap EXCEPT ![o] = "dead"]
       /\ todo' = If(member[o] # Null, Step("dec", NoHandle, member[o])) \o Tail(todo)
       /\ member' = [member EXCEPT ![o] = Null]
    /\ UNCHANGED <<ref, local, gcObjects, lock, collecting, at, pass, runVars, crashed>>

-----------------------------------------------------------------------------
(* What the program can get at *)

\* The least set that has S and all that its instances refer to.
Closed(T) == \A o \in T : member[o] \in T \cup {Null}
ReachableFrom(S) ==
    {o \in Objects : \A T \in SUBSET Objects : S \subseteq T /\ Closed(T) => o \in T}

\* With the instances that it is about to assign.
Assigned == {todo[i].o : i \in {j \in DOMAIN todo : todo[j].op \in {"inc", "store"}}}
Reachable == ReachableFrom(({local[l] : l \in Locals} \cup Assigned) \ {Null})

\* What it has lost but still has to discount or to delete.
Dropped == {todo[i].o : i \in {j \in DOMAIN todo : todo[j].op \in {"dec", "delete"}}}

\* Garbage that only the collector can delete.
Garbage == {o \in Objects : heap[o] = "live"} \ (Reachable \cup ReachableFrom(Dropped))

-----------------------------------------------------------------------------
(* collectGarbage() *)

Goes(c, place) == at' = [at EXCEPT ![c] = place]
Quiet == <<todo, runVars, crashed>>

\* Who finds the collector at work returns.
Enter(c) ==
    /\ at[c] = "call"
    /\ Goes(c, IF collecting THEN "idle" ELSE "lock")
    /\ collecting' = TRUE
    /\ UNCHANGED <<heapVars, lock, pass, Quiet>>

Lock(c) ==
    /\ at[c] = "lock" /\ lock = Nobody
    /\ lock' = c
    /\ pass' = [left |-> gcObjects, counts |-> [o \in gcObjects |-> ref[o]], live |-> {},
                lost |-> Garbage]
    /\ Goes(c, "count")
    /\ UNCHANGED <<heapVars, collecting, Quiet>>

\* __gcReachable() and __addObject() of an instance: its member is read.
CountHandles(c) ==
    /\ at[c] = "count"
    /\ \E o \in pass.left :
           pass' = [pass EXCEPT !.left = @ \ {o},
                       !.counts = [p \in DOMAIN @ |-> IF p = member[o] THEN @[p] - 1 ELSE @[p]]]
    /\ UNCHANGED <<heapVars, lock, collecting, at, Quiet>>

\* Instances that are referred to from elsewhere are live.
CountEnd(c) ==
    /\ at[c] = "count" /\ pass.left = {}
    /\ pass' = [pass EXCEPT !.left = {o \in DOMAIN pass.counts : pass.counts[o] > 0}]
    /\ Goes(c, "trace")
    /\ UNCHANGED <<heapVars, lock, collecting, Quiet>>

\* A mutant of Trace: what live instances refer to is not followed.
TraceShallow(c) ==
    /\ at[c] = "trace"
    /\ \E o \in pass.left : pass' = [pass EXCEPT !.live = @ \cup {o}, !.left = @ \ {o}]
    /\ UNCHANGED <<heapVars, lock, collecting, at, Quiet>>

\* recursivelyReachable(), in any order.
Trace(c) ==
    /\ at[c] = "trace"
    /\ \E o \in pass.left :
           pass' = [pass EXCEPT !.live = @ \cup {o},
                                !.left = (@ \cup ({member[o]} \ {Null})) \ (pass.live \cup {o})]
    /\ UNCHANGED <<heapVars, lock, collecting, at, Quiet>>

TraceEnd(c) ==
    /\ at[c] = "trace" /\ pass.left = {}
    /\ pass' = [pass EXCEPT !.left = DOMAIN pass.counts \ pass.live]
    /\ Goes(c, "clear")
    /\ UNCHANGED <<heapVars, lock, collecting, Quiet>>

\* __gcClear() of everything that is left.
Clear(c) ==
    /\ at[c] = "clear"
    /\ ref' = [o \in Objects |-> ref[o] - Cardinality({p \in pass.left : member[p] = o})]
    /\ member' = [o \in Objects |-> IF o \in pass.left THEN Null ELSE member[o]]
    /\ Goes(c, "delete")
    /\ UNCHANGED <<heap, local, gcObjects, lock, collecting, pass, Quiet>>

DeleteGarbage(c) ==
    /\ at[c] = "delete"
    /\ heap' = [o \in Objects |-> IF o \in pass.left THEN "dead" ELSE heap[o]]
    /\ ref' = [o \in Objects |-> IF o \in pass.left THEN 0 ELSE ref[o]]
    /\ gcObjects' = gcObjects \ pass.left
    /\ pass' = Idle
    /\ Goes(c, "flag")
    /\ UNCHANGED <<member, local, lock, collecting, Quiet>>

\* A mutant of NotCollecting: _collecting is not reset.
NotCollectingForgotten(c) ==
    /\ at[c] = "flag"
    /\ Goes(c, "unlock")
    /\ UNCHANGED <<heapVars, lock, collecting, pass, Quiet>>

NotCollecting(c) ==
    /\ at[c] = "flag"
    /\ collecting' = FALSE
    /\ Goes(c, "unlock")
    /\ UNCHANGED <<heapVars, lock, pass, Quiet>>

Unlock(c) ==
    /\ at[c] = "unlock"
    /\ lock' = Nobody
    /\ Goes(c, "idle")
    /\ UNCHANGED <<heapVars, collecting, pass, Quiet>>

\* Ice::collectGarbage()
UserCollects(u) ==
    /\ at[u] = "idle" /\ destroyer # "done"
    /\ Goes(u, "call")
    /\ UNCHANGED <<heapVars, lock, collecting, pass, Quiet>>

-----------------------------------------------------------------------------
(* run(), and CommunicatorI::destroy() of the last communicator with stop() *)

Calm == <<heapVars, todo, lock, collecting, pass, crashed>>

Started ==
    /\ thread = "new"
    /\ thread' = "top" /\ state' = "Started"
    /\ UNCHANGED <<Calm, at, destroyer>>

LoopTop ==
    /\ thread = "top"
    /\ IF state = "Stopping" THEN thread' = "exit" /\ state' = "Stopped"
       ELSE thread' = "wait" /\ UNCHANGED state
    /\ UNCHANGED <<Calm, at, destroyer>>

\* The interval is over.
WaitTimeout ==
    /\ thread = "wait"
    /\ thread' = "collect" /\ Goes("thread", "call")
    /\ UNCHANGED <<Calm, state, destroyer>>

Collected ==
    /\ thread = "collect" /\ at["thread"] = "idle"
    /\ thread' = "top"
    /\ UNCHANGED <<Calm, at, state, destroyer>>

Destroy ==
    /\ Destroys /\ destroyer = "idle"
    /\ destroyer' = "stop"
    /\ UNCHANGED <<Calm, at, state, thread>>

\* stop(): it waits until run() has been entered.
Stop ==
    /\ destroyer = "stop" /\ state # "NotStarted"
    /\ destroyer' = "notify"
    /\ UNCHANGED <<Calm, at, state, thread>>

StopNotify ==
    /\ destroyer = "notify"
    /\ state' = "Stopping"
    /\ thread' = IF thread = "wait" THEN "top" ELSE thread
    /\ destroyer' = "join"
    /\ UNCHANGED <<Calm, at>>

StopJoin ==
    /\ destroyer = "join" /\ thread = "exit"
    /\ destroyer' = "collect" /\ Goes("destroy", "call")
    /\ UNCHANGED <<Calm, state, thread>>

\* The collector is destroyed with its last handle, also under the feet of a user.
DestroyEnd ==
    /\ destroyer = "collect" /\ at["destroy"] = "idle"
    /\ destroyer' = "done"
    /\ crashed' = (\E u \in Users : at[u] # "idle")
    /\ UNCHANGED <<heapVars, todo, lock, collecting, pass, at, state, thread>>

-----------------------------------------------------------------------------
ProgramStep == IncRef \/ Store \/ DecRef \/ Delete
CollectorStep(c) ==
    \/ Enter(c) \/ Lock(c) \/ CountHandles(c) \/ CountEnd(c) \/ Trace(c) \/ TraceEnd(c)
    \/ Clear(c) \/ DeleteGarbage(c) \/ NotCollecting(c) \/ Unlock(c)
ThreadStep == Started \/ LoopTop \/ WaitTimeout \/ Collected
DestroyStep == Stop \/ StopNotify \/ StopJoin \/ DestroyEnd

Next ==
    /\ ~crashed
    /\ \/ \E h \in Handles :
              \/ \E g \in Handles : Assign(h, Value(g))
              \/ Assign(h, Null)
              \/ \E o \in Objects : New(h, o)
       \/ ProgramStep
       \/ \E c \in Callers : CollectorStep(c)
       \/ \E u \in Users : UserCollects(u)
       \/ ThreadStep \/ Destroy \/ DestroyStep

\* Threads run.  The program gets the mutex while the collector sleeps: Ice.GC.Interval is
\* in seconds.
Fairness ==
    /\ SF_vars(~crashed /\ ProgramStep)
    /\ \A c \in Callers : SF_vars(~crashed /\ CollectorStep(c))
    /\ WF_vars(~crashed /\ ThreadStep) /\ WF_vars(~crashed /\ DestroyStep)

Spec == Init /\ [][Next]_vars /\ Fairness

-----------------------------------------------------------------------------
(* Properties *)

\* No instance that the program can get at is deleted, although the collector reads
\* handles that are being assigned.
NothingLiveDeleted == \A o \in Reachable : heap[o] = "live"

\* Counts count handles: those there are, the one that will be assigned, less the one that
\* is not counted yet, and those that are gone but not yet discounted.
Pending(op, o) == Cardinality({i \in DOMAIN todo : todo[i].op = op /\ todo[i].o = o})
CountsHandles ==
    (\A c \in Callers : at[c] # "delete") =>
        \A o \in Objects : heap[o] = "live" =>
            ref[o] = Cardinality({l \in Locals : local[l] = o})
                     + Cardinality({p \in Objects : heap[p] = "live" /\ member[p] = o})
                     + Pending("store", o) - Pending("inc", o)
                     + (IF \E i \in DOMAIN todo : todo[i].op = "store" THEN 0
                        ELSE Pending("dec", o))

\* The assertions of __incRef(), __decRef() and collectGarbage(): instances with
\* references are the candidates, and no other is met by a collection.
CandidatesExact ==
    /\ (\A c \in Callers : at[c] # "delete") =>
           gcObjects = {o \in Objects : heap[o] = "live" /\ ref[o] > 0}
    /\ (\E c \in Callers : at[c] = "trace") =>
           pass.left \cup pass.live \subseteq DOMAIN pass.counts

\* A collection deletes all garbage that there was when it began, cycles and what hangs on
\* them, whatever the program does meanwhile.
CollectsAll == \A c \in Callers : at[c] = "clear" => pass.lost \subseteq pass.left

\* One caller collects.
OneCollector ==
    \A c, d \in Callers :
        (c # d /\ at[c] \notin {"idle", "call"} /\ at[d] \notin {"idle", "call"}) =>
            at[c] = "unlock" \/ at[d] = "unlock"

\* Nobody will use an instance that collectGarbage() deletes.  This does not hold: when a
\* member is set to null after CountHandles() has read it, the instance is deleted before the
\* assignment calls __decRef() of it.
GarbageIsUnused ==
    \A c \in Callers : at[c] = "clear" => pass.left \cap (Reachable \cup Dropped) = {}

\* What the program has lost is deleted, cycles included, while the collector's thread
\* runs, whatever the program does; unless a handle was read on both sides of its assignment.
GarbageCollected ==
    \A o \in Objects :
        (heap[o] = "live" /\ o \notin Reachable) ~>
            (heap[o] = "dead" \/ destroyer # "idle" \/ crashed)

\* destroy() ends, wherever the collector's thread is.
StopReturns == (destroyer = "stop") ~> (destroyer = "done" \/ crashed)
=============================================================================
