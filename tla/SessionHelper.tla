--------------------------- MODULE SessionHelper ---------------------------
(***************************************************************************)
(* SessionHelperI (cpp/src/Glacier2Lib/SessionHelper.cpp): a client's      *)
(* session with a Glacier2 router.  connect() creates a communicator and a *)
(* ConnectThread, which establishes the session; a SessionRefreshThread    *)
(* keeps it alive and destroys it when a refresh fails; destroy() hands    *)
(* the work to a DestroyInternal thread.  The application gets callbacks,  *)
(* directly or through its dispatcher, and may call destroy() at any time. *)
(*                                                                         *)
(* An action is one critical section of the helper's mutex or of the       *)
(* refresh thread's monitor, one remote invocation, one callback of the    *)
(* application or the destruction of the communicator.                     *)
(***************************************************************************)
EXTENDS Naturals, Sequences, SequencesExt

VARIABLES
    helper,        \* the members of the SessionHelperI; dispatcher: _initData.dispatcher is
                   \*   set, and runs calls in order
    communicator,  \* "none", "alive" or "destroyed"
    connector,     \* where the ConnectThread is
    destroyer,     \* where the DestroyInternal thread is, and what it took
    refresher,     \* where the SessionRefreshThread is, and its _done
    failure,       \* a refresh failed and failure() is not called yet
    queue,         \* the calls in the dispatcher
    atRouter,      \* the router has the session (external)
    callbacks,     \* the callbacks of the application, in order (history)
    threw          \* how a callback of the application went wrong (history)

vars == <<helper, communicator, connector, destroyer, refresher, failure, queue, atRouter,
          callbacks, threw>>
external == <<atRouter, failure>>

Callbacks == {"createdCommunicator", "connected", "connectFailed", "disconnected"}

Helper ==
    [destroy : BOOLEAN, connected : BOOLEAN, session : BOOLEAN, router : BOOLEAN,
     refreshThread : BOOLEAN, dispatcher : BOOLEAN]
Destroyer ==
    [at : {"none", "begin", "router", "join", "communicator", "callback", "done"},
     router : BOOLEAN, refreshThread : BOOLEAN]
Refresher == [at : {"none", "send", "wait", "done"}, done : BOOLEAN]

TypeOK ==
    /\ helper \in Helper /\ destroyer \in Destroyer /\ refresher \in Refresher
    /\ communicator \in {"none", "alive", "destroyed"}
    /\ connector \in {"init", "created", "waiting", "connect", "query", "commit", "connected",
                      "failing", "failed", "initFailed", "done"}
    /\ failure \in BOOLEAN /\ atRouter \in BOOLEAN
    /\ queue \in Seq(Callbacks) /\ callbacks \in Seq(Callbacks)
    /\ threw \in {"no", "connected", "created", "terminated"}

Init ==
    /\ \E d \in BOOLEAN :
           helper = [destroy |-> FALSE, connected |-> FALSE, session |-> FALSE,
                     router |-> FALSE, refreshThread |-> FALSE, dispatcher |-> d]
    /\ communicator = "none" /\ connector = "init"
    /\ destroyer = [at |-> "none", router |-> FALSE, refreshThread |-> FALSE]
    /\ refresher = [at |-> "none", done |-> FALSE]
    /\ failure = FALSE /\ queue = <<>> /\ atRouter = FALSE
    /\ callbacks = <<>> /\ threw = "no"

Running == threw # "terminated"

-----------------------------------------------------------------------------
(* destroy(), called by the application, by failure() and by Connected::run() *)

Destroyed == IF helper.destroy THEN helper
             ELSE [helper EXCEPT !.destroy = TRUE, !.connected = FALSE,
                                 !.session = @ /\ ~helper.connected]
DestroyThread == IF ~helper.destroy /\ helper.connected
                 THEN [destroyer EXCEPT !.at = "begin"] ELSE destroyer
DoDestroy == helper' = Destroyed /\ destroyer' = DestroyThread

Destroy ==
    /\ connector # "init" /\ ~helper.destroy /\ Running
    /\ DoDestroy
    /\ UNCHANGED <<communicator, connector, refresher, external, queue, callbacks, threw>>

-----------------------------------------------------------------------------
(* Callbacks of the application; next is where the calling thread goes.      *)

Notify(c) == callbacks' = Append(callbacks, c)

\* dispatchCallback() with a dispatcher
Enqueue(c) == queue' = Append(queue, c) /\ UNCHANGED <<callbacks, threw>>

\* Connected::run(): if the application's callback throws SessionNotExistException, the
\* session is destroyed.  session() throws a pointer to it, which nobody catches.
RunConnected(fails) ==
    /\ Notify("connected")
    /\ \/ UNCHANGED <<helper, destroyer, threw>> /\ fails = "no"
       \/ DoDestroy /\ UNCHANGED threw /\ fails = "no"
       \/ threw' = "connected" /\ fails = "exception" /\ UNCHANGED <<helper, destroyer>>
       \/ ~helper.session /\ threw' = "terminated" /\ fails = "exception"
          /\ UNCHANGED <<helper, destroyer>>

\* The dispatcher runs its next call; exceptions end there.  DispatcherCallWait counts the
\* latch down after the callback, unless it throws.
Dispatch ==
    /\ queue # <<>> /\ Running
    /\ queue' = Tail(queue)
    /\ \/ /\ Head(queue) = "connected"
          /\ \E fails \in {"no", "exception"} : RunConnected(fails)
          /\ UNCHANGED connector
       \/ /\ Head(queue) = "createdCommunicator"
          /\ Notify(Head(queue))
          /\ \/ connector' = "connect" /\ UNCHANGED threw
             \/ threw' = "created" /\ UNCHANGED connector
          /\ UNCHANGED <<helper, destroyer>>
       \/ /\ Head(queue) \in {"connectFailed", "disconnected"}
          /\ Notify(Head(queue))
          /\ UNCHANGED <<helper, destroyer, connector, threw>>
    /\ UNCHANGED <<communicator, refresher, external>>

-----------------------------------------------------------------------------
(* connectImpl() and the ConnectThread *)

ConnectImpl ==
    /\ connector = "init"
    /\ \/ communicator' = "alive" /\ connector' = "created" /\ UNCHANGED helper
       \/ helper' = [helper EXCEPT !.destroy = TRUE] /\ connector' = "initFailed"
          /\ UNCHANGED communicator
    /\ UNCHANGED <<destroyer, refresher, external, queue, callbacks, threw>>

\* dispatchCallbackAndWait(CreatedCommunicator)
CreatedCommunicator ==
    /\ connector = "created" /\ Running
    /\ IF helper.dispatcher
       THEN Enqueue("createdCommunicator") /\ connector' = "waiting"
       ELSE /\ Notify("createdCommunicator")
            /\ connector' \in {"connect", "failing"}
            /\ UNCHANGED <<queue, threw>>
    /\ UNCHANGED <<helper, communicator, destroyer, refresher, external>>

\* createSession(), and the invocations at the beginning of connected().
Connect ==
    /\ connector \in {"connect", "query"} /\ Running
    /\ \/ connector' = (IF connector = "connect" THEN "query" ELSE "commit") /\ atRouter' = TRUE
       \/ connector' = "failing" /\ UNCHANGED atRouter
    /\ UNCHANGED <<helper, communicator, destroyer, refresher, failure, queue, callbacks, threw>>

\* connected(), with the mutex: a session that was destroyed meanwhile is not used.
Connected ==
    /\ connector = "commit" /\ Running
    /\ IF helper.destroy
       THEN /\ helper' = [helper EXCEPT !.router = TRUE]
            /\ destroyer' = [destroyer EXCEPT !.at = "begin"]
            /\ connector' = "done"
            /\ UNCHANGED refresher
       ELSE /\ \E timeout \in BOOLEAN :
                  /\ helper' = [helper EXCEPT !.router = TRUE, !.session = TRUE,
                                              !.connected = TRUE, !.refreshThread = timeout]
                  /\ refresher' = IF timeout THEN [refresher EXCEPT !.at = "send"] ELSE refresher
            /\ connector' = "connected"
            /\ UNCHANGED destroyer
    /\ UNCHANGED <<communicator, external, queue, callbacks, threw>>

\* dispatchCallback(Connected); an exception of the callback reaches the ConnectThread.
ConnectedCallback ==
    /\ connector = "connected" /\ Running
    /\ IF helper.dispatcher
       THEN Enqueue("connected") /\ connector' = "done" /\ UNCHANGED <<helper, destroyer>>
       ELSE /\ \/ RunConnected("no") /\ connector' = "done"
               \/ RunConnected("exception") /\ connector' = "failing"
            /\ UNCHANGED queue
    /\ UNCHANGED <<communicator, refresher, external>>

\* connectFailed(): Communicator::destroy() waits for callbacks that are under way.
ConnectFailed ==
    /\ connector = "failing" /\ ~failure /\ Running
    /\ communicator' = "destroyed"
    /\ connector' = "failed"
    /\ atRouter' = FALSE
    /\ UNCHANGED <<helper, destroyer, refresher, failure, queue, callbacks, threw>>

\* dispatchCallback(ConnectFailed), by the ConnectThread or the DispatchCallThread.
ConnectFailedCallback ==
    /\ connector \in {"failed", "initFailed"} /\ Running
    /\ connector' = "done"
    /\ IF helper.dispatcher THEN Enqueue("connectFailed")
       ELSE Notify("connectFailed") /\ UNCHANGED <<queue, threw>>
    /\ UNCHANGED <<helper, communicator, destroyer, refresher, external>>

-----------------------------------------------------------------------------
(* SessionRefreshThread *)

\* begin_refreshSession() throws only if the communicator is destroyed; its outcome is
\* reported by a callback.
Refresh ==
    /\ refresher.at = "send" /\ Running
    /\ IF communicator = "destroyed"
       THEN refresher' = [refresher EXCEPT !.at = "done"] /\ UNCHANGED failure
       ELSE /\ refresher' = [refresher EXCEPT !.at = IF refresher.done THEN "done" ELSE "wait"]
            /\ failure' \in {failure, TRUE}
    /\ UNCHANGED <<helper, communicator, connector, destroyer, queue, atRouter, callbacks, threw>>

\* timedWait() ends: after the period or because of notify().
RefreshWakes ==
    /\ refresher.at = "wait" /\ Running
    /\ refresher' = [refresher EXCEPT !.at = IF refresher.done THEN "done" ELSE "send"]
    /\ UNCHANGED <<helper, communicator, connector, destroyer, external, queue, callbacks, threw>>

\* failure(): done(), then destroy().
RefreshFailed ==
    /\ failure /\ Running
    /\ failure' = FALSE
    /\ refresher' = [refresher EXCEPT !.done = TRUE]
    /\ DoDestroy
    /\ UNCHANGED <<communicator, connector, queue, atRouter, callbacks, threw>>

-----------------------------------------------------------------------------
(* destroyInternal(), in the DestroyInternal thread *)

DestroyInternal ==
    /\ destroyer.at = "begin" /\ Running
    /\ destroyer' = [at |-> "router", router |-> helper.router,
                     refreshThread |-> helper.refreshThread]
    /\ helper' = [helper EXCEPT !.router = FALSE, !.connected = FALSE, !.refreshThread = FALSE]
    /\ UNCHANGED <<communicator, connector, refresher, external, queue, callbacks, threw>>

\* Mutant of DestroySession: the refresh thread is not told to end.
DestroySessionNotDone ==
    /\ destroyer.at = "router" /\ Running
    /\ atRouter' \in {atRouter, FALSE}
    /\ destroyer' = [destroyer EXCEPT !.at = "join"]
    /\ UNCHANGED <<helper, communicator, connector, refresher, failure, queue, callbacks, threw>>

\* destroySession(), whose exceptions are ignored; done() of the refresh thread.
DestroySession ==
    /\ destroyer.at = "router" /\ Running
    /\ atRouter' \in {atRouter, FALSE}
    /\ refresher' = [refresher EXCEPT !.done = @ \/ destroyer.refreshThread]
    /\ destroyer' = [destroyer EXCEPT !.at = "join"]
    /\ UNCHANGED <<helper, communicator, connector, failure, queue, callbacks, threw>>

\* Mutant of JoinRefresher: nobody waits for the refresh thread.
JoinRefresherNot ==
    /\ destroyer.at = "join" /\ Running
    /\ destroyer' = [destroyer EXCEPT !.at = "communicator"]
    /\ UNCHANGED <<helper, communicator, connector, refresher, external, queue, callbacks, threw>>

JoinRefresher ==
    /\ destroyer.at = "join" /\ Running
    /\ destroyer.refreshThread => refresher.at = "done"
    /\ destroyer' = [destroyer EXCEPT !.at = "communicator"]
    /\ UNCHANGED <<helper, communicator, connector, refresher, external, queue, callbacks, threw>>

DestroyCommunicator ==
    /\ destroyer.at = "communicator" /\ ~failure /\ Running
    /\ communicator' = "destroyed"
    /\ atRouter' = FALSE
    /\ destroyer' = [destroyer EXCEPT !.at = "callback"]
    /\ UNCHANGED <<helper, connector, refresher, failure, queue, callbacks, threw>>

Disconnected ==
    /\ destroyer.at = "callback" /\ Running
    /\ destroyer' = [destroyer EXCEPT !.at = "done"]
    /\ IF helper.dispatcher THEN Enqueue("disconnected")
       ELSE Notify("disconnected") /\ UNCHANGED <<queue, threw>>
    /\ UNCHANGED <<helper, communicator, connector, refresher, external>>

-----------------------------------------------------------------------------
ConnectorStep ==
    CreatedCommunicator \/ Connect \/ Connected \/ ConnectedCallback \/ ConnectFailed
    \/ ConnectFailedCallback
DestroyerStep ==
    DestroyInternal \/ DestroySession \/ JoinRefresher \/ DestroyCommunicator \/ Disconnected

Next ==
    \/ ConnectImpl \/ Destroy \/ Dispatch
    \/ ConnectorStep \/ DestroyerStep
    \/ Refresh \/ RefreshWakes \/ RefreshFailed

Spec == Init /\ [][Next]_vars

\* Threads run, remote invocations end, and the dispatcher runs its calls.
Fairness ==
    /\ WF_vars(ConnectorStep) /\ WF_vars(DestroyerStep) /\ WF_vars(Dispatch)
    /\ WF_vars(Refresh) /\ WF_vars(RefreshWakes) /\ WF_vars(RefreshFailed)

FairSpec == Spec /\ Fairness

-----------------------------------------------------------------------------
(* Properties *)

Told(c) == Contains(callbacks, c)

\* The application is told of each event once, and of one end only: that the session was
\* not established, or that it is disconnected.  When it is told, the communicator is
\* destroyed and the refresh thread has ended, whoever ended the session.  An exception
\* that the application's connected() lets out is the one way to get a second end.
OneEnd ==
    /\ IsInjective(callbacks)
    /\ threw # "connected" =>
           /\ ~(Told("connectFailed") /\ (Told("connected") \/ Told("disconnected")))
           /\ helper.connected => helper.router /\ helper.session /\ communicator = "alive"
    /\ Told("disconnected") => communicator = "destroyed" /\ refresher.at \in {"none", "done"}
    /\ Told("connectFailed") => communicator # "alive"

\* destroy() in any phase leads to the end of the session: the router forgets it, the
\* communicator is destroyed and the application is told, unless its own callback keeps
\* the ConnectThread waiting or ends the process.
SessionEnds ==
    helper.destroy ~>
        \/ ~atRouter /\ communicator # "alive" /\ (Told("disconnected") \/ Told("connectFailed"))
        \/ threw \in {"created", "terminated"}
=============================================================================
