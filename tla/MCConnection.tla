---------------------------- MODULE MCConnection ----------------------------
(* Model-checking instances of Connection. *)
EXTENDS Connection, TLC

CONSTANTS callA, callB, callC   \* invocations

\* callA is a twoway and callB a oneway invocation of the client, callC a callback
\* invocation of the server over the same (bidirectional) connection.
CallerABC == callA :> "client" @@ callB :> "client" @@ callC :> "server"
CallerA == callA :> "client"
CallerAB == callA :> "client" @@ callB :> "client"

\* A connection serves its users: every invocation is completed, with its result or an
\* exception, and a connection that is closing ends up finished.
ConnectionServes == CallsComplete /\ ClosingFinishes
=============================================================================
