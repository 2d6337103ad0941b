----------------------------- MODULE Invocation -----------------------------
(***************************************************************************)
(* What the Ice runtime promises for the invocations that are made on one  *)
(* connection: each is dispatched by the peer at most once, and its caller *)
(* learns that it succeeded, that it failed, or that it may be retried     *)
(* (on another connection) because it was not and will not be dispatched.  *)
(***************************************************************************)
CONSTANTS
    Requests,   \* the invocations
    Twoway      \* those that expect a reply

VARIABLES
    executed,   \* the invocations that the peer dispatched
    outcome     \* outcome[r]: what the caller of r knows

vars == <<executed, outcome>>

Init ==
    /\ executed = {}
    /\ outcome = [r \in Requests |-> "idle"]

\* What the caller of r may learn in a step: a oneway succeeds when it is sent,
\* a twoway once it was dispatched; a request that the peer dispatched is never
\* to be retried.
MayBecome(r, new) ==
    \/ new = outcome[r]
    \/ outcome[r] = "idle" /\ new = "pending"
    \/ outcome[r] \in {"idle", "pending"} /\ new = "ok"
       /\ (r \in Twoway => r \in executed)
    \/ outcome[r] \in {"idle", "pending"} /\ new = "retry" /\ r \notin executed
    \/ outcome[r] = "pending" /\ new = "failed"

\* The peer dispatches requests that were sent, and not those that their caller
\* may already be sending again.
Next ==
    /\ executed \subseteq executed'
    /\ \A r \in executed' \ executed : outcome[r] \notin {"idle", "retry"}
    /\ \A r \in executed' \ executed : outcome'[r] # "retry"
    /\ executed' \subseteq Requests
    /\ outcome' \in [Requests -> {"idle", "pending", "ok", "retry", "failed"}]
    /\ \A r \in Requests : MayBecome(r, outcome'[r])

Spec == Init /\ [][Next]_vars

-----------------------------------------------------------------------------

\* An invocation that may be retried was not dispatched.
AtMostOnce == \A r \in Requests : outcome[r] = "retry" => r \notin executed

\* What a caller was told is final, and a dispatch is not undone.
Final ==
    [][/\ executed \subseteq executed'
       /\ \A r \in Requests :
            outcome[r] \in {"ok", "retry", "failed"} => outcome'[r] = outcome[r]]_vars
=============================================================================
