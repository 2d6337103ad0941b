------------------------------ MODULE Router -------------------------------
(***************************************************************************)
(* IceInternal::RouterInfo (cpp/src/Ice/RouterInfo.cpp): the client's      *)
(* record of the proxies that its router knows.  A proxy is added to the   *)
(* router before its first invocation; the router has room for Capacity    *)
(* proxies and its answer names those that it evicted.  Several additions  *)
(* may be under way, and their answers are processed in any order.  An     *)
(* invocation that the router does not know is answered with               *)
(* ObjectNotExistException for "ice_add_proxy": the record is corrected    *)
(* and the invocation made again (ProxyFactory.cpp).                       *)
(*                                                                         *)
(* The router is external: it evicts the proxy that was used least         *)
(* recently.                                                               *)
(***************************************************************************)
EXTENDS Naturals, Sequences, SequencesExt

CONSTANTS
    Proxies,       \* identities of proxies
    Users,         \* threads that invoke on a proxy
    Capacity,      \* of the router
    MaxRouterLoss  \* bound on the calls of addProxies() that fail

VARIABLES
    identities,    \* _identities
    evicted,       \* _evictedIdentities: evicted[p] is the number of times that p is in it
    routes,        \* the router's proxies, the least recently used first
    user,          \* where each user is
    losses,        \* calls of addProxies() that failed
    overlapped     \* two additions of the same proxy were under way (history)

rvars == <<identities, evicted, routes, user, losses, overlapped>>

RTypeOK ==
    /\ identities \subseteq Proxies
    /\ evicted \in [Proxies -> Nat]
    /\ routes \in Seq(Proxies) /\ Len(routes) <= Capacity
    /\ user \in [Users -> [at : {"idle", "check", "add", "reply", "invoke", "done", "failed"},
                           proxy : Proxies, reply : SUBSET Proxies]]
    /\ losses \in 0 .. MaxRouterLoss /\ overlapped \in BOOLEAN

Init ==
    /\ identities = {} /\ evicted = [p \in Proxies |-> 0]
    /\ routes = <<>> /\ losses = 0 /\ overlapped = FALSE
    /\ user = [u \in Users |-> [at |-> "idle", proxy |-> CHOOSE p \in Proxies : TRUE, reply |-> {}]]

Goes(u, place) == user' = [user EXCEPT ![u].at = place]

-----------------------------------------------------------------------------
\* A user invokes on a proxy of its choice.
Begin(u) ==
    /\ user[u].at \in {"idle", "done", "failed"}
    /\ \E p \in Proxies :
           user' = [user EXCEPT ![u] = [at |-> "check", proxy |-> p, reply |-> {}]]
    /\ UNCHANGED <<identities, evicted, routes, losses, overlapped>>

\* addProxy(): only proxies that are not in the local map are added.
AddProxy(u) ==
    /\ user[u].at = "check"
    /\ Goes(u, IF user[u].proxy \in identities THEN "invoke" ELSE "add")
    /\ overlapped' = (overlapped \/ \E v \in Users \ {u} :
           /\ user[v].at \in {"add", "reply"} /\ user[v].proxy = user[u].proxy
           /\ user[u].proxy \notin identities)
    /\ UNCHANGED <<identities, evicted, routes, losses>>

\* Router::addProxies() (external).
Without(table, p) ==
    IF Contains(table, p) THEN RemoveAt(table, CHOOSE i \in 1 .. Len(table) : table[i] = p)
    ELSE table
Used(table, p) == Append(Without(table, p), p)
RouterAdds(u) ==
    LET table == Used(routes, user[u].proxy)
        over == IF Len(table) > Capacity THEN Len(table) - Capacity ELSE 0
    IN
    /\ user[u].at = "add"
    /\ routes' = SubSeq(table, over + 1, Len(table))
    /\ user' = [user EXCEPT ![u].at = "reply", ![u].reply = ToSet(SubSeq(table, 1, over))]
    /\ UNCHANGED <<identities, evicted, losses, overlapped>>

\* The call fails, before or after the router executed it: addProxyException().
RouterFails(u) ==
    /\ user[u].at \in {"add", "reply"} /\ losses < MaxRouterLoss
    /\ losses' = losses + 1
    /\ user' = [user EXCEPT ![u].at = "failed", ![u].reply = {}]
    /\ UNCHANGED <<identities, evicted, routes, overlapped>>

\* Mutant of AddAndEvictProxies: evictions of proxies that are not known yet are forgotten.
AddAndEvictProxiesForgetful(u) ==
    /\ user[u].at = "reply"
    /\ identities' = (identities \cup {user[u].proxy}) \ user[u].reply
    /\ user' = [user EXCEPT ![u].at = "invoke", ![u].reply = {}]
    /\ UNCHANGED <<evicted, routes, losses, overlapped>>

\* addAndEvictProxies(): the proxy may already be evicted by a concurrent addition, and
\* proxies that were evicted may not be in the local map yet.
AddAndEvictProxies(u) ==
    LET p == user[u].proxy
        undone == evicted[p] > 0
        known == IF undone THEN identities ELSE identities \cup {p}
        left == IF undone THEN [evicted EXCEPT ![p] = @ - 1] ELSE evicted
    IN
    /\ user[u].at = "reply"
    /\ identities' = known \ user[u].reply
    /\ evicted' = [q \in Proxies |->
                      IF q \in user[u].reply \ known THEN left[q] + 1 ELSE left[q]]
    /\ user' = [user EXCEPT ![u].at = "invoke", ![u].reply = {}]
    /\ UNCHANGED <<routes, losses, overlapped>>

\* Mutant of Invoke: the cache is not cleared when the router does not know the proxy.
InvokeNoClear(u) ==
    LET p == user[u].proxy IN
    /\ user[u].at = "invoke"
    /\ IF Contains(routes, p) THEN routes' = Used(routes, p) /\ Goes(u, "done")
       ELSE Goes(u, "check") /\ UNCHANGED routes
    /\ UNCHANGED <<identities, evicted, losses, overlapped>>

\* The router forwards the request, or does not know the proxy: then
\* checkRetryAfterException() calls clearCache() and the proxy is added again.
Invoke(u) ==
    LET p == user[u].proxy IN
    /\ user[u].at = "invoke"
    /\ \/ /\ Contains(routes, p)
          /\ routes' = Used(routes, p)
          /\ Goes(u, "done")
          /\ UNCHANGED identities
       \/ /\ ~Contains(routes, p)
          /\ identities' = identities \ {p}
          /\ Goes(u, "check")
          /\ UNCHANGED routes
    /\ UNCHANGED <<evicted, losses, overlapped>>

-----------------------------------------------------------------------------
UserStep(u) ==
    AddProxy(u) \/ RouterAdds(u) \/ AddAndEvictProxies(u) \/ Invoke(u)

Next == \E u \in Users : Begin(u) \/ UserStep(u) \/ RouterFails(u)

Spec == Init /\ [][Next]_rvars

Fairness == \A u \in Users : WF_rvars(UserStep(u))

FairSpec == Spec /\ Fairness

-----------------------------------------------------------------------------
(* Properties *)

\* While no answer of the router is under way, the client believes of no proxy that the
\* router knows it when it does not, in whatever order answers are processed: unless a
\* call failed, or two additions of one proxy were under way at the same time.
RecordExact ==
    (\A u \in Users : user[u].at # "reply") /\ losses = 0 /\ ~overlapped =>
        identities \subseteq ToSet(routes)

\* A wrong record heals: whoever has to try again and again does so because others get
\* their invocations through; users whose proxies fit into the router do not keep each
\* other out.
SomeoneGetsThrough ==
    \A u \in Users : []<>(user[u].at = "check") => []<>(\E v \in Users : user[v].at = "done")
=============================================================================
