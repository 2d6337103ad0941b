---------------------------- MODULE MCThreadPool ----------------------------
(***************************************************************************)
(* A model-checking instance of ThreadPool, for its invariants.            *)
(***************************************************************************)
EXTENDS ThreadPool, TLC

CONSTANTS t1, t2, t3, h1, h2

\* The identities of threads and handlers are interchangeable.
Symmetry == Permutations(Threads) \cup Permutations(Handlers)
=============================================================================
