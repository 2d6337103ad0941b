------------------------------ MODULE MCTools ------------------------------
(***************************************************************************)
(* Model-checking instances of two of the tools, the Slice parser and      *)
(* IcePatch2.  part names the tool that a behaviour belongs to, and the    *)
(* variables of the other one keep their initial values.                   *)
(***************************************************************************)
EXTENDS MCPatcher, MCSlice

VARIABLE part

\* With the interfaces of Inheritance, every order of definition is a renaming of the one in
\* which the names ascend; operations return nothing, and the module is opened once.
Ascending ==
    /\ \A x \in DOMAIN tree :
           tree[x].kind = "classdef" => tree[x].name[1] = Cardinality(
               {y \in 1 .. x : tree[y].kind = "classdef"})
    /\ \A x \in DOMAIN tree : tree[x].kind = "module" => x = 1
    /\ \A x \in DOMAIN tree : tree[x].kind = "operation" => tree[x].type = U!Void

unitVars == <<input, tree, stack, introduced, errors, uses>>
patchVars == <<config, disk, summary, log, release, me, dec, crashes, torn>>
vars == <<part, unitVars, patchVars>>

Init ==
    /\ P!Init /\ U!UInit
    /\ \/ part = "unit" /\ config = CHOOSE c \in Configs : TRUE
       \/ part = "patch" /\ input = CHOOSE i \in DOMAIN Inputs : TRUE

Next ==
    /\ \/ /\ part = "unit" /\ U!UNext /\ (input = "inheritance" => Ascending')
          /\ UNCHANGED patchVars
       \/ part = "patch" /\ P!Next /\ UNCHANGED unitVars
    /\ UNCHANGED part

\* The threads of IcePatch2 run; the parser stops where its input ends.
Fairness == part = "patch" => P!Fairness

Spec == Init /\ [][Next]_vars /\ Fairness

\* Patcher: a session ends.
PatchEnds == part = "patch" => P!PatchEnds
=============================================================================
