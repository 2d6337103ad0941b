------------------------------ MODULE MCSlice ------------------------------
(***************************************************************************)
(* SliceUnit for any names and references, and the ones that MCTools       *)
(* tries.                                                                  *)
(***************************************************************************)
EXTENDS Naturals, FiniteSets, Sequences

CONSTANTS Inputs, Reserved, Int32Max

VARIABLES input, tree, stack, introduced, errors, uses

U == INSTANCE SliceUnit

\* The units have a bounded number of definitions, and no builtin type is called like the
\* two forms of a type that is defined.
ASSUME SliceAssumption ==
    \A i \in DOMAIN Inputs :
        Inputs[i].nodes \in Nat /\ Inputs[i].builtins \cap {"named", "proxy"} = {}

Rules == {"module", "struct", "exception", "sequence", "dictionary", "enum", "enumerator",
          "const", "class_decl", "class", "interface", "interface_decl", "operation",
          "parameter", "member"}

\* All rules.  Three names, two of them with the same letter, in module m or a.  Types differ
\* in which of the names they can have, so that every pair of names meets.
SomeNames ==
    LET m == <<"m", 1>>  a == <<"a", 1>>  A == <<"a", 2>>  b == <<"b", 1>> IN
    [names |-> [r \in Rules |->
                   CASE r = "module" -> {m, a}
                     [] r \in {"sequence", "dictionary", "const"} -> {A, b}
                     [] r \in {"class_decl", "class", "interface", "interface_decl"} -> {a, A, b}
                     [] OTHER -> {a, A}],
     refs |-> {<<a>>, <<b>>}, builtins |-> {"int", "LocalObject"}, locals |-> BOOLEAN,
     nodes |-> 4]

\* Four interfaces in a module, with operations of one name.
Inheritance ==
    [names |-> [r \in Rules |->
                   CASE r = "module" -> {<<0, 1>>}
                     [] r = "interface" -> {<<i, 1>> : i \in 1 .. 4}
                     [] r = "operation" -> {<<9, 1>>} [] OTHER -> {}],
     refs |-> {<<<<i, 1>>>> : i \in 1 .. 3}, builtins |-> {}, locals |-> {FALSE}, nodes |-> 10]

InputsTried == [general |-> SomeNames, inheritance |-> Inheritance]

\* Parser.cpp: in a unit without errors every scoped name has one meaning, also where it
\* is used before and after another definition, and no class inherits two operations of
\* one name.
NamesExact == U!UTypeOK /\ U!NamesDistinct /\ U!UsesAgree /\ U!OperationsDistinct

\* Parser.cpp: from a definition that can be sent nothing local can be reached.
NonLocalClosed == U!NonLocalClosed
=============================================================================
