----------------------------- MODULE SliceUnit -----------------------------
(***************************************************************************)
(* Slice::Unit and Slice::Container (cpp/src/Slice/Parser.cpp): the table  *)
(* of definitions that the actions of the grammar (Grammar.y) build while  *)
(* a Slice file is parsed, and the rules it enforces.                      *)
(*                                                                         *)
(* A name is a pair of a letter and a spelling: names with one letter      *)
(* differ only in capitalization.  A reference is a sequence of names,     *)
(* looked up from the current scope outwards.  Each action is one rule of  *)
(* the grammar.  After an error the parser goes on only to report others;  *)
(* the unit is then discarded, so the model stops.                         *)
(***************************************************************************)
EXTENDS Naturals, FiniteSets, FiniteSetsExt, Sequences, SequencesExt

CONSTANTS
    Inputs,     \* Inputs[i]: what is tried, see below
    Reserved,   \* names that checkIdentifier() rejects
    Int32Max    \* the largest value of an enumerator

VARIABLES
    input,      \* the index of what is tried
    tree,       \* all definitions in the order of their creation
    stack,      \* _containerStack: indices into tree, 0 is the unit
    introduced, \* introduced[c]: _introducedMap, pairs of a letter and a scoped name
    errors,     \* _errors is not 0
    uses        \* what references meant: <<container, letter, scoped name>> (history)

Names == Inputs[input].names        \* Names[r]: pairs <<letter, spelling>> for rule r
Refs == Inputs[input].refs          \* references
Builtins == Inputs[input].builtins  \* builtin types
Locals == Inputs[input].locals      \* values of local_qualifier
MaxNodes == Inputs[input].nodes     \* bound on the definitions of a unit

unitVars == <<input, tree, stack, introduced, errors, uses>>

Kinds == {"module", "classdecl", "classdef", "exception", "struct", "sequence", "dictionary",
          "enum", "enumerator", "const", "operation", "parameter", "member"}
TypeKinds == {"classdecl", "struct", "sequence", "dictionary", "enum"}

\* A type is a builtin one, a definition or a proxy of a class declaration.
Builtin(b) == [b |-> b, node |-> 0]
Void == Builtin("void")

Blank == [kind |-> "module", name |-> <<>>, scoped |-> <<>>, in |-> 0, intf |-> FALSE,
          local |-> FALSE, type |-> Void, value |-> Void, bases |-> <<>>,
          tag |-> 0, out |-> FALSE, number |-> 0]

UTypeOK ==
    /\ Len(tree) <= MaxNodes + 3
    /\ \A i \in DOMAIN tree : tree[i].kind \in Kinds /\ tree[i].in \in 0 .. (i - 1)
    /\ \A i \in DOMAIN stack : stack[i] \in 0 .. Len(tree)
    /\ errors \in BOOLEAN

UInit ==
    /\ input \in DOMAIN Inputs
    /\ tree = <<>> /\ stack = <<0>> /\ introduced = [c \in 0 .. MaxNodes + 3 |-> {}]
    /\ errors = FALSE /\ uses = {}

-----------------------------------------------------------------------------
(* Scopes and names *)

Current == Last(stack)
Scope(c) == IF c = 0 THEN <<>> ELSE tree[c].scoped
KindOf(c) == IF c = 0 THEN "unit" ELSE tree[c].kind
Lower(path) == [i \in DOMAIN path |-> path[i][1]]
SameLetters(m, n) == m[1] = n[1]

FindContents(path) == {i \in DOMAIN tree : Lower(tree[i].scoped) = Lower(path)}
Contents(c, kind) == {i \in DOMAIN tree : tree[i].in = c /\ tree[i].kind = kind}

\* lookupContained(): from the scope outwards, class definitions ignored; with the path
\* where something was found.
Found(c, ref) ==
    LET At(k) == {i \in FindContents(SubSeq(Scope(c), 1, k) \o ref) : tree[i].kind # "classdef"}
        levels == {k \in 0 .. Len(Scope(c)) : At(k) # {}}
    IN IF levels = {} THEN [nodes |-> {}, path |-> <<>>]
       ELSE [nodes |-> At(Max(levels)), path |-> SubSeq(Scope(c), 1, Max(levels)) \o ref]

LookupContained(c, ref) == Found(c, ref).nodes
WellSpelled(c, ref) == \A i \in Found(c, ref).nodes : tree[i].scoped = Found(c, ref).path
LookupType(c, ref) ==
    LET found == Found(c, ref).nodes IN
    [ok |-> found # {} /\ WellSpelled(c, ref) /\ \A i \in found : tree[i].kind \in TypeKinds,
     type |-> IF found = {} THEN Void ELSE [b |-> "named", node |-> Min(found)]]

IsLocal(t) ==
    \/ t.b = "LocalObject"
    \/ t.b \in {"named", "proxy"} /\ tree[t.node].local

\* checkIdentifier(), and nameIsLegal() which looks at the enclosing modules.
CheckIdentifier(n) == n \notin Reserved
NameIsLegal(c, n) ==
    KindOf(c) = "module" => \A i \in DOMAIN Scope(c) : ~SameLetters(Scope(c)[i], n)
CheckForGlobalDef(c) == c # 0
Fresh(c, n) == FindContents(Append(Scope(c), n)) = {}

\* checkIntroduced() for a reference: its first component is introduced.
IntroducedBy(c, ref) ==
    LET first == LookupContained(c, <<Head(ref)>>)
    IN IF first = {} THEN {} ELSE {<<Head(ref)[1], tree[Min(first)].scoped>>}
\* The same with the thing that the reference names.
IntroducedAs(ref, scoped) ==
    {<<Head(ref)[1], SubSeq(scoped, 1, Len(scoped) - Len(ref) + 1)>>}
Consistent(pairs) == \A p, q \in pairs : p[1] = q[1] => p[2] = q[2]

\* The end of every rule.  ok: no error so far; refs and own: what is introduced by the
\* references of the rule and by its own definition; push: whether the first of the new
\* definitions becomes the current container.
Finish(ok, refs, nodes, own, push) ==
    LET known == introduced[Current] \cup refs \cup own IN
    IF ok /\ Consistent(known)
    THEN /\ tree' = tree \o nodes
         /\ introduced' = [introduced EXCEPT ![Current] = known]
         /\ uses' = uses \cup {<<Current, p[1], p[2]>> : p \in refs}
         /\ stack' = IF push THEN Append(stack, Len(tree) + 1) ELSE stack
         /\ UNCHANGED errors
    ELSE errors' = TRUE /\ UNCHANGED <<tree, stack, introduced, uses>>

Define(n, kind) ==
    [Blank EXCEPT !.kind = kind, !.name = n, !.in = Current,
                  !.scoped = Append(Scope(Current), n)]
Named(n) == {<<n[1], Append(Scope(Current), n)>>}

\* What most rules check of a new name.
Definable(n) ==
    /\ CheckIdentifier(n) /\ Fresh(Current, n) /\ NameIsLegal(Current, n)
    /\ CheckForGlobalDef(Current)

\* A rule of the grammar is tried with some names, where the current container allows it.
Rule(r, n, containers) ==
    /\ n \in Names[r]
    /\ ~errors /\ Len(tree) < MaxNodes /\ KindOf(Current) \in containers

\* The types that a rule can name, and what naming them introduces.
TypeTokens == {<<"builtin", b>> : b \in Builtins} \cup {<<"named", r>> : r \in Refs}
                \cup {<<"proxy", r>> : r \in Refs}
TypeRule(t) ==
    IF t[1] = "builtin" THEN [ok |-> TRUE, type |-> Builtin(t[2]), refs |-> {}]
    ELSE LET l == LookupType(Current, t[2]) IN
         [ok |-> /\ l.ok
                 /\ t[1] = "proxy" => KindOf(l.type.node) = "classdecl" /\ ~IsLocal(l.type),
          type |-> [l.type EXCEPT !.b = IF l.ok THEN t[1] ELSE @],
          refs |-> IF l.ok THEN IntroducedBy(Current, t[2]) ELSE {}]
-----------------------------------------------------------------------------
(* Definitions in modules *)

\* A module can be reopened, spelled as before.
CreateModule(n) ==
    /\ Rule("module", n, {"unit", "module"})
    /\ LET matches == FindContents(Append(Scope(Current), n)) IN
       Finish(/\ CheckIdentifier(n) /\ NameIsLegal(Current, n)
              /\ \A i \in matches : tree[i].kind = "module" /\ tree[i].name = n,
              {}, <<Define(n, "module")>>, Named(n), TRUE)

CreateStruct(n, local) ==
    /\ Rule("struct", n, {"unit", "module"})
    /\ Finish(Definable(n), {}, <<[Define(n, "struct") EXCEPT !.local = local]>>, Named(n), TRUE)

CreateException(n, base, local) ==
    /\ Rule("exception", n, {"unit", "module"})
    /\ LET found == LookupContained(Current, base) IN
       IF base = <<>>
       THEN Finish(Definable(n), {}, <<[Define(n, "exception") EXCEPT !.local = local]>>,
                   Named(n), TRUE)
       ELSE Finish(/\ found # {} /\ WellSpelled(Current, base)
                   /\ \A i \in found : tree[i].kind = "exception"
                   /\ Definable(n)
                   /\ ~local => \A i \in found : ~tree[i].local,
                   IntroducedBy(Current, base),
                   <<[Define(n, "exception") EXCEPT !.local = local, !.bases = <<Min(found)>>]>>,
                   Named(n), TRUE)

\* The name of a sequence, dictionary, constant, enumerator or declared class is not
\* introduced by its definition.
CreateSequence(n, t, local) ==
    /\ Rule("sequence", n, {"unit", "module"})
    /\ LET e == TypeRule(t) IN
       Finish(e.ok /\ Definable(n) /\ (~local => ~IsLocal(e.type)), e.refs,
              <<[Define(n, "sequence") EXCEPT !.local = local, !.type = e.type]>>, {}, FALSE)

\* Dictionary::legalKeyType(), for the definitions of the unit.
LegalKeyType(t) ==
    LET simple(x) == x.b \in {"byte", "bool", "short", "int", "long", "string"}
        legal[i \in DOMAIN tree] ==
            LET ok(x) == simple(x) \/ (x.b = "named" /\ legal[x.node]) IN
            CASE tree[i].kind = "enum"     -> TRUE
              [] tree[i].kind = "sequence" -> ok(tree[i].type)
              [] tree[i].kind = "struct"   -> \A m \in Contents(i, "member") : ok(tree[m].type)
              [] OTHER                     -> FALSE
    IN simple(t) \/ (t.b = "named" /\ legal[t.node])

\* Mutant of CreateDictionary: the value may be local.
CreateDictionaryLocalValue(n, kt, vt, local) ==
    /\ Rule("dictionary", n, {"unit", "module"})
    /\ LET k == TypeRule(kt)  v == TypeRule(vt) IN
       Finish(/\ k.ok /\ v.ok /\ Definable(n) /\ LegalKeyType(k.type)
              /\ ~local => ~IsLocal(k.type),
              k.refs \cup v.refs,
              <<[Define(n, "dictionary") EXCEPT !.local = local, !.type = k.type,
                                                !.value = v.type]>>, {}, FALSE)

CreateDictionary(n, kt, vt, local) ==
    /\ Rule("dictionary", n, {"unit", "module"})
    /\ LET k == TypeRule(kt)  v == TypeRule(vt) IN
       Finish(/\ k.ok /\ v.ok /\ Definable(n) /\ LegalKeyType(k.type)
              /\ ~local => ~IsLocal(k.type) /\ ~IsLocal(v.type),
              k.refs \cup v.refs,
              <<[Define(n, "dictionary") EXCEPT !.local = local, !.type = k.type,
                                                !.value = v.type]>>, {}, FALSE)

\* Enum::setEnumerators(): a value is given or one more than the one before; ens is a
\* sequence of names with their value, or -1.
EnumValues(ens) ==
    LET value[i \in 0 .. Len(ens)] ==
            IF i = 0 THEN -1 ELSE IF ens[i][2] >= 0 THEN ens[i][2] ELSE value[i - 1] + 1
    IN [i \in DOMAIN ens |-> value[i]]

\* The enumerators are defined in the scope of the enumeration.
CreateEnum(n, ens, local) ==
    /\ Rule("enum", n, {"unit", "module"})
    /\ LET values == EnumValues(ens) IN
       Finish(/\ Definable(n)
              /\ \A i \in DOMAIN ens :
                     /\ CheckIdentifier(ens[i][1]) /\ Fresh(Current, ens[i][1])
                     /\ NameIsLegal(Current, ens[i][1]) /\ ~SameLetters(ens[i][1], n)
                     /\ values[i] <= Int32Max
                     /\ \A j \in 1 .. (i - 1) :
                            values[j] # values[i] /\ ~SameLetters(ens[j][1], ens[i][1]),
              {},
              <<[Define(n, "enum") EXCEPT !.local = local]>> \o
                  [i \in DOMAIN ens |-> [Define(ens[i][1], "enumerator")
                       EXCEPT !.type = [b |-> "named", node |-> Len(tree) + 1],
                              !.number = values[i]]],
              Named(n), FALSE)

\* validateConstant(): the kinds of types that may initialize one another, and ranges.
Integral == {"byte", "short", "int", "long"}
Real == {"float", "double"}
Assignable(t, vt) ==
    \/ t = vt /\ t \in {"bool", "string"}
    \/ t \in Integral /\ vt \in Integral
    \/ t \in Real /\ vt \in Integral \cup Real
RangeOf(t) == IF t = "byte" THEN 0 .. 1 ELSE 0 .. 3
ValidateConstant(t, v) ==
    \/ /\ v.kind = "literal" /\ t.b # "named" /\ Assignable(t.b, v.type.b)
       /\ t.b \in {"byte", "short", "int"} => v.number \in RangeOf(t.b)
    \/ /\ v.kind = "const" /\ t.b # "named" /\ Assignable(t.b, v.type.b)
       /\ t.b \in {"byte", "short", "int"} => v.number \in RangeOf(t.b)
    \/ /\ v.kind \in {"const", "enumerator"} /\ t.b = "named" /\ KindOf(t.node) = "enum"
       /\ v.type = t

\* const_initializer: a literal or a reference to a constant or an enumerator.
Initializers == {<<"int", i>> : i \in {0, 2}} \cup {<<"ref", r>> : r \in Refs}
Initializer(i) ==
    IF i[1] = "int"
    THEN [ok |-> TRUE, v |-> [Blank EXCEPT !.kind = "literal", !.type = Builtin("long"),
                                           !.number = i[2]], refs |-> {}]
    ELSE LET found == LookupContained(Current, i[2]) IN
         IF found = {} \/ ~WellSpelled(Current, i[2]) \/ KindOf(Min(found)) \notin {"const", "enumerator"}
         THEN [ok |-> FALSE, v |-> Blank, refs |-> {}]
         ELSE [ok |-> TRUE, v |-> tree[Min(found)],
               refs |-> IntroducedAs(i[2], tree[Min(found)].scoped)]

CreateConst(n, t, i) ==
    /\ Rule("const", n, {"unit", "module"})
    /\ LET c == TypeRule(t)  v == Initializer(i) IN
       Finish(c.ok /\ v.ok /\ Definable(n) /\ ValidateConstant(c.type, v.v), c.refs \cup v.refs,
              <<[Define(n, "const") EXCEPT !.type = c.type, !.number = v.v.number]>>, {}, FALSE)

-----------------------------------------------------------------------------
(* Classes and interfaces *)

\* createClassDecl(): of a class that this container declares already nothing is created.
DeclNode(n, intf, local) ==
    IF \E i \in Contents(Current, "classdecl") : tree[i].name = n THEN <<>>
    ELSE <<[Define(n, "classdecl") EXCEPT !.intf = intf, !.local = local]>>

Agrees(i, intf, local) == tree[i].intf = intf /\ tree[i].local = local

\* ClassDecl::_definition: a definition is given to all declarations of that scoped name.
Definition(decl) == {i \in FindContents(tree[decl].scoped) : tree[i].kind = "classdef"}

CreateClassDecl(n, intf, local) ==
    /\ Rule(IF intf THEN "interface_decl" ELSE "class_decl", n, {"unit", "module"})
    /\ Finish(/\ CheckIdentifier(n) /\ NameIsLegal(Current, n) /\ CheckForGlobalDef(Current)
              /\ \A i \in FindContents(Append(Scope(Current), n)) :
                     tree[i].kind \in {"classdecl", "classdef"} /\ Agrees(i, intf, local),
              {}, DeclNode(n, intf, local), IF intf THEN Named(n) ELSE {}, FALSE)

AllBases(d) ==
    LET all[i \in DOMAIN tree] == UNION {{b} \cup all[b] : b \in Range(tree[i].bases)}
    IN all[d]
AllOperations(d) == UNION {Contents(c, "operation") : c \in {d} \cup AllBases(d)}
\* Only the first base can be a class.
AllDataMembers(d) ==
    UNION {Contents(c, "member") : c \in {d} \cup {b \in AllBases(d) : ~tree[b].intf}}

\* ClassDecl::addPartition(): the paths through the inheritance graph.
AddPartition[gpl \in Seq(Seq(Nat)), base \in Nat] ==
    IF \E p \in Range(gpl) : base \in Range(p) THEN gpl
    ELSE LET put == [gpl EXCEPT ![Len(gpl)] = Append(@, base)]
             bs == tree[base].bases IN
         IF bs = <<>> THEN put
         ELSE FoldLeft(LAMBDA g, b : AddPartition[Append(g, <<>>), b],
                       AddPartition[put, Head(bs)], Tail(bs))

Partitions(bases) == FoldLeft(LAMBDA g, b : AddPartition[Append(g, <<>>), b], <<>>, bases)

\* Mutant of CheckBasesAreLegal: only the bases themselves are compared, not what they
\* inherit.
CheckBasesAreLegalShallow(bases, local) ==
    /\ \A b \in Range(bases) : tree[b].local = local
    /\ \A i, j \in DOMAIN bases : i < j =>
           \A o \in Contents(bases[i], "operation"), q \in Contents(bases[j], "operation") :
               ~SameLetters(tree[o].name, tree[q].name)

\* checkBasesAreLegal(); checkPairIntersections() looks at the operations only.
CheckBasesAreLegal(bases, local) ==
    LET gpl == Partitions(bases)
        Operations(p) == UNION {Contents(c, "operation") : c \in Range(p)}
    IN /\ \A b \in Range(bases) : tree[b].local = local
       /\ Len(bases) > 1 =>
              \A i, j \in DOMAIN gpl : i < j =>
                  \A o \in Operations(gpl[i]), q \in Operations(gpl[j]) :
                      ~SameLetters(tree[o].name, tree[q].name)

\* class_extends and interface_list: a base must be defined.  refs: the references, the
\* first of them to a class if ext.
BaseDecl(i, refs) == LookupType(Current, refs[i]).type.node
BasesFound(ext, refs) ==
    \A i \in DOMAIN refs :
        /\ LookupType(Current, refs[i]).ok /\ KindOf(BaseDecl(i, refs)) = "classdecl"
        /\ tree[BaseDecl(i, refs)].intf = ~(ext /\ i = 1)
        /\ Definition(BaseDecl(i, refs)) # {}

CreateClassDef(n, intf, local, ext, refs) ==
    /\ Rule(IF intf THEN "interface" ELSE "class", n, {"unit", "module"}) /\ (intf => ~ext) /\ (ext => refs # <<>>)
    /\ IF BasesFound(ext, refs)
       THEN LET bases == [i \in DOMAIN refs |-> Max(Definition(BaseDecl(i, refs)))] IN
            Finish(/\ CheckIdentifier(n) /\ NameIsLegal(Current, n) /\ CheckForGlobalDef(Current)
                   /\ \A i \in FindContents(Append(Scope(Current), n)) :
                          tree[i].kind = "classdecl" /\ Agrees(i, intf, local)
                   /\ CheckBasesAreLegal(bases, local),
                   UNION {IntroducedBy(Current, refs[i]) : i \in DOMAIN refs},
                   <<[Define(n, "classdef") EXCEPT !.intf = intf, !.local = local, !.bases = bases]>>
                       \o DeclNode(n, intf, local),
                   Named(n), TRUE)
       ELSE Finish(FALSE, {}, <<>>, {}, FALSE)

-----------------------------------------------------------------------------
(* Contents of classes, structures, exceptions and operations *)

\* A new member must differ from the ones around it.
Distinct(n, c, others) ==
    /\ CheckIdentifier(n) /\ Fresh(c, n) /\ ~SameLetters(n, tree[c].name)
    /\ \A o \in others : ~SameLetters(n, tree[o].name)

CreateOperation(n, t) ==
    /\ Rule("operation", n, {"classdef"})
    /\ LET r == IF t = <<>> THEN [ok |-> TRUE, type |-> Void, refs |-> {}] ELSE TypeRule(t)
           inherited == UNION {AllOperations(b) \cup AllDataMembers(b) : b \in Range(tree[Current].bases)}
       IN Finish(/\ r.ok /\ Distinct(n, Current, inherited)
                 /\ ~tree[Current].local => ~IsLocal(r.type),
                 r.refs, <<[Define(n, "operation") EXCEPT !.type = r.type]>>, Named(n), TRUE)

CreateParamDecl(n, t, out, tag) ==
    /\ Rule("parameter", n, {"operation"})
    /\ LET p == TypeRule(t)
           others == Contents(Current, "parameter") IN
       Finish(/\ p.ok /\ Distinct(n, Current, {})
              /\ others # {} => (tree[Max(others)].out => out)
              /\ ~tree[tree[Current].in].local => ~IsLocal(p.type)
              /\ tag # 0 => \A o \in others : tree[o].tag # tag,
              p.refs, <<[Define(n, "parameter") EXCEPT !.type = p.type, !.out = out, !.tag = tag]>>,
              Named(n), FALSE)

\* The end of an operation: its container is left and the exceptions are looked up, then
\* setExceptionList().
EndOperation(throws) ==
    /\ ~errors /\ KindOf(Current) = "operation"
    /\ LET op == Current  cl == tree[op].in
           found == [i \in DOMAIN throws |-> LookupContained(cl, throws[i])]
           good == \A i \in DOMAIN throws :
                       /\ found[i] # {} /\ WellSpelled(cl, throws[i])
                       /\ \A x \in found[i] : tree[x].kind = "exception"
                       /\ ~tree[cl].local => \A x \in found[i] : ~tree[x].local
                       /\ \A j \in DOMAIN throws : j # i => found[j] # found[i]
           refs == UNION {IntroducedAs(throws[i], tree[Min(found[i])].scoped) : i \in DOMAIN throws}
       IN IF good /\ Consistent(introduced[cl] \cup refs)
          THEN /\ stack' = Front(stack)
               /\ introduced' = [introduced EXCEPT ![cl] = @ \cup refs]
               /\ uses' = uses \cup {<<cl, p[1], p[2]>> : p \in refs}
               /\ UNCHANGED <<tree, errors>>
          ELSE errors' = TRUE /\ UNCHANGED <<tree, stack, introduced, uses>>

\* createDataMember() of classes, exceptions and structures; the default value is not
\* modelled, it is validated as a constant.
CreateDataMember(n, t, tag) ==
    /\ Rule("member", n, {"classdef", "struct", "exception"}) /\ ~tree[Current].intf
    /\ LET m == TypeRule(t)
           inherited ==
               CASE KindOf(Current) = "classdef"  -> UNION {AllOperations(b) \cup AllDataMembers(b) :
                                                            b \in Range(tree[Current].bases)}
                 [] KindOf(Current) = "exception" -> UNION {Contents(b, "member") : b \in AllBases(Current)}
                 [] KindOf(Current) = "struct"    -> {}
       IN Finish(/\ m.ok /\ Distinct(n, Current, inherited)
                 /\ KindOf(Current) = "struct" => ~(m.type.b = "named" /\ m.type.node = Current)
                 /\ ~tree[Current].local => ~IsLocal(m.type)
                 /\ tag # 0 => KindOf(Current) # "struct" /\
                               \A o \in Contents(Current, "member") : tree[o].tag # tag,
                 m.refs, <<[Define(n, "member") EXCEPT !.type = m.type, !.tag = tag]>>,
                 Named(n), FALSE)

\* The closing brace; an empty structure is an error.
PopContainer ==
    /\ ~errors /\ KindOf(Current) \in {"module", "classdef", "struct", "exception"}
    /\ IF KindOf(Current) = "struct" /\ Contents(Current, "member") = {}
       THEN errors' = TRUE /\ UNCHANGED stack
       ELSE stack' = Front(stack) /\ UNCHANGED errors
    /\ UNCHANGED <<tree, introduced, uses>>

AllNames == UNION {Names[r] : r \in DOMAIN Names}
Lists(S, k) == UNION {[1 .. i -> S] : i \in 0 .. k}

USteps ==
    \/ \E n \in AllNames : CreateModule(n)
    \/ \E n \in AllNames, local \in Locals :
           \/ CreateStruct(n, local)
           \/ \E base \in Refs \cup {<<>>} : CreateException(n, base, local)
           \/ \E t \in TypeTokens : CreateSequence(n, t, local)
           \/ \E t, u \in TypeTokens : CreateDictionary(n, t, u, local)
           \/ \E ens \in Lists(Names["enumerator"] \X (-1 .. Int32Max), 2) \ {<<>>} : CreateEnum(n, ens, local)
           \/ \E intf \in BOOLEAN : CreateClassDecl(n, intf, local)
           \/ \E intf, ext \in BOOLEAN, refs \in Lists(Refs, 2) : CreateClassDef(n, intf, local, ext, refs)
    \/ \E n \in AllNames, t \in TypeTokens :
           \/ \E i \in Initializers : CreateConst(n, t, i)
           \/ \E out \in BOOLEAN, tag \in 0 .. 1 : CreateParamDecl(n, t, out, tag)
           \/ \E tag \in 0 .. 1 : CreateDataMember(n, t, tag)
    \/ \E n \in AllNames, t \in TypeTokens \cup {<<>>} : CreateOperation(n, t)
    \/ \E throws \in Lists(Refs, 2) : EndOperation(throws)
    \/ PopContainer

UNext == USteps /\ UNCHANGED input

USpec == UInit /\ [][UNext]_unitVars

-----------------------------------------------------------------------------
(* Properties of a unit without errors *)

\* Two definitions whose scoped names differ at most in capitalization are openings of one
\* module, or declarations and the definition of one class or interface.
NamesDistinct ==
    ~errors => \A i, j \in DOMAIN tree :
        (i < j /\ Lower(tree[i].scoped) = Lower(tree[j].scoped)) =>
            \/ tree[i].kind = "module" /\ tree[j].kind = "module" /\ tree[i].scoped = tree[j].scoped
            \/ /\ {tree[i].kind, tree[j].kind} \subseteq {"classdecl", "classdef"}
               /\ ~(tree[i].kind = "classdef" /\ tree[j].kind = "classdef")
               /\ Agrees(i, tree[j].intf, tree[j].local)

\* Within one scope a name means the same wherever it is used, whatever was defined in
\* between.
UsesAgree ==
    ~errors => \A u, v \in uses : (u[1] = v[1] /\ u[2] = v[2]) => u[3] = v[3]

\* No class or interface gets two operations with one name, by whatever paths it inherits.
OperationsDistinct ==
    ~errors => \A d \in {i \in DOMAIN tree : tree[i].kind = "classdef"} :
        \A o, p \in AllOperations(d) : o # p => ~SameLetters(tree[o].name, tree[p].name)

\* From a non-local definition no local one can be reached.
Reached(i) ==
    {t.node : t \in {u \in {tree[i].type, tree[i].value} : u.node # 0}}
        \cup Range(tree[i].bases) \cup {j \in DOMAIN tree : tree[j].in = i}
NonLocalClosed ==
    ~errors => \A i \in DOMAIN tree :
        (tree[i].kind \in {"struct", "sequence", "dictionary", "exception", "classdef"} /\ ~tree[i].local) =>
            /\ ~IsLocal(tree[i].type) /\ ~IsLocal(tree[i].value)
            /\ \A j \in Reached(i) :
                /\ tree[j].kind \in TypeKinds \cup {"exception", "classdef"} => ~tree[j].local
                /\ tree[j].kind \in {"member", "operation"} =>
                       /\ ~IsLocal(tree[j].type)
                       /\ \A p \in Contents(j, "parameter") : ~IsLocal(tree[p].type)

\* The comment of checkBasesAreLegal(): the partitions contain "the names of operations and
\* data members", so a class does not inherit an operation and a data member with one name.
MembersDistinct ==
    ~errors => \A d \in {i \in DOMAIN tree : tree[i].kind = "classdef"} :
        \A o \in AllOperations(d), m \in AllDataMembers(d) :
            ~SameLetters(tree[o].name, tree[m].name)
=============================================================================
