--------------------------- MODULE ServantManager ---------------------------
(***************************************************************************)
(* IceInternal::ServantManager (cpp/src/Ice/ServantManager.cpp): the       *)
(* active servant map, the default servants and the servant locators of an *)
(* object adapter.  The maps are searched through hints, iterators to the  *)
(* entry that was used last, which an operation must not leave dangling.   *)
(* Every operation is one critical section of the manager's mutex, except  *)
(* that destroy() deactivates the locators after it.                       *)
(***************************************************************************)
EXTENDS Naturals, FiniteSets, FiniteSetsExt

CONSTANTS
    Identities,   \* numbers, in the order of the map
    Category,     \* Category[i]: the category of identity i
    Categories,   \* numbers in the order of the map; 0 is the empty category
    Facets, Servants,
    None          \* no servant; the end of a map

VARIABLES
    servantMapMap,     \* _servantMapMap: the facets of the identities it has
    servantHint,       \* _servantMapMapHint
    defaultServantMap, \* _defaultServantMap
    locatorMap,        \* _locatorMap: the categories that have a locator
    locatorHint,       \* _locatorMapHint
    instance,          \* _instance is set
    toDeactivate,      \* locators that destroy() has to deactivate
    result,            \* what the last findServant() found and should have found
    deactivated        \* deactivated[c]: calls of deactivate() (history)

vars == <<servantMapMap, servantHint, defaultServantMap, locatorMap, locatorHint, instance,
          toDeactivate, result, deactivated>>

\* Maps as functions on the keys that they have.
Without(f, k) == [x \in DOMAIN f \ {k} |-> f[x]]
With(f, k, v) == [x \in DOMAIN f \cup {k} |-> IF x = k THEN v ELSE f[x]]

TypeOK ==
    /\ DOMAIN servantMapMap \subseteq Identities
    /\ \A i \in DOMAIN servantMapMap :
           /\ DOMAIN servantMapMap[i] \subseteq Facets
           /\ \A f \in DOMAIN servantMapMap[i] : servantMapMap[i][f] \in Servants
    /\ servantHint \in Identities \cup {None} /\ locatorHint \in Categories \cup {None}
    /\ DOMAIN defaultServantMap \subseteq Categories
    /\ {locatorMap, toDeactivate} \subseteq SUBSET Categories
    /\ instance \in BOOLEAN
    /\ result \in [found : Servants \cup {None}, registered : Servants \cup {None}]
    /\ deactivated \in [Categories -> Nat]

Nothing == [found |-> None, registered |-> None]

Init ==
    /\ servantMapMap = <<>> /\ servantHint = None /\ defaultServantMap = <<>>
    /\ locatorMap = {} /\ locatorHint = None /\ instance = TRUE /\ toDeactivate = {}
    /\ result = Nothing /\ deactivated = [c \in Categories |-> 0]

locators == <<locatorMap, locatorHint, toDeactivate, deactivated>>

\* The iterator after the one for k.
After(keys, k) == LET later == {j \in keys : j > k} IN IF later = {} THEN None ELSE Min(later)

\* The entry of i, through the hint if that is it: a dangling hint would be used here.
Entry(i) == IF servantHint = i THEN i ELSE IF i \in DOMAIN servantMapMap THEN i ELSE None

-----------------------------------------------------------------------------
\* addServant(); an identity and facet that is there already is refused.
AddServant(i, f, s) ==
    /\ instance
    /\ Entry(i) # None => f \notin DOMAIN servantMapMap[i]
    /\ servantMapMap' = With(servantMapMap, i,
           IF Entry(i) = None THEN With(<<>>, f, s) ELSE With(servantMapMap[i], f, s))
    /\ servantHint' = i
    /\ UNCHANGED <<defaultServantMap, locators, instance, result>>

AddDefaultServant(c, s) ==
    /\ instance /\ c \notin DOMAIN defaultServantMap
    /\ defaultServantMap' = With(defaultServantMap, c, s)
    /\ UNCHANGED <<servantMapMap, servantHint, locators, instance, result>>

\* Mutant of Erase: the hint stays where it was.
EraseDangling(i) ==
    /\ servantMapMap' = Without(servantMapMap, i)
    /\ UNCHANGED servantHint

\* The entry is erased; the hint moves on if it was there.
Erase(i) ==
    /\ servantMapMap' = Without(servantMapMap, i)
    /\ servantHint' = IF servantHint = i THEN After(DOMAIN servantMapMap, i) ELSE servantHint

RemoveServant(i, f) ==
    /\ instance /\ Entry(i) # None /\ f \in DOMAIN servantMapMap[i]
    /\ IF DOMAIN servantMapMap[i] = {f}
       THEN Erase(i)
       ELSE /\ servantMapMap' = With(servantMapMap, i, Without(servantMapMap[i], f))
            /\ UNCHANGED servantHint
    /\ UNCHANGED <<defaultServantMap, locators, instance, result>>

RemoveDefaultServant(c) ==
    /\ instance /\ c \in DOMAIN defaultServantMap
    /\ defaultServantMap' = Without(defaultServantMap, c)
    /\ UNCHANGED <<servantMapMap, servantHint, locators, instance, result>>

RemoveAllFacets(i) ==
    /\ instance /\ Entry(i) # None
    /\ Erase(i)
    /\ UNCHANGED <<defaultServantMap, locators, instance, result>>

\* What an adapter promises for an identity and facet: its servant, or the default
\* servant of its category, or that of the empty category.
Default(c) ==
    IF c \in DOMAIN defaultServantMap THEN defaultServantMap[c]
    ELSE IF 0 \in DOMAIN defaultServantMap THEN defaultServantMap[0] ELSE None
Registered(i, f) ==
    IF i \in DOMAIN servantMapMap /\ f \in DOMAIN servantMapMap[i]
    THEN servantMapMap[i][f] ELSE Default(Category[i])

\* findServant(); requests of bidirectional connections also come after destroy().
FindServant(i, f) ==
    LET hit == Entry(i) # None /\ f \in DOMAIN servantMapMap[i] IN
    /\ result' = [found |-> IF hit THEN servantMapMap[i][f] ELSE Default(Category[i]),
                  registered |-> Registered(i, f)]
    /\ servantHint' = IF hit THEN i ELSE servantHint
    /\ UNCHANGED <<servantMapMap, defaultServantMap, locators, instance>>

\* hasServant() and findAllFacets() move the hint, too.
HasServant(i) ==
    /\ Entry(i) # None
    /\ servantHint' = i
    /\ UNCHANGED <<servantMapMap, defaultServantMap, locators, instance, result>>

-----------------------------------------------------------------------------
AddServantLocator(c) ==
    /\ instance /\ locatorHint # c /\ c \notin locatorMap
    /\ locatorMap' = locatorMap \cup {c} /\ locatorHint' = c
    /\ UNCHANGED <<servantMapMap, servantHint, defaultServantMap, instance, toDeactivate,
                   result, deactivated>>

\* The application deactivates the locator that it gets back.
RemoveServantLocator(c) ==
    /\ instance /\ (locatorHint = c \/ c \in locatorMap)
    /\ locatorMap' = locatorMap \ {c}
    /\ locatorHint' = IF locatorMap = {c} THEN None ELSE Min(locatorMap \ {c})
    /\ UNCHANGED <<servantMapMap, servantHint, defaultServantMap, instance, toDeactivate,
                   result, deactivated>>

FindServantLocator(c) ==
    /\ locatorHint = c \/ c \in locatorMap
    /\ locatorHint' = c
    /\ UNCHANGED <<servantMapMap, servantHint, defaultServantMap, locatorMap, instance,
                   toDeactivate, result, deactivated>>

\* destroy(): the default servants stay.
Destroy ==
    /\ instance
    /\ instance' = FALSE
    /\ servantMapMap' = <<>> /\ servantHint' = None
    /\ toDeactivate' = locatorMap /\ locatorMap' = {} /\ locatorHint' = None
    /\ UNCHANGED <<defaultServantMap, result, deactivated>>

DeactivateLocator ==
    /\ toDeactivate # {}
    /\ LET c == Min(toDeactivate) IN
       /\ toDeactivate' = toDeactivate \ {c}
       /\ deactivated' = [deactivated EXCEPT ![c] = @ + 1]
    /\ UNCHANGED <<servantMapMap, servantHint, defaultServantMap, locatorMap, locatorHint,
                   instance, result>>

Next ==
    \/ \E i \in Identities, f \in Facets :
           \/ \E s \in Servants : AddServant(i, f, s)
           \/ RemoveServant(i, f) \/ FindServant(i, f)
    \/ \E i \in Identities : RemoveAllFacets(i) \/ HasServant(i)
    \/ \E c \in Categories :
           \/ \E s \in Servants : AddDefaultServant(c, s)
           \/ RemoveDefaultServant(c)
           \/ AddServantLocator(c) \/ RemoveServantLocator(c) \/ FindServantLocator(c)
    \/ Destroy \/ DeactivateLocator

Spec == Init /\ [][Next]_vars

-----------------------------------------------------------------------------
(* Properties *)

\* The hints never dangle, whatever is removed between two searches, no identity is
\* left without facets (the assertion in hasServant()), and a search through the hint
\* finds what is registered.
HintsValid ==
    /\ servantHint # None => servantHint \in DOMAIN servantMapMap
    /\ locatorHint # None => locatorHint \in locatorMap
    /\ \A i \in DOMAIN servantMapMap : servantMapMap[i] # <<>>
    /\ result.found = result.registered
=============================================================================
