------------------------------ MODULE GCProofs ------------------------------
(***************************************************************************)
(* Proofs about the garbage collector of class instances, as instantiated  *)
(* in MCRuntime: for every set of instances, of handles and of threads     *)
(* that collect.                                                           *)
(*                                                                         *)
(* Reference counts are exact up to the one assignment that is under way   *)
(* (Counted).  What makes the collector right is that it reads members     *)
(* without a lock against assignments: while it counts, the members that   *)
(* it has read (rv in CountSound) differ from the heap in at most one      *)
(* overwritten member, whose old instance is still to be discounted, and   *)
(* an instance whose member changed after it was read is in a local.  So   *)
(* the instances with references from elsewhere include all that locals    *)
(* refer to, and tracing from them (TraceSound) reaches whatever the       *)
(* program can get at and nothing that was lost when the collection began. *)
(***************************************************************************)
EXTENDS MCRuntime, FiniteSetTheorems, SequenceTheorems, TLAPS

\* The instance's cardinality is that of FiniteSets.
LEMMA SameCardinality ==
    ASSUME NEW T
    PROVE  G!Cardinality(T) = Cardinality(T)
  BY DEF G!Cardinality, Cardinality

-----------------------------------------------------------------------------
(* The inductive invariant *)

Bit(b) == IF b THEN 1 ELSE 0

\* Who holds gcRecMutex, and who sets _collecting.
Holding == {"count", "trace", "clear", "delete", "flag", "unlock"}
Busy == {"lock", "count", "trace", "clear", "delete", "flag"}
Phase == IF lock = G!Nobody THEN "idle" ELSE at[lock]

OneHolds ==
    /\ \A c \in G!Callers : lock = c <=> at[c] \in Holding
    /\ \A c, d \in G!Callers : at[c] \in Busy /\ at[d] \in Busy => c = d
    /\ \A c \in G!Callers : at[c] \in Busy => collecting
    /\ gcThread # "collect" => at["thread"] = "idle"
    /\ destroyer # "collect" => at["destroy"] = "idle"

\* What the program is about to do: an assignment before and after the new instance is
\* counted, the end of one, and a deletion.
Inc(o) == G!Step("inc", G!NoHandle, o)
St(h, o) == G!Step("store", h, o)
Dec(o) == G!Step("dec", G!NoHandle, o)
Del(o) == G!Step("delete", G!NoHandle, o)
Plan(h, o, v) == IF v = Null THEN <<St(h, o)>> ELSE <<St(h, o), Dec(v)>>
IncPlan(h, o, v) == IF v = Null THEN <<Inc(o), St(h, o)>> ELSE <<Inc(o), St(h, o), Dec(v)>>

NamedIn(t, op) == {t[i].o : i \in {j \in DOMAIN t : t[j].op = op}}
Storing(t) == NamedIn(t, "store") # {}
AddedIn(t, o) == o \in NamedIn(t, "store") /\ o \notin NamedIn(t, "inc")
OwedIn(t, o) == ~Storing(t) /\ o \in NamedIn(t, "dec")
Named(op) == NamedIn(todo, op)
Added(o) == AddedIn(todo, o)
Owed(o) == OwedIn(todo, o)

Held(o) == {l \in Locals : local[l] = o}
Members(o) == {p \in Instances : member[p] = o}
InLocal(o) == \E l \in Locals : local[l] = o

Doomed == IF Phase = "delete" THEN pass.left ELSE {}
Sound(o) == heap[o] = "live" /\ o \notin Doomed

HeapSound ==
    /\ \A l \in Locals : local[l] # Null => Sound(local[l])
    /\ \A q \in Instances : member[q] # Null => Sound(q) /\ Sound(member[q])
    /\ \A o \in Instances : heap[o] = "none" => ref[o] = 0
    /\ Doomed \subseteq gcObjects
    /\ \A o \in gcObjects : heap[o] = "live"
    /\ \A o \in Instances : Sound(o) => (o \in gcObjects <=> ref[o] > 0)
    /\ \A o \in Instances : Sound(o) /\ ref[o] = 0 => o \in Named("inc") \cup Named("delete")

Counted ==
    \A o \in Instances : Sound(o) =>
        ref[o] = Cardinality(Held(o)) + Cardinality(Members(o)) + Bit(Added(o)) + Bit(Owed(o))

Fresh(o) == Sound(o) /\ ref[o] = 0 /\ member[o] = Null
TodoSound ==
    \/ todo = <<>>
    \/ \E h \in G!Handles, o \in Instances :
          /\ todo = IncPlan(h, o, G!Value(h)) /\ G!Value(h) # o
          /\ Fresh(o) \/ \E g \in G!Handles : G!Value(g) = o
    \/ \E h \in G!Handles, o \in Instances \cup {Null} :
          /\ todo = Plan(h, o, G!Value(h)) /\ G!Value(h) # o
          /\ o # Null => Sound(o)
    \/ \E v \in Instances :
          \/ todo = <<Dec(v)>> /\ heap[v] # "none"
          \/ todo = <<Del(v)>> /\ Sound(v) /\ ref[v] = 0

\* While candidates are counted: what was read, and what was assigned since.
Cand == DOMAIN pass.counts
Overwritten(rv, q) == rv[q] # Null /\ rv[q] # member[q]
ReadSound(rv) ==
    /\ \A o \in Cand :
           pass.counts[o] = ref[o] - Cardinality({q \in Cand \ pass.left : rv[q] = o})
    /\ \A q \in Cand \ pass.left : Overwritten(rv, q) => todo = <<Dec(rv[q])>>
    /\ \A p, q \in Cand \ pass.left : Overwritten(rv, p) /\ Overwritten(rv, q) => p = q
    /\ \A q \in Cand \ pass.left : member[q] # Null /\ member[q] # rv[q] =>
           \/ InLocal(q)
           \/ todo = <<Dec(q)>> /\ \A p \in Cand \ pass.left : ~Overwritten(rv, p)
    /\ \A q \in Cand \ pass.left : q \in pass.lost => rv[q] = member[q]
CountSound ==
    /\ pass.left \subseteq Cand /\ pass.live = {}
    /\ \E rv \in [Cand \ pass.left -> Instances \cup {Null}] : ReadSound(rv)

\* While live instances are traced.
Traced == pass.left \cup pass.live
TraceSound(T) ==
    /\ T \subseteq Cand /\ T \cap pass.lost = {}
    /\ \A l \in Locals : local[l] # Null => local[l] \in T
    /\ \A o \in Instances : Added(o) => o \in T
    /\ \A q \in Instances : (q \in pass.live \/ q \notin Cand) => member[q] \in T \cup {Null}
    /\ \A o \in T : \/ InLocal(o) \/ Added(o) \/ Owed(o)
                    \/ \E q \in Instances : member[q] = o /\ (q \in T \/ q \notin Cand)

\* What was lost when the collection began.
LostSound ==
    /\ pass.lost \subseteq Cand
    /\ \A o \in pass.lost :
           /\ \A l \in Locals : local[l] # o
           /\ \A i \in DOMAIN todo : todo[i].o # o
           /\ \A q \in Instances : member[q] = o => q \in pass.lost

PassSound ==
    /\ pass = [left |-> pass.left, counts |-> pass.counts, live |-> pass.live, lost |-> pass.lost]
    /\ Phase \in {"count", "trace", "clear"} =>
           /\ Cand = gcObjects /\ pass.counts \in [Cand -> Int] /\ LostSound
    /\ Phase = "count" => CountSound
    /\ Phase = "trace" => TraceSound(Traced)
    /\ Phase = "clear" => TraceSound(pass.live) /\ pass.left = Cand \ pass.live

GCInv ==
    G!TypeOK /\ OneHolds /\ HeapSound /\ Counted /\ TodoSound /\ PassSound

\* What a plan names.
LEMMA NothingNamed ==
    ASSUME NEW t, t = <<>>
    PROVE  /\ \A op : NamedIn(t, op) = {}
           /\ ~Storing(t)
           /\ \A x : ~AddedIn(t, x) /\ ~OwedIn(t, x)
           /\ \A i \in DOMAIN t : FALSE
  BY DEF NamedIn, Storing, AddedIn, OwedIn

\* What a plan of one step names.
LEMMA OneNamed ==
    ASSUME NEW t, NEW a, NEW o, DOMAIN t = {1}, t[1].op = a, t[1].o = o
    PROVE  /\ NamedIn(t, a) = {o} /\ \A op : op # a => NamedIn(t, op) = {}
           /\ \A i \in DOMAIN t : t[i].o = o
  BY DEF NamedIn

\* Short sequences.
LEMMA Pairs ==
    ASSUME NEW a, NEW b
    PROVE  <<a>> \o <<b>> = <<a, b>>
  <1> DEFINE X == {a, b}
  <1>1. PICK x, y, s, t : x = <<a>> /\ y = <<b>> /\ s = x \o y /\ t = <<a, b>>
    OBVIOUS
  <1>2. x \in Seq(X) /\ y \in Seq(X) /\ t \in Seq(X) /\ Len(x) = 1 /\ Len(y) = 1 /\ Len(t) = 2
        /\ x[1] = a /\ y[1] = b /\ t[1] = a /\ t[2] = b
    BY <1>1
  <1>3. /\ s \in Seq(X) /\ Len(s) = 2
        /\ \A i \in 1 .. 2 : s[i] = IF i <= 1 THEN x[i] ELSE y[i - 1]
    BY <1>1, <1>2, ConcatProperties
  <1>4. \A i \in 1 .. Len(s) : s[i] = t[i]
    BY <1>2, <1>3
  <1>5. s = t
    BY <1>2, <1>3, <1>4, SeqEqual
  <1> QED
    BY <1>1, <1>5

\* The positions and the steps of a sequence of three.
LEMMA Triples ==
    ASSUME NEW a, NEW b, NEW c
    PROVE  <<a, b>> \o <<c>> = <<a, b, c>>
  <1> DEFINE X == {a, b, c}
  <1>1. PICK x, y, s, t : x = <<a, b>> /\ y = <<c>> /\ s = x \o y /\ t = <<a, b, c>>
    OBVIOUS
  <1>2. x \in Seq(X) /\ y \in Seq(X) /\ t \in Seq(X) /\ Len(x) = 2 /\ Len(y) = 1 /\ Len(t) = 3
        /\ x[1] = a /\ x[2] = b /\ y[1] = c /\ t[1] = a /\ t[2] = b /\ t[3] = c
    BY <1>1
  <1>3. /\ s \in Seq(X) /\ Len(s) = 3
        /\ \A i \in 1 .. 3 : s[i] = IF i <= 2 THEN x[i] ELSE y[i - 2]
    BY <1>1, <1>2, ConcatProperties
  <1>4. \A i \in 1 .. Len(s) : s[i] = t[i]
    BY <1>2, <1>3
  <1>5. s = t
    BY <1>2, <1>3, <1>4, SeqEqual
  <1> QED
    BY <1>1, <1>5

\* Plans have at most three steps: their positions, first steps and rests.
LEMMA ShortSequences ==
    ASSUME NEW a, NEW b, NEW c
    PROVE  /\ <<>> \o <<b>> \o <<>> = <<b>> /\ <<>> \o <<b>> \o <<c>> = <<b, c>>
           /\ <<a>> \o <<b>> \o <<>> = <<a, b>> /\ <<a>> \o <<b>> \o <<c>> = <<a, b, c>>
  <1>2. <<b>> \o <<>> = <<b>> /\ <<>> \o <<b>> = <<b>>
    <2>1. <<b>> \in Seq({b})
      OBVIOUS
    <2> QED
      BY <2>1, ConcatEmptySeq
  <1>1. <<a>> \o <<b>> = <<a, b>> /\ <<b>> \o <<c>> = <<b, c>>
    BY Pairs
  <1>4. <<a, b>> \o <<>> = <<a, b>>
    <2>1. <<a, b>> \in Seq({a, b})
      OBVIOUS
    <2> QED
      BY <2>1, ConcatEmptySeq
  <1>5. <<a, b>> \o <<c>> = <<a, b, c>>
    BY Triples
  <1> QED
    BY <1>1, <1>2, <1>4, <1>5

\* What is named by an assignment whose new instance has been counted.
LEMMA PlanNames ==
    ASSUME NEW h, NEW o, NEW v, NEW t, t = Plan(h, o, v)
    PROVE  /\ NamedIn(t, "inc") = {} /\ NamedIn(t, "store") = {o}
           /\ NamedIn(t, "dec") = {v} \ {Null} /\ NamedIn(t, "delete") = {}
           /\ Storing(t) /\ \A x : (AddedIn(t, x) <=> x = o) /\ ~OwedIn(t, x)
           /\ \A i \in DOMAIN t : t[i].o = o \/ (t[i].o = v /\ v # Null)
           /\ t # <<>> /\ Head(t) = St(h, o) /\ Tail(t) = IF v = Null THEN <<>> ELSE <<Dec(v)>>
  <1>1. CASE v = Null
    <2>1. t = <<G!Step("store", h, o)>>
      BY <1>1 DEF Plan, St
    <2>0. DOMAIN t = {1} /\ t[1].op = "store" /\ t[1].o = o
      BY <2>1 DEF G!Step
    <2>2. /\ NamedIn(t, "store") = {o} /\ \A op : op # "store" => NamedIn(t, op) = {}
          /\ \A i \in DOMAIN t : t[i].o = o
      BY <2>0, OneNamed
    <2>3. t # <<>> /\ Head(t) = St(h, o) /\ Tail(t) = <<>>
      BY <2>1 DEF St
    <2> QED
      BY <1>1, <2>2, <2>3 DEF Storing, AddedIn, OwedIn
  <1>2. CASE v # Null
    <2>1. t = <<G!Step("store", h, o), G!Step("dec", G!NoHandle, v)>>
      BY <1>2 DEF Plan, St, Dec
    <2>0. DOMAIN t = {1, 2} /\ t[1].op = "store" /\ t[1].o = o /\ t[2].op = "dec" /\ t[2].o = v
          /\ "store" # "dec"
      BY <2>1 DEF G!Step
    <2>2. /\ NamedIn(t, "store") = {o} /\ NamedIn(t, "dec") = {v}
          /\ \A op : op \notin {"store", "dec"} => NamedIn(t, op) = {}
          /\ \A i \in DOMAIN t : t[i].o \in {o, v}
      BY <2>0 DEF NamedIn
    <2>3. t # <<>> /\ Head(t) = St(h, o) /\ Tail(t) = <<Dec(v)>>
      BY <2>1 DEF St, Dec
    <2>4. Storing(t) /\ \A x : (AddedIn(t, x) <=> x = o) /\ ~OwedIn(t, x)
      BY <2>2 DEF Storing, AddedIn, OwedIn
    <2> QED
      BY <1>2, <2>2, <2>3, <2>4
  <1> QED
    BY <1>1, <1>2

\* What is named by an assignment that has just begun.
LEMMA IncPlanNames ==
    ASSUME NEW h, NEW o, NEW v, NEW t, t = IncPlan(h, o, v)
    PROVE  /\ NamedIn(t, "inc") = {o} /\ NamedIn(t, "store") = {o}
           /\ NamedIn(t, "dec") = {v} \ {Null} /\ NamedIn(t, "delete") = {}
           /\ Storing(t) /\ \A x : ~AddedIn(t, x) /\ ~OwedIn(t, x)
           /\ \A i \in DOMAIN t : t[i].o = o \/ (t[i].o = v /\ v # Null)
           /\ t # <<>> /\ Head(t) = Inc(o) /\ Tail(t) = Plan(h, o, v)
  <1>1. CASE v = Null
    <2>1. t = <<G!Step("inc", G!NoHandle, o), G!Step("store", h, o)>>
      BY <1>1 DEF IncPlan, St, Inc
    <2>0. DOMAIN t = {1, 2} /\ t[1].op = "inc" /\ t[1].o = o /\ t[2].op = "store" /\ t[2].o = o
          /\ "inc" # "store"
      BY <2>1 DEF G!Step
    <2>2. /\ NamedIn(t, "store") = {o} /\ NamedIn(t, "inc") = {o}
          /\ \A op : op \notin {"inc", "store"} => NamedIn(t, op) = {}
          /\ \A i \in DOMAIN t : t[i].o \in {o, o}
      BY <2>0 DEF NamedIn
    <2>3. t # <<>> /\ Head(t) = Inc(o) /\ Tail(t) = <<St(h, o)>>
      BY <2>1 DEF St, Inc
    <2>4. Tail(t) = Plan(h, o, v)
      BY <1>1, <2>3 DEF Plan
    <2> QED
      BY <1>1, <2>2, <2>3, <2>4 DEF Storing, AddedIn, OwedIn
  <1>2. CASE v # Null
    <2>1. t = <<G!Step("inc", G!NoHandle, o), G!Step("store", h, o),
              G!Step("dec", G!NoHandle, v)>>
      BY <1>2 DEF IncPlan, St, Dec, Inc
    <2>0. /\ DOMAIN t = {1, 2, 3} /\ t[1].op = "inc" /\ t[1].o = o /\ t[2].op = "store"
          /\ t[2].o = o
          /\ t[3].op = "dec" /\ t[3].o = v /\ "inc" # "store" /\ "inc" # "dec" /\ "store" # "dec"
      BY <2>1 DEF G!Step
    <2>2. /\ NamedIn(t, "inc") = {o} /\ NamedIn(t, "store") = {o} /\ NamedIn(t, "dec") = {v}
          /\ \A op : op \notin {"inc", "store", "dec"} => NamedIn(t, op) = {}
          /\ \A i \in DOMAIN t : t[i].o \in {o, o, v}
      BY <2>0 DEF NamedIn
    <2>3. t # <<>> /\ Head(t) = Inc(o) /\ Tail(t) = <<St(h, o), Dec(v)>>
      BY <2>1 DEF St, Dec, Inc
    <2>4. Tail(t) = Plan(h, o, v)
      BY <1>2, <2>3 DEF Plan
    <2> QED
      BY <1>2, <2>2, <2>3, <2>4 DEF Storing, AddedIn, OwedIn
  <1> QED
    BY <1>1, <1>2

\* What is named when the old instance is still to be discounted.
LEMMA DecNames ==
    ASSUME NEW v, NEW t, t = <<Dec(v)>>
    PROVE  /\ NamedIn(t, "inc") = {} /\ NamedIn(t, "store") = {} /\ NamedIn(t, "dec") = {v}
           /\ NamedIn(t, "delete") = {} /\ ~Storing(t)
           /\ \A x : (OwedIn(t, x) <=> x = v) /\ ~AddedIn(t, x)
           /\ \A i \in DOMAIN t : t[i].o = v
           /\ t # <<>> /\ Head(t) = Dec(v) /\ Tail(t) = <<>>
  <1>1. DOMAIN t = {1} /\ t[1].op = "dec" /\ t[1].o = v
    BY DEF Dec, G!Step
  <1>2. NamedIn(t, "dec") = {v} /\ (\A op : op # "dec" => NamedIn(t, op) = {})
            /\ \A i \in DOMAIN t : t[i].o = v
    BY <1>1, OneNamed
  <1>3. t # <<>> /\ Head(t) = Dec(v) /\ Tail(t) = <<>>
    OBVIOUS
  <1> QED
    BY <1>2, <1>3 DEF Storing, AddedIn, OwedIn

\* What is named when an instance is to be deleted.
LEMMA DelNames ==
    ASSUME NEW v, NEW t, t = <<Del(v)>>
    PROVE  /\ NamedIn(t, "inc") = {} /\ NamedIn(t, "store") = {} /\ NamedIn(t, "dec") = {}
           /\ NamedIn(t, "delete") = {v} /\ ~Storing(t)
           /\ \A x : ~OwedIn(t, x) /\ ~AddedIn(t, x)
           /\ \A i \in DOMAIN t : t[i].o = v
           /\ t # <<>> /\ Head(t) = Del(v) /\ Tail(t) = <<>>
  <1>1. DOMAIN t = {1} /\ t[1].op = "delete" /\ t[1].o = v
    BY DEF Del, G!Step
  <1>2. NamedIn(t, "delete") = {v} /\ (\A op : op # "delete" => NamedIn(t, op) = {})
            /\ \A i \in DOMAIN t : t[i].o = v
    BY <1>1, OneNamed
  <1>3. t # <<>> /\ Head(t) = Del(v) /\ Tail(t) = <<>>
    OBVIOUS
  <1> QED
    BY <1>2, <1>3 DEF Storing, AddedIn, OwedIn

\* A sequence of one step tells what the step is.
LEMMA StepsDiffer ==
    /\ \A v, w : <<Dec(v)>> = <<Dec(w)>> => v = w
    /\ \A v : <<Dec(v)>> # <<>> /\ <<Del(v)>> # <<>>
    /\ \A v, w : <<Dec(v)>> # <<Del(w)>>
  BY DEF Dec, Del, G!Step

\* An assignment is not confused with what is left of another.
LEMMA PlanIsNotDec ==
    ASSUME NEW h, NEW o, NEW v, NEW w
    PROVE  Plan(h, o, v) # <<Dec(w)>> /\ IncPlan(h, o, v) # <<Dec(w)>>
  <1>1. Storing(Plan(h, o, v)) /\ Storing(IncPlan(h, o, v)) /\ ~Storing(<<Dec(w)>>)
    BY PlanNames, IncPlanNames, DecNames
  <1> QED
    BY <1>1

\* All that is to do is counting, assigning and deleting.
Planned(t) == \E h, o, v : t \in {<<>>, <<Dec(v)>>, <<Del(v)>>, Plan(h, o, v), IncPlan(h, o, v)}

\* The steps of a plan are of four kinds.
LEMMA PlanSteps ==
    ASSUME NEW t, Planned(t), NEW i \in DOMAIN t
    PROVE  t[i].op \in {"inc", "store", "dec", "delete"}
  <1>0. PICK h, o, v : t \in {<<>>, <<Dec(v)>>, <<Del(v)>>, Plan(h, o, v), IncPlan(h, o, v)}
    BY DEF Planned
  <1>1. Inc(o).op = "inc" /\ St(h, o).op = "store" /\ Dec(v).op = "dec" /\ Del(v).op = "delete"
    BY DEF Inc, St, Dec, Del, G!Step
  <1>2. t[i] \in {Inc(o), St(h, o), Dec(v), Del(v)}
    <2>1. CASE t = <<Dec(v)>> \/ t = <<Del(v)>>
      BY <2>1
    <2>2. CASE t = Plan(h, o, v)
      BY <2>2 DEF Plan
    <2>3. CASE t = IncPlan(h, o, v)
      BY <2>3 DEF IncPlan
    <2> QED
      BY <1>0, <2>1, <2>2, <2>3
  <1> QED
    BY <1>1, <1>2

\* An assignment is a plan.
LEMMA AssignmentIs ==
    ASSUME NEW h, NEW o
    PROVE  G!Assignment(h, o) = IF o = Null THEN Plan(h, o, G!Value(h))
               ELSE IncPlan(h, o, G!Value(h))
  <1> DEFINE a == G!Step("inc", G!NoHandle, o)
             b == G!Step("store", h, o)
             c == G!Step("dec", G!NoHandle, G!Value(h))
  <1>1. /\ <<>> \o <<b>> \o <<>> = <<b>> /\ <<>> \o <<b>> \o <<c>> = <<b, c>>
        /\ <<a>> \o <<b>> \o <<>> = <<a, b>> /\ <<a>> \o <<b>> \o <<c>> = <<a, b, c>>
    BY ShortSequences
  <1>2. G!Assignment(h, o) = (IF o # Null THEN <<a>> ELSE <<>>) \o <<b>>
                               \o (IF G!Value(h) # Null THEN <<c>> ELSE <<>>)
    BY DEF G!Assignment, G!If
  <1>3. /\ Plan(h, o, G!Value(h)) = IF G!Value(h) = Null THEN <<b>> ELSE <<b, c>>
        /\ IncPlan(h, o, G!Value(h)) = IF G!Value(h) = Null THEN <<a, b>> ELSE <<a, b, c>>
    BY DEF Plan, IncPlan, St, Inc, Dec
  <1> HIDE DEF a, b, c
  <1> QED
    BY <1>1, <1>2, <1>3

\* How many places of a function have a value, when one place changes.
Recounted(X, f, g, k, o, A, Y) ==
    /\ IsFiniteSet(X) /\ k \in X /\ \A x \in X : x # k => g[x] = f[x]
    /\ A \subseteq X /\ \A x \in X : x \in A <=> f[x] = o
    /\ Y \subseteq X /\ \A x \in X : x \in Y <=> g[x] = o

\* How many handles refer to an instance when one handle is assigned.
LEMMA CountStored ==
    ASSUME NEW X, NEW f, NEW g, NEW k, NEW o, NEW A, NEW Y, Recounted(X, f, g, k, o, A, Y)
    PROVE  /\ Cardinality(Y) = Cardinality(A) - (IF f[k] = o THEN 1 ELSE 0)
                  + (IF g[k] = o THEN 1 ELSE 0)
           /\ Cardinality(A) \in Nat /\ Cardinality(Y) \in Nat
  <1> USE DEF Recounted
  <1>0. PICK R : R = A \ {k}
    OBVIOUS
  <1>1. IsFiniteSet(A) /\ IsFiniteSet(Y) /\ IsFiniteSet(R)
    <2>1. R \subseteq X
      BY <1>0
    <2> QED
      BY <2>1, FS_Subset
  <1>2. R = Y \ {k} /\ k \notin R
    BY <1>0
  <1>3. Cardinality(A) \in Nat /\ Cardinality(Y) \in Nat /\ Cardinality(R) \in Nat
    BY <1>1, FS_CardinalityType
  <1>6. Cardinality(R \cup {k}) = Cardinality(R) + 1
    BY <1>1, <1>2, FS_AddElement
  <1>4. Cardinality(A) = Cardinality(R) + (IF f[k] = o THEN 1 ELSE 0)
    <2>1. CASE f[k] = o
      <3>1. A = R \cup {k}
        BY <1>0, <2>1
      <3> QED
        BY <1>6, <2>1, <3>1
    <2>2. CASE f[k] # o
      <3>1. A = R
        BY <1>0, <2>2
      <3> QED
        BY <1>3, <2>2, <3>1
    <2> QED
      BY <2>1, <2>2
  <1>5. Cardinality(Y) = Cardinality(R) + (IF g[k] = o THEN 1 ELSE 0)
    <2>1. CASE g[k] = o
      <3>1. Y = R \cup {k}
        BY <1>2, <2>1
      <3> QED
        BY <1>6, <2>1, <3>1
    <2>2. CASE g[k] # o
      <3>1. Y = R
        BY <1>2, <2>2
      <3> QED
        BY <1>3, <2>2, <3>1
    <2> QED
      BY <2>1, <2>2
  <1> QED
    BY ONLY <1>3, <1>4, <1>5

\* A finite set that has an element.
LEMMA CountsOne ==
    ASSUME NEW X, IsFiniteSet(X)
    PROVE  Cardinality(X) \in Nat /\ (Cardinality(X) = 0 <=> X = {})
  BY FS_CardinalityType, FS_EmptySet

\* Handles are finitely many, so that they can be counted.
LEMMA HeldFinite ==
    \A o : /\ IsFiniteSet(Held(o)) /\ IsFiniteSet(Members(o))
           /\ Cardinality(Held(o)) \in Nat /\ (Cardinality(Held(o)) = 0 <=> Held(o) = {})
           /\ Cardinality(Members(o)) \in Nat /\ (Cardinality(Members(o)) = 0 <=> Members(o) = {})
  <1> SUFFICES ASSUME NEW o
               PROVE  /\ IsFiniteSet(Held(o)) /\ IsFiniteSet(Members(o))
                      /\ Cardinality(Held(o)) \in Nat
                      /\ (Cardinality(Held(o)) = 0 <=> Held(o) = {})
                      /\ Cardinality(Members(o)) \in Nat
                      /\ (Cardinality(Members(o)) = 0 <=> Members(o) = {})
    OBVIOUS
  <1>1. Held(o) \subseteq Locals /\ Members(o) \subseteq Instances
    BY DEF Held, Members
  <1>2. IsFiniteSet(Held(o)) /\ IsFiniteSet(Members(o))
    BY <1>1, CollectorAssumption, FS_Subset
  <1> QED
    BY <1>2, CountsOne

\* There are no instances at first, and nobody collects.
LEMMA CollectorBegins == G!Init => GCInv
  <1> SUFFICES ASSUME G!Init PROVE GCInv
    OBVIOUS
  <1>1. /\ heap = [o \in Instances |-> "none"] /\ ref = [o \in Instances |-> 0]
        /\ member = [o \in Instances |-> Null] /\ local = [l \in Locals |-> Null]
        /\ gcObjects = {} /\ todo = <<>> /\ lock = G!Nobody
        /\ gcState = "NotStarted" /\ collecting = FALSE
        /\ at = [c \in G!Callers |-> "idle"] /\ pass = G!Idle
        /\ gcThread = "new" /\ destroyer = "idle" /\ gcCrashed = FALSE
    BY DEF G!Init
  <1>2. G!TypeOK
    BY <1>1 DEF G!TypeOK
  <1>3. G!Nobody \notin G!Callers
    BY CollectorAssumption DEF G!Nobody, G!Callers
  <1>4. OneHolds
    BY <1>1, <1>3 DEF OneHolds, Busy, Holding, G!Callers
  <1>5. Phase = "idle" /\ Doomed = {}
    BY <1>1 DEF Phase, Doomed
  <1>6. HeapSound
    BY <1>1, <1>5 DEF HeapSound, Sound
  <1>7. Counted
    BY <1>1 DEF Counted, Sound
  <1>8. TodoSound /\ PassSound
    BY <1>1, <1>5 DEF TodoSound, PassSound, G!Idle
  <1> QED
    BY <1>2, <1>4, <1>6, <1>7, <1>8 DEF GCInv

\* A step of the program leaves the collector where it is.
LEMMA ProgramAside ==
    ASSUME GCInv, UNCHANGED <<lock, collecting, at, pass, G!runVars>>
    PROVE  /\ OneHolds' /\ Phase' = Phase /\ Doomed' = Doomed /\ Cand' = Cand
           /\ lock' \in G!Callers \cup {G!Nobody}
           /\ gcState' \in {"NotStarted", "Started", "Stopping", "Stopped"}
           /\ at' \in [G!Callers -> {"idle", "call", "lock", "count", "trace", "clear", "delete", "flag",
                           "unlock"}]
           /\ gcThread' \in {"new", "top", "wait", "collect", "exit"}
           /\ destroyer' \in {"idle", "stop", "notify", "join", "collect", "done"}
  <1>1. G!TypeOK /\ OneHolds
    BY DEF GCInv
  <1>2. UNCHANGED <<lock, collecting, at, pass, gcState, gcThread, destroyer>>
    BY DEF G!runVars
  <1>3. OneHolds'
    BY <1>1, <1>2 DEF OneHolds
  <1>4. Phase' = Phase
    BY <1>2 DEF Phase
  <1>5. Doomed' = Doomed /\ Cand' = Cand
    BY <1>2, <1>4 DEF Doomed, Cand
  <1> QED
    BY <1>1, <1>2, <1>3, <1>4, <1>5 DEF G!TypeOK

\* The types of the heap and the finiteness of what is counted, from the invariant.
LEMMA HeapTypes ==
    ASSUME GCInv
    PROVE  /\ heap \in [Instances -> {"none", "live", "dead"}] /\ ref \in [Instances -> Nat]
           /\ member \in [Instances -> Instances \cup {Null}]
           /\ local \in [Locals -> Instances \cup {Null}]
           /\ gcObjects \subseteq Instances /\ Null \notin Instances
  BY CollectorAssumption DEF GCInv, G!TypeOK

\* An instance with a reference has a count, and is a candidate.
LEMMA Referenced ==
    ASSUME GCInv, NEW o \in Instances, Sound(o),
           InLocal(o) \/ (\E q \in Instances : member[q] = o) \/ Added(o) \/ Owed(o)
    PROVE  ref[o] > 0 /\ o \in gcObjects
  <1>1. ref[o] = Cardinality(Held(o)) + Cardinality(Members(o)) + Bit(Added(o)) + Bit(Owed(o))
    BY DEF GCInv, Counted
  <1>2. /\ Cardinality(Held(o)) \in Nat /\ (Cardinality(Held(o)) = 0 <=> Held(o) = {})
        /\ Cardinality(Members(o)) \in Nat /\ (Cardinality(Members(o)) = 0 <=> Members(o) = {})
    BY HeldFinite
  <1>3. Bit(Added(o)) \in Nat /\ Bit(Owed(o)) \in Nat
    BY DEF Bit
  <1>4. Held(o) # {} \/ Members(o) # {} \/ Bit(Added(o)) = 1 \/ Bit(Owed(o)) = 1
    BY DEF Held, Members, InLocal, Bit
  <1>5. ref[o] > 0
    BY ONLY <1>1, <1>2, <1>3, <1>4
  <1> QED
    BY <1>5 DEF GCInv, HeapSound

\* What a handle of the program refers to.
LEMMA HandleIs ==
    ASSUME GCInv, NEW h \in G!Handles
    PROVE  /\ G!Value(h) \in Instances \cup {Null}
           /\ G!Value(h) # Null => Sound(G!Value(h)) /\ ref[G!Value(h)] > 0
                  /\ G!Value(h) \in gcObjects
           /\ \/ \E l \in Locals : h = <<"local", l>> /\ G!Value(h) = local[l]
              \/ \E p \in Instances : h = <<"member", p>> /\ InLocal(p) /\ Sound(p)
                     /\ G!Value(h) = member[p]
  <1>1. CASE \E l \in Locals : h = <<"local", l>>
    <2>1. PICK l \in Locals : h = <<"local", l>>
      BY <1>1
    <2>2. G!Value(h) = local[l] /\ local[l] \in Instances \cup {Null}
      BY <2>1, HeapTypes DEF G!Value
    <2>3. local[l] # Null => Sound(local[l]) /\ InLocal(local[l])
      BY DEF GCInv, HeapSound, InLocal
    <2> QED
      BY <2>1, <2>2, <2>3, Referenced
  <1>2. CASE \E l \in Locals : local[l] # Null /\ h = <<"member", local[l]>>
    <2>1. PICK l \in Locals : local[l] # Null /\ h = <<"member", local[l]>>
      BY <1>2
    <2>2. PICK p \in Instances : p = local[l]
      BY <2>1, HeapTypes
    <2>3. G!Value(h) = member[p] /\ member[p] \in Instances \cup {Null}
      BY <2>1, <2>2, HeapTypes DEF G!Value
    <2>4. Sound(p) /\ InLocal(p)
      BY <2>1, <2>2 DEF GCInv, HeapSound, InLocal
    <2>5. member[p] # Null => Sound(member[p])
      BY DEF GCInv, HeapSound
    <2> QED
      BY <2>1, <2>2, <2>3, <2>4, <2>5, Referenced
  <1> QED
    BY <1>1, <1>2 DEF G!Handles

\* The program cannot get at what it had lost when the collection began.
LEMMA ValueNotLost ==
    ASSUME GCInv, NEW h \in G!Handles, LostSound
    PROVE  G!Value(h) \notin pass.lost
  BY HandleIs DEF LostSound, InLocal

\* Nothing was overwritten while nothing is to be discounted.
LEMMA NothingOverwritten ==
    ASSUME NEW rv, ReadSound(rv), \A v : todo # <<Dec(v)>>
    PROVE  /\ \A q \in Cand \ pass.left : ~Overwritten(rv, q)
           /\ \A q \in Cand \ pass.left : member[q] # Null /\ member[q] # rv[q] => InLocal(q)
  BY DEF ReadSound

\* An assignment begins.
LEMMA PlanMade ==
    ASSUME GCInv, todo = <<>>, NEW h \in G!Handles, NEW o \in Instances \cup {Null},
           todo' = G!Assignment(h, o),
           UNCHANGED <<ref, member, local, gcObjects, lock, at, pass>>,
           o = Null \/ (\E g \in G!Handles : G!Value(g) = o) \/ o \notin gcObjects
    PROVE  /\ PassSound'
           /\ \A x \in Instances : ~Added(x) /\ ~Owed(x) /\ ~Added(x)' /\ ~Owed(x)'
  <1>1. \A x \in Instances : ~Added(x) /\ ~Owed(x)
    BY NothingNamed DEF Added, Owed
  <1>2. /\ \A x \in Instances : ~AddedIn(todo', x) /\ ~OwedIn(todo', x)
        /\ \A i \in DOMAIN todo' : todo'[i].o = o
               \/ (todo'[i].o = G!Value(h) /\ G!Value(h) # Null)
        /\ \A v : todo' # <<Dec(v)>>
    <2>1. CASE o = Null
      <3>1. todo' = Plan(h, o, G!Value(h))
        BY <2>1, AssignmentIs
      <3>2. \A x \in Instances : x # o
        BY <2>1, HeapTypes
      <3>3. /\ \A x : (AddedIn(todo', x) <=> x = o) /\ ~OwedIn(todo', x)
            /\ \A i \in DOMAIN todo' : todo'[i].o = o
                   \/ (todo'[i].o = G!Value(h) /\ G!Value(h) # Null)
        BY <3>1, PlanNames
      <3>4. \A v : todo' # <<Dec(v)>>
        BY <3>1, PlanIsNotDec
      <3> QED
        BY <3>2, <3>3, <3>4
    <2>2. CASE o # Null
      <3>1. todo' = IncPlan(h, o, G!Value(h))
        BY <2>2, AssignmentIs
      <3>3. /\ \A x : ~AddedIn(todo', x) /\ ~OwedIn(todo', x)
            /\ \A i \in DOMAIN todo' : todo'[i].o = o
                   \/ (todo'[i].o = G!Value(h) /\ G!Value(h) # Null)
        BY <3>1, IncPlanNames
      <3>4. \A v : todo' # <<Dec(v)>>
        BY <3>1, PlanIsNotDec
      <3> QED
        BY <3>3, <3>4
    <2> QED
      BY <2>1, <2>2
  <1>3. \A x \in Instances : ~Added(x)' /\ ~Owed(x)'
    BY <1>2 DEF Added, Owed
  <1>4. Phase' = Phase /\ Cand' = Cand /\ pass' = pass /\ PassSound
    BY DEF Phase, Cand, GCInv
  <1>5. ASSUME LostSound, Cand = gcObjects PROVE LostSound'
    <2>1. G!Value(h) \notin pass.lost
      BY <1>5, ValueNotLost
    <2>2. o \notin pass.lost
      BY <1>5, ValueNotLost, HeapTypes DEF LostSound
    <2>3. \A i \in DOMAIN todo' : todo'[i].o \notin pass.lost
      BY <1>2, <2>1, <2>2
    <2> QED
      BY <1>4, <1>5, <2>3 DEF LostSound
  <1>6. ASSUME CountSound PROVE CountSound'
    <2>1. PICK rv \in [Cand \ pass.left -> Instances \cup {Null}] : ReadSound(rv)
      BY <1>6 DEF CountSound
    <2>2. /\ \A q \in Cand \ pass.left : ~Overwritten(rv, q)
          /\ \A q \in Cand \ pass.left : member[q] # Null /\ member[q] # rv[q] => InLocal(q)
      BY <2>1, NothingOverwritten, StepsDiffer
    <2>3. \A q : Overwritten(rv, q)' <=> Overwritten(rv, q)
      BY DEF Overwritten
    <2>4. \A q : InLocal(q)' <=> InLocal(q)
      BY DEF InLocal
    <2>5. ReadSound(rv)'
      BY <1>4, <2>1, <2>2, <2>3, <2>4 DEF ReadSound
    <2> QED
      BY <1>4, <1>6, <2>1, <2>5 DEF CountSound
  <1>7. ASSUME NEW T, TraceSound(T), T \subseteq Instances PROVE TraceSound(T)'
    <2>1. \A q : InLocal(q)' <=> InLocal(q)
      BY DEF InLocal
    <2> QED
      BY <1>1, <1>3, <1>4, <1>7, <2>1 DEF TraceSound
  <1>8. PassSound'
    <2>1. TraceSound(Traced) /\ Cand = gcObjects => TraceSound(Traced)'
      <3>1. TraceSound(Traced) => Traced \subseteq Cand
        BY DEF TraceSound
      <3>2. Traced' = Traced
        BY <1>4 DEF Traced
      <3> QED
        BY <1>7, <3>1, <3>2, HeapTypes
    <2>2. TraceSound(pass.live) /\ Cand = gcObjects => TraceSound(pass.live)'
      <3>1. TraceSound(pass.live) => pass.live \subseteq Cand
        BY DEF TraceSound
      <3> QED
        BY <1>4, <1>7, <3>1, HeapTypes
    <2> QED
      BY <1>4, <1>5, <1>6, <2>1, <2>2 DEF PassSound
  <1> QED
    BY <1>1, <1>3, <1>8

\* Handle::operator=() begins.
LEMMA AssignKeeps ==
    ASSUME GCInv, NEW h \in G!Handles, NEW o \in Instances \cup {Null},
           o = Null \/ \E g \in G!Handles : G!Value(g) = o, G!Assign(h, o)
    PROVE  GCInv'
  <1>1. /\ todo = <<>> /\ G!Value(h) # o /\ todo' = G!Assignment(h, o)
        /\ UNCHANGED <<heap, ref, member, local, gcObjects, lock, collecting, at, pass,
               G!runVars, gcCrashed>>
    BY DEF G!Assign, G!heapVars
  <1>2. /\ OneHolds' /\ Phase' = Phase /\ Doomed' = Doomed /\ G!TypeOK'
    BY <1>1, ProgramAside DEF G!TypeOK, GCInv
  <1>3. PassSound' /\ \A x \in Instances : ~Added(x) /\ ~Owed(x) /\ ~Added(x)' /\ ~Owed(x)'
    BY <1>1, PlanMade
  <1>4. Named("inc") = {} /\ Named("delete") = {}
    BY <1>1, NothingNamed DEF Named
  <1>5. HeapSound'
    BY <1>1, <1>2, <1>4 DEF HeapSound, GCInv, Sound
  <1>6. Counted'
    <2>1. \A x \in Instances : Held(x)' = Held(x) /\ Members(x)' = Members(x)
              /\ Sound(x)' = Sound(x)
      BY <1>1, <1>2 DEF Held, Members, Sound
    <2>2. \A x \in Instances : Bit(Added(x)) = Bit(Added(x)') /\ Bit(Owed(x)) = Bit(Owed(x)')
      BY <1>3 DEF Bit
    <2> QED
      BY <1>1, <2>1, <2>2 DEF Counted, GCInv
  <1>7. TodoSound'
    <2>1. G!Handles' = G!Handles /\ \A g : G!Value(g)' = G!Value(g)
      BY <1>1 DEF G!Handles, G!Value
    <2>2. CASE o = Null
      BY <1>1, <2>1, <2>2, AssignmentIs DEF TodoSound
    <2>3. CASE o # Null
      <3>1. PICK g \in G!Handles : G!Value(g) = o
        BY <2>3
      <3>2. todo' = IncPlan(h, o, G!Value(h))
        BY <1>1, <2>3, AssignmentIs
      <3> QED
        BY <1>1, <2>1, <2>3, <3>1, <3>2 DEF TodoSound
    <2> QED
      BY <2>2, <2>3
  <1> QED
    BY <1>2, <1>3, <1>5, <1>6, <1>7 DEF GCInv

\* An instance is made and assigned.
LEMMA NewKeeps ==
    ASSUME GCInv, NEW h \in G!Handles, NEW o \in Instances, G!New(h, o)
    PROVE  GCInv'
  <1>1. /\ todo = <<>> /\ heap[o] = "none" /\ todo' = G!Assignment(h, o)
        /\ heap' = [heap EXCEPT ![o] = "live"]
        /\ UNCHANGED <<ref, member, local, gcObjects, lock, collecting, at, pass, G!runVars,
               gcCrashed>>
    BY DEF G!New
  <1>0. /\ heap \in [Instances -> {"none", "live", "dead"}] /\ Null \notin Instances /\ HeapSound
    BY HeapTypes DEF GCInv
  <1>2. /\ OneHolds' /\ Phase' = Phase /\ Doomed' = Doomed
    BY <1>1, ProgramAside
  <1>t. G!TypeOK'
    BY <1>0, <1>1, ProgramAside DEF G!TypeOK, GCInv
  <1>3. /\ o \notin gcObjects /\ o \notin Doomed /\ ref[o] = 0 /\ ~Sound(o)
        /\ \A l \in Locals : local[l] # o
        /\ \A q \in Instances : member[q] # o
        /\ member[o] = Null
    BY <1>0, <1>1 DEF HeapSound, Sound
  <1>4. \A x \in Instances : Sound(x)' <=> (Sound(x) \/ x = o)
    BY <1>0, <1>1, <1>2, <1>3 DEF Sound
  <1>5. PassSound' /\ \A x \in Instances : ~Added(x) /\ ~Owed(x) /\ ~Added(x)' /\ ~Owed(x)'
    BY <1>1, <1>3, PlanMade
  <1>6. Named("inc") = {} /\ Named("delete") = {}
    BY <1>1, NothingNamed DEF Named
  <1>7. todo' = IncPlan(h, o, G!Value(h))
    BY <1>0, <1>1, AssignmentIs
  <1>8. o \in Named("inc")'
    BY <1>7, IncPlanNames DEF Named
  <1>9. HeapSound'
    <2>1. /\ \A l \in Locals : (local[l] # Null => Sound(local[l]))'
          /\ \A q \in Instances : (member[q] # Null => Sound(q) /\ Sound(member[q]))'
      BY <1>0, <1>1, <1>4, HeapTypes DEF HeapSound
    <2>2. /\ \A x \in Instances : heap'[x] = "none" => heap[x] = "none"
          /\ \A x \in gcObjects : heap'[x] = "live"
      BY <1>0, <1>1, <1>3, HeapTypes DEF HeapSound
    <2>3. \A x \in Instances : Sound(x)' => (x \in gcObjects <=> ref[x] > 0)
      BY <1>0, <1>3, <1>4 DEF HeapSound
    <2>4. \A x \in Instances : Sound(x)' /\ ref[x] = 0 => x = o
      BY <1>0, <1>4, <1>6 DEF HeapSound
    <2> QED
      BY <1>0, <1>1, <1>2, <1>8, <2>1, <2>2, <2>3, <2>4 DEF HeapSound
  <1>10. Counted'
    <2>1. \A x \in Instances : Held(x)' = Held(x) /\ Members(x)' = Members(x)
      BY <1>1, <1>2 DEF Held, Members
    <2>2. \A x \in Instances : Bit(Added(x)) = 0 /\ Bit(Added(x)') = 0 /\ Bit(Owed(x)) = 0
              /\ Bit(Owed(x)') = 0
      BY <1>5 DEF Bit
    <2>3. Cardinality(Held(o)) = 0 /\ Cardinality(Members(o)) = 0
      <3>1. Held(o) = {} /\ Members(o) = {}
        BY <1>3 DEF Held, Members
      <3> QED
        BY <3>1, HeldFinite
    <2>4. \A x \in Instances : Sound(x) \/ x = o =>
             ref[x] = Cardinality(Held(x)) + Cardinality(Members(x)) + 0 + 0
      BY <1>3, <2>2, <2>3 DEF Counted, GCInv
    <2> QED
      BY <1>1, <1>4, <2>1, <2>2, <2>4 DEF Counted
  <1>11. TodoSound'
    <2>1. G!Handles' = G!Handles /\ \A g : G!Value(g)' = G!Value(g)
      BY <1>1 DEF G!Handles, G!Value
    <2>2. Fresh(o)'
      BY <1>1, <1>3, <1>4 DEF Fresh
    <2>3. G!Value(h) # o
      BY <1>3, HandleIs DEF InLocal
    <2> QED
      BY <1>7, <2>1, <2>2, <2>3 DEF TodoSound
  <1> QED
    BY <1>2, <1>t, <1>5, <1>9, <1>10, <1>11 DEF GCInv

\* The first step of what is to do tells the rest.
LEMMA TodoIs ==
    ASSUME GCInv, todo # <<>>
    PROVE  \/ /\ Head(todo).op = "inc"
              /\ \E h \in G!Handles, o \in Instances :
                    /\ todo = IncPlan(h, o, G!Value(h)) /\ G!Value(h) # o
                    /\ Fresh(o) \/ \E g \in G!Handles : G!Value(g) = o
           \/ /\ Head(todo).op = "store"
              /\ \E h \in G!Handles, o \in Instances \cup {Null} :
                    /\ todo = Plan(h, o, G!Value(h)) /\ G!Value(h) # o
                    /\ o # Null => Sound(o)
           \/ Head(todo).op = "dec" /\ \E v \in Instances : todo = <<Dec(v)>> /\ heap[v] # "none"
           \/ Head(todo).op = "delete" /\ \E v \in Instances : todo = <<Del(v)>> /\ Sound(v)
                  /\ ref[v] = 0
  <1>1. ASSUME NEW h, NEW o, NEW v, todo = IncPlan(h, o, v) PROVE Head(todo).op = "inc"
    <2>1. Head(todo) = Inc(o)
      BY <1>1, IncPlanNames
    <2> QED
      BY <2>1 DEF Inc, G!Step
  <1>2. ASSUME NEW h, NEW o, NEW v, todo = Plan(h, o, v) PROVE Head(todo).op = "store"
    <2>1. Head(todo) = St(h, o)
      BY <1>2, PlanNames
    <2> QED
      BY <2>1 DEF St, G!Step
  <1>3. ASSUME NEW v, todo = <<Dec(v)>> PROVE Head(todo).op = "dec"
    BY <1>3 DEF Dec, G!Step
  <1>4. ASSUME NEW v, todo = <<Del(v)>> PROVE Head(todo).op = "delete"
    BY <1>4 DEF Del, G!Step
  <1>5. TodoSound
    BY DEF GCInv
  <1> QED
    BY <1>1, <1>2, <1>3, <1>4, <1>5 DEF TodoSound

\* Nothing happens to the heap.
LEMMA SameHeap ==
    ASSUME GCInv, UNCHANGED <<G!heapVars, todo>>, Doomed' = Doomed
    PROVE  HeapSound' /\ Counted' /\ TodoSound'
  <1>1. UNCHANGED <<heap, ref, member, local, gcObjects, todo>>
    BY DEF G!heapVars
  <1>2. \A x : Sound(x)' <=> Sound(x)
    BY <1>1 DEF Sound
  <1>3. \A op : Named(op)' = Named(op)
    BY <1>1 DEF Named
  <1>4. HeapSound'
    BY <1>1, <1>2, <1>3 DEF HeapSound, GCInv
  <1>5. \A x : Held(x)' = Held(x) /\ Members(x)' = Members(x) /\ Bit(Added(x))' = Bit(Added(x))
            /\ Bit(Owed(x))' = Bit(Owed(x))
    BY <1>1 DEF Held, Members, Added, Owed
  <1>6. Counted'
    BY <1>1, <1>2, <1>5 DEF Counted, GCInv
  <1>7. \A x : Fresh(x)' <=> Fresh(x)
    BY <1>1, <1>2 DEF Fresh
  <1>8. G!Handles' = G!Handles /\ \A g : G!Value(g)' = G!Value(g)
    BY <1>1 DEF G!Handles, G!Value
  <1>9. TodoSound'
    BY <1>1, <1>2, <1>7, <1>8 DEF TodoSound, GCInv
  <1> QED
    BY <1>4, <1>6, <1>9

\* A collection is not disturbed by steps that leave the heap and the program alone.
LEMMA SamePass ==
    ASSUME GCInv, UNCHANGED <<G!heapVars, todo, pass>>, Phase' = Phase
    PROVE  PassSound'
  <1>1. UNCHANGED <<heap, ref, member, local, gcObjects, todo, pass>>
    BY DEF G!heapVars
  <1>2. Cand' = Cand /\ Traced' = Traced /\ LostSound' = LostSound
    BY <1>1 DEF Cand, Traced, LostSound
  <1>3. \A x : InLocal(x)' = InLocal(x) /\ Added(x)' = Added(x) /\ Owed(x)' = Owed(x)
    BY <1>1 DEF InLocal, Added, Owed
  <1>4. \A T : TraceSound(T)' = TraceSound(T)
    BY <1>1, <1>2, <1>3 DEF TraceSound
  <1>5. \A rv : ReadSound(rv)' = ReadSound(rv)
    BY <1>1 DEF ReadSound, Overwritten, InLocal, Cand
  <1>6. CountSound' = CountSound
    BY <1>1, <1>2, <1>5 DEF CountSound
  <1> QED
    BY <1>1, <1>2, <1>4, <1>6 DEF PassSound, GCInv

\* No collection is under way while nobody has gcRecMutex.
LEMMA LockFree ==
    ASSUME lock = G!Nobody
    PROVE  Phase = "idle" /\ Doomed = {}
  BY DEF Phase, Doomed

\* __incRef()
LEMMA IncRefKeeps == ASSUME GCInv, G!IncRef PROVE GCInv'
  <1>1. /\ todo # <<>> /\ Head(todo).op = "inc" /\ lock = G!Nobody
        /\ ref' = [ref EXCEPT ![Head(todo).o] = @ + 1]
        /\ gcObjects' = IF ref[Head(todo).o] = 0 THEN gcObjects \cup {Head(todo).o} ELSE gcObjects
        /\ todo' = Tail(todo)
        /\ UNCHANGED <<heap, member, local, lock, collecting, at, pass, G!runVars, gcCrashed>>
    BY DEF G!IncRef, G!Does
  <1>2. PICK h \in G!Handles, o \in Instances :
                    /\ todo = IncPlan(h, o, G!Value(h)) /\ G!Value(h) # o
                    /\ Fresh(o) \/ \E g \in G!Handles : G!Value(g) = o
    BY <1>1, TodoIs
  <1>3. Head(todo) = Inc(o) /\ todo' = Plan(h, o, G!Value(h))
    BY <1>1, <1>2, IncPlanNames
  <1>4. Head(todo).o = o
    BY <1>3 DEF Inc, G!Step
  <1>5. /\ ref' = [ref EXCEPT ![o] = @ + 1]
        /\ gcObjects' = IF ref[o] = 0 THEN gcObjects \cup {o} ELSE gcObjects
    BY <1>1, <1>4
  <1>6. /\ ref \in [Instances -> Nat] /\ gcObjects \subseteq Instances /\ HeapSound
    BY HeapTypes DEF GCInv
  <1>7. /\ OneHolds' /\ Phase' = "idle" /\ Doomed' = {} /\ Doomed = {}
    BY <1>1, ProgramAside, LockFree
  <1>8. G!TypeOK'
    BY <1>1, <1>5, <1>6, ProgramAside DEF G!TypeOK, GCInv
  <1>9. /\ ref'[o] = ref[o] + 1 /\ ref[o] \in Nat /\ o \in gcObjects' /\ Sound(o)
        /\ \A x \in Instances : x # o =>
               ref'[x] = ref[x] /\ (x \in gcObjects' <=> x \in gcObjects)
    <2>1. Sound(o)
      BY <1>2, HandleIs, HeapTypes DEF Fresh
    <2>2. ref[o] # 0 => o \in gcObjects
      BY <1>6, <2>1 DEF HeapSound
    <2> QED
      BY <1>5, <1>6, <2>1, <2>2
  <1>10. \A x \in Instances : Sound(x)' <=> Sound(x)
    BY <1>1, <1>7 DEF Sound
  <1>11. Named("inc") = {o} /\ Named("delete") = {} /\ \A x : ~Added(x) /\ ~Owed(x)
    BY <1>2, IncPlanNames DEF Named, Added, Owed
  <1>12. \A x : (Added(x)' <=> x = o) /\ ~Owed(x)'
    <2>1. \A x : (AddedIn(todo', x) <=> x = o) /\ ~OwedIn(todo', x)
      BY <1>3, PlanNames
    <2> QED
      BY <2>1 DEF Added, Owed
  <1>13. HeapSound'
    <2>1. /\ \A l \in Locals : (local[l] # Null => Sound(local[l]))'
          /\ \A q \in Instances : (member[q] # Null => Sound(q) /\ Sound(member[q]))'
      BY <1>1, <1>6, <1>10, HeapTypes DEF HeapSound
    <2>2. \A x \in Instances : heap[x] = "none" => ref'[x] = 0
      BY <1>6, <1>9 DEF HeapSound, Sound
    <2>3. \A x \in gcObjects' : heap[x] = "live"
      BY <1>5, <1>6, <1>9 DEF HeapSound, Sound
    <2>4. \A x \in Instances : Sound(x) => (x \in gcObjects' <=> ref'[x] > 0)
      BY <1>6, <1>9 DEF HeapSound
    <2>5. \A x \in Instances : Sound(x) => ref'[x] # 0
      BY <1>6, <1>9, <1>11 DEF HeapSound
    <2> QED
      BY <1>1, <1>7, <1>10, <2>1, <2>2, <2>3, <2>4, <2>5 DEF HeapSound
  <1>14. Counted'
    <2> SUFFICES ASSUME NEW x \in Instances, Sound(x)'
                 PROVE  (ref[x] = Cardinality(Held(x)) + Cardinality(Members(x)) + Bit(Added(x))
                            + Bit(Owed(x)))'
      BY DEF Counted
    <2>1. Held(x)' = Held(x) /\ Members(x)' = Members(x)
      BY <1>1 DEF Held, Members
    <2>2. ref[x] = Cardinality(Held(x)) + Cardinality(Members(x)) + Bit(Added(x)) + Bit(Owed(x))
      BY <1>10 DEF Counted, GCInv
    <2>3. Bit(Added(x)) = 0 /\ Bit(Owed(x)) = 0 /\ Bit(Added(x)') = (IF x = o THEN 1 ELSE 0)
              /\ Bit(Owed(x)') = 0
      BY <1>11, <1>12 DEF Bit
    <2>4. Cardinality(Held(x)) \in Nat /\ Cardinality(Members(x)) \in Nat
      BY HeldFinite
    <2>5. ref'[x] = Cardinality(Held(x)) + Cardinality(Members(x)) + Bit(Added(x)')
              + Bit(Owed(x)')
      BY <1>9, <2>2, <2>3, <2>4
    <2> QED
      BY <2>1, <2>5
  <1>15. TodoSound'
    <2>1. G!Handles' = G!Handles /\ \A g : G!Value(g)' = G!Value(g)
      BY <1>1 DEF G!Handles, G!Value
    <2> QED
      BY <1>2, <1>3, <1>9, <1>10, <2>1 DEF TodoSound
  <1>16. PassSound'
    BY <1>1, <1>7 DEF PassSound, GCInv
  <1> QED
    BY <1>7, <1>8, <1>13, <1>14, <1>15, <1>16 DEF GCInv

\* __decRef(), also of an instance that the collector has deleted.
LEMMA DecRefKeeps == ASSUME GCInv, G!DecRef PROVE GCInv'
  <1>1. /\ todo # <<>> /\ Head(todo).op = "dec" /\ lock = G!Nobody
        /\ UNCHANGED <<heap, member, local, lock, collecting, at, pass, G!runVars>>
    BY DEF G!DecRef, G!Does
  <1>2. PICK v \in Instances : todo = <<Dec(v)>> /\ heap[v] # "none"
    BY <1>1, TodoIs
  <1>3. Head(todo) = Dec(v) /\ Tail(todo) = <<>>
    BY <1>2
  <1>4. Head(todo).o = v
    BY <1>3 DEF Dec, G!Step
  <1>5. CASE heap[v] = "dead"
    <2>1. UNCHANGED <<ref, gcObjects, todo>>
      BY <1>4, <1>5 DEF G!DecRef
    <2> QED
      <3>1. UNCHANGED G!heapVars
        BY <1>1, <2>1 DEF G!heapVars
      <3>2. OneHolds' /\ Phase' = Phase /\ Doomed' = Doomed /\ G!TypeOK'
        BY <1>1, <2>1, ProgramAside DEF G!TypeOK, GCInv
      <3> QED
        BY <1>1, <2>1, <3>1, <3>2, SameHeap, SamePass DEF GCInv
  <1>6. CASE heap[v] # "dead"
    <2>1. /\ ref' = [ref EXCEPT ![v] = @ - 1]
          /\ gcObjects' = IF ref[v] = 1 THEN gcObjects \ {v} ELSE gcObjects
          /\ todo' = G!If(ref[v] = 1, G!Step("delete", G!NoHandle, v)) \o Tail(todo)
      BY <1>4, <1>6 DEF G!DecRef
    <2>2. /\ ref \in [Instances -> Nat] /\ gcObjects \subseteq Instances /\ HeapSound
          /\ heap \in [Instances -> {"none", "live", "dead"}]
      BY HeapTypes DEF GCInv
    <2>3. /\ OneHolds' /\ Phase' = "idle" /\ Doomed' = {} /\ Doomed = {}
      BY <1>1, ProgramAside, LockFree
    <2>4. Sound(v)
      BY <1>2, <1>6, <2>2, <2>3 DEF Sound
    <2>5. /\ Named("inc") = {} /\ Named("delete") = {} /\ (\A x : Owed(x) <=> x = v)
                 /\ \A x : ~Added(x)
      BY <1>2, DecNames DEF Named, Owed, Added
    <2>6. ref[v] > 0 /\ v \in gcObjects
      BY <2>4, <2>5, Referenced
    <2>7. /\ ref'[v] = ref[v] - 1 /\ ref[v] \in Nat
          /\ \A x \in Instances : x # v =>
                 ref'[x] = ref[x] /\ (x \in gcObjects' <=> x \in gcObjects)
          /\ v \in gcObjects' <=> ref'[v] > 0
          /\ ref' \in [Instances -> Nat] /\ gcObjects' \subseteq gcObjects
      BY <2>1, <2>2, <2>6
    <2>8. G!TypeOK'
      BY <1>1, <2>2, <2>7, ProgramAside DEF G!TypeOK, GCInv
    <2>9. todo' = IF ref[v] = 1 THEN <<Del(v)>> ELSE <<>>
      <3>1. <<Del(v)>> \o <<>> = <<Del(v)>> /\ <<>> \o <<>> = <<>>
        <4>1. <<Del(v)>> \in Seq({Del(v)})
          OBVIOUS
        <4> QED
          BY <4>1, ConcatEmptySeq
      <3> QED
        BY <1>3, <2>1, <3>1 DEF G!If, Del
    <2>10. /\ Named("inc")' = {} /\ Named("delete")' = (IF ref[v] = 1 THEN {v} ELSE {})
           /\ \A x : ~Added(x)' /\ ~Owed(x)'
      <3>1. CASE ref[v] = 1
        BY <2>9, <3>1, DelNames DEF Named, Added, Owed
      <3>2. CASE ref[v] # 1
        BY <2>9, <3>2, NothingNamed DEF Named, Added, Owed
      <3> QED
        BY <3>1, <3>2
    <2>11. \A x \in Instances : Sound(x)' <=> Sound(x)
      BY <1>1, <2>3 DEF Sound
    <2>12. HeapSound'
      <3>1. /\ \A l \in Locals : (local[l] # Null => Sound(local[l]))'
            /\ \A q \in Instances : (member[q] # Null => Sound(q) /\ Sound(member[q]))'
        BY <1>1, <2>2, <2>11, HeapTypes DEF HeapSound
      <3>2. \A x \in Instances : heap[x] = "none" => ref'[x] = 0
        BY <1>2, <2>2, <2>7 DEF HeapSound
      <3>3. \A x \in gcObjects' : heap[x] = "live"
        BY <2>2, <2>7 DEF HeapSound
      <3>4. \A x \in Instances : Sound(x) => (x \in gcObjects' <=> ref'[x] > 0)
        BY <2>2, <2>7 DEF HeapSound
      <3>5. \A x \in Instances : Sound(x) /\ ref'[x] = 0 => x = v /\ ref[v] = 1
        BY <2>2, <2>5, <2>7 DEF HeapSound
      <3> QED
        BY <1>1, <2>3, <2>10, <2>11, <3>1, <3>2, <3>3, <3>4, <3>5 DEF HeapSound
    <2>13. Counted'
      <3> SUFFICES ASSUME NEW x \in Instances, Sound(x)'
                   PROVE  (ref[x] = Cardinality(Held(x)) + Cardinality(Members(x))
                              + Bit(Added(x)) + Bit(Owed(x)))'
        BY DEF Counted
      <3>1. Held(x)' = Held(x) /\ Members(x)' = Members(x)
        BY <1>1 DEF Held, Members
      <3>2. ref[x] = Cardinality(Held(x)) + Cardinality(Members(x)) + Bit(Added(x)) + Bit(Owed(x))
        BY <2>11 DEF Counted, GCInv
      <3>3. Bit(Added(x)) = 0 /\ Bit(Owed(x)') = 0 /\ Bit(Owed(x)) = (IF x = v THEN 1 ELSE 0)
                /\ Bit(Added(x)') = 0
        BY <2>5, <2>10 DEF Bit
      <3>4. Cardinality(Held(x)) \in Nat /\ Cardinality(Members(x)) \in Nat
        BY HeldFinite
      <3>5. ref'[x] = Cardinality(Held(x)) + Cardinality(Members(x)) + Bit(Added(x)')
                + Bit(Owed(x)')
        BY <2>7, <3>2, <3>3, <3>4
      <3> QED
        BY <3>1, <3>5
    <2>14. TodoSound'
      BY <2>4, <2>7, <2>9, <2>11 DEF TodoSound
    <2>15. PassSound'
      BY <1>1, <2>3 DEF PassSound, GCInv
    <2> QED
      BY <2>3, <2>8, <2>12, <2>13, <2>14, <2>15 DEF GCInv
  <1> QED
    BY <1>5, <1>6

\* What is to do before and after a handle is assigned.
LEMMA StoreIs ==
    ASSUME GCInv, G!Store
    PROVE  \E h \in G!Handles, o \in Instances \cup {Null} :
             /\ Head(todo).h = h /\ Head(todo).o = o /\ G!Value(h) # o /\ (o # Null => Sound(o))
             /\ \A v : todo # <<Dec(v)>>
             /\ todo' = IF G!Value(h) = Null THEN <<>> ELSE <<Dec(G!Value(h))>>
             /\ Named("inc") = {} /\ Named("delete") = {} /\ \A x : (Added(x) <=> x = o)
                    /\ ~Owed(x)
             /\ \A x : ~Added(x)' /\ (Owed(x)' <=> x = G!Value(h) /\ G!Value(h) # Null)
             /\ \A i \in DOMAIN todo' : todo'[i].o = G!Value(h) /\ G!Value(h) # Null
             /\ LostSound => o \notin pass.lost
  <1>1. todo # <<>> /\ Head(todo).op = "store" /\ todo' = Tail(todo)
    BY DEF G!Store, G!Does
  <1>2. PICK h \in G!Handles, o \in Instances \cup {Null} :
           todo = Plan(h, o, G!Value(h)) /\ G!Value(h) # o /\ (o # Null => Sound(o))
    BY <1>1, TodoIs
  <1>3. /\ NamedIn(todo, "inc") = {} /\ NamedIn(todo, "delete") = {}
        /\ NamedIn(todo, "store") = {o}
        /\ \A x : (AddedIn(todo, x) <=> x = o) /\ ~OwedIn(todo, x)
        /\ Head(todo) = St(h, o)
        /\ Tail(todo) = IF G!Value(h) = Null THEN <<>> ELSE <<Dec(G!Value(h))>>
    BY <1>2, PlanNames
  <1>4. Head(todo).h = h /\ Head(todo).o = o
    BY <1>3 DEF St, G!Step
  <1>5. \A v : todo # <<Dec(v)>>
    BY <1>2, PlanIsNotDec
  <1>6. /\ \A x : ~AddedIn(todo', x) /\ (OwedIn(todo', x) <=> x = G!Value(h) /\ G!Value(h) # Null)
        /\ \A i \in DOMAIN todo' : todo'[i].o = G!Value(h) /\ G!Value(h) # Null
    <2>1. CASE G!Value(h) = Null
      BY <1>1, <1>3, <2>1, NothingNamed
    <2>2. CASE G!Value(h) # Null
      BY <1>1, <1>3, <2>2, DecNames
    <2> QED
      BY <2>1, <2>2
  <1>7. LostSound => o \notin pass.lost
    <2>1. \E i \in DOMAIN todo : todo[i].o = o
      BY <1>3 DEF NamedIn
    <2> QED
      BY <2>1 DEF LostSound
  <1> QED
    BY <1>1, <1>2, <1>3, <1>4, <1>5, <1>6, <1>7 DEF Named, Added, Owed

\* A handle that is not a member is assigned.
LEMMA StoreLocal ==
    ASSUME GCInv, NEW l \in Locals, NEW o \in Instances \cup {Null}, NEW v, v = local[l], v # o,
           o # Null => Sound(o),
           \A w : todo # <<Dec(w)>>,
           todo' = IF v = Null THEN <<>> ELSE <<Dec(v)>>,
           Named("inc") = {}, Named("delete") = {}, \A x : (Added(x) <=> x = o) /\ ~Owed(x),
           \A x : ~Added(x)' /\ (Owed(x)' <=> x = v /\ v # Null),
           \A i \in DOMAIN todo' : todo'[i].o = v /\ v # Null,
           LostSound => o \notin pass.lost,
           local' = [local EXCEPT ![l] = o],
           UNCHANGED <<heap, ref, member, gcObjects, lock, collecting, at, pass, G!runVars,
               gcCrashed>>
    PROVE  GCInv'
  <1>1. /\ local \in [Locals -> Instances \cup {Null}] /\ Null \notin Instances
        /\ gcObjects \subseteq Instances
        /\ member \in [Instances -> Instances \cup {Null}] /\ HeapSound /\ PassSound
    BY HeapTypes DEF GCInv
  <1>2. /\ OneHolds' /\ Phase' = Phase /\ Doomed' = Doomed /\ Cand' = Cand /\ Traced' = Traced
    BY ProgramAside DEF Traced
  <1>3. G!TypeOK'
    BY <1>1, ProgramAside DEF G!TypeOK, GCInv
  <1>4. /\ local'[l] = o /\ \A k \in Locals : k # l => local'[k] = local[k]
    BY <1>1
  <1>5. \A x : Sound(x)' <=> Sound(x)
    BY <1>2 DEF Sound
  <1>6. v # Null => Sound(v) /\ InLocal(v)
    BY <1>1 DEF HeapSound, InLocal
  <1>7. \A x : InLocal(x) => InLocal(x)' \/ x = v
    BY <1>4 DEF InLocal
  <1>8. InLocal(o)'
    BY <1>4 DEF InLocal
  <1>9. HeapSound'
    <2>1. \A k \in Locals : local'[k] # Null => Sound(local'[k])
      BY <1>1, <1>4 DEF HeapSound
    <2>2. \A x \in Instances : Sound(x) => ref[x] # 0
      BY <1>1 DEF HeapSound
    <2> QED
      BY <1>1, <1>2, <1>5, <2>1, <2>2 DEF HeapSound
  <1>10. Counted'
    <2> SUFFICES ASSUME NEW x \in Instances, Sound(x)'
                 PROVE  (ref[x] = Cardinality(Held(x)) + Cardinality(Members(x)) + Bit(Added(x))
                            + Bit(Owed(x)))'
      BY DEF Counted
    <2>1. Members(x)' = Members(x)
      BY DEF Members
    <2>2. ref[x] = Cardinality(Held(x)) + Cardinality(Members(x)) + Bit(Added(x)) + Bit(Owed(x))
      BY <1>5 DEF Counted, GCInv
    <2>3. /\ Cardinality(Held(x)') = Cardinality(Held(x)) - Bit(v = x) + Bit(o = x)
          /\ Cardinality(Held(x)) \in Nat /\ Cardinality(Held(x)') \in Nat
      <3>1. PICK g, A, Y : g = local' /\ A = Held(x) /\ Y = Held(x)'
        OBVIOUS
      <3>2. Recounted(Locals, local, g, l, x, A, Y)
        BY <1>4, <3>1, CollectorAssumption DEF Held, Recounted
      <3>3. /\ Cardinality(Y) = Cardinality(A) - (IF local[l] = x THEN 1 ELSE 0)
                   + (IF g[l] = x THEN 1 ELSE 0)
            /\ Cardinality(A) \in Nat /\ Cardinality(Y) \in Nat
        BY ONLY <3>2, CountStored
      <3>4. g[l] = o
        BY <1>4, <3>1
      <3> QED
        BY <3>1, <3>3, <3>4 DEF Bit
    <2>4. Bit(Added(x)) = Bit(o = x) /\ Bit(Owed(x)) = 0 /\ Bit(Added(x)') = 0
              /\ Bit(Owed(x)') = Bit(v = x)
      BY <1>1 DEF Bit
    <2>5. Cardinality(Members(x)) \in Nat /\ Bit(o = x) \in Nat /\ Bit(v = x) \in Nat
      BY HeldFinite DEF Bit
    <2>6. ref'[x] = Cardinality(Held(x)') + Cardinality(Members(x)) + Bit(Added(x)')
              + Bit(Owed(x)')
      BY <2>2, <2>3, <2>4, <2>5
    <2> QED
      BY <2>1, <2>6
  <1>11. TodoSound'
    BY <1>1, <1>6 DEF TodoSound, Sound
  <1>12. ASSUME LostSound PROVE LostSound'
    <2>1. v \notin pass.lost
      BY <1>12 DEF LostSound
    <2> QED
      BY <1>2, <1>4, <1>12, <2>1 DEF LostSound
  <1>13. ASSUME CountSound, Cand = gcObjects PROVE CountSound'
    <2>1. PICK rv \in [Cand \ pass.left -> Instances \cup {Null}] : ReadSound(rv)
      BY <1>13 DEF CountSound
    <2>2. /\ \A q \in Cand \ pass.left : ~Overwritten(rv, q)
          /\ \A q \in Cand \ pass.left : member[q] # Null /\ member[q] # rv[q] => InLocal(q)
      BY <2>1, NothingOverwritten
    <2>3. \A q : Overwritten(rv, q)' <=> Overwritten(rv, q)
      BY DEF Overwritten
    <2>4. \A q \in Cand \ pass.left : member[q] # Null /\ member[q] # rv[q] =>
             InLocal(q)' \/ (q = v /\ v # Null)
      <3>1. \A q \in Cand : q # Null
        BY <1>1, <1>13
      <3> QED
        BY <1>7, <2>2, <3>1
    <2>5. ReadSound(rv)'
      BY <1>2, <2>1, <2>2, <2>3, <2>4 DEF ReadSound
    <2> QED
      BY <1>2, <1>13, <2>1, <2>5 DEF CountSound
  <1>14. ASSUME NEW T, TraceSound(T), T \subseteq Instances PROVE TraceSound(T)'
    <2>1. \A x \in T : x = v => Owed(x)'
      BY <1>1, <1>14
    <2>2. o # Null => o \in T
      BY <1>14 DEF TraceSound
    <2>3. \A x \in T : (InLocal(x) \/ Added(x) \/ Owed(x)) => (InLocal(x)' \/ Owed(x)')
      BY <1>7, <1>8, <2>1
    <2> QED
      BY <1>2, <1>4, <1>14, <2>2, <2>3 DEF TraceSound
  <1>15. PassSound'
    <2>1. TraceSound(Traced) /\ Cand = gcObjects => TraceSound(Traced)'
      <3>1. TraceSound(Traced) => Traced \subseteq Cand
        BY DEF TraceSound
      <3> QED
        BY <1>1, <1>2, <1>14, <3>1
    <2>2. TraceSound(pass.live) /\ Cand = gcObjects => TraceSound(pass.live)'
      <3>1. TraceSound(pass.live) => pass.live \subseteq Cand
        BY DEF TraceSound
      <3> QED
        BY <1>1, <1>14, <3>1
    <2> QED
      BY <1>1, <1>2, <1>12, <1>13, <2>1, <2>2 DEF PassSound
  <1> QED
    BY <1>2, <1>3, <1>9, <1>10, <1>11, <1>15 DEF GCInv

\* The references to an instance, when a member changes.
MemberBecomes(p, w) ==
    p \in Instances /\ member \in [Instances -> Instances \cup {Null}]
        /\ member' = [member EXCEPT ![p] = w]

\* How many members refer to an instance when one member is assigned.
LEMMA MembersStored ==
    ASSUME NEW p, NEW w, MemberBecomes(p, w), NEW x \in Instances
    PROVE  /\ Cardinality(Members(x)') = Cardinality(Members(x)) - Bit(member[p] = x) + Bit(w = x)
           /\ Cardinality(Members(x)) \in Nat /\ Cardinality(Members(x)') \in Nat
  <1>1. PICK g, A, Y : g = member' /\ A = Members(x) /\ Y = Members(x)'
    OBVIOUS
  <1>2. g[p] = w /\ Recounted(Instances, member, g, p, x, A, Y)
    BY <1>1, CollectorAssumption DEF Members, Recounted, MemberBecomes
  <1>3. /\ Cardinality(Y) = Cardinality(A) - (IF member[p] = x THEN 1 ELSE 0)
               + (IF g[p] = x THEN 1 ELSE 0)
        /\ Cardinality(A) \in Nat /\ Cardinality(Y) \in Nat
    BY ONLY <1>2, CountStored
  <1> QED
    BY <1>1, <1>2, <1>3 DEF Bit

\* A member is assigned.
LEMMA StoreMember ==
    ASSUME GCInv, NEW p \in Instances, NEW o \in Instances \cup {Null}, NEW v, v = member[p],
               v # o,
           InLocal(p), Sound(p),
           o # Null => Sound(o),
           \A w : todo # <<Dec(w)>>,
           todo' = IF v = Null THEN <<>> ELSE <<Dec(v)>>,
           Named("inc") = {}, Named("delete") = {}, \A x : (Added(x) <=> x = o) /\ ~Owed(x),
           \A x : ~Added(x)' /\ (Owed(x)' <=> x = v /\ v # Null),
           \A i \in DOMAIN todo' : todo'[i].o = v /\ v # Null,
           LostSound => o \notin pass.lost /\ v \notin pass.lost,
           member' = [member EXCEPT ![p] = o],
           UNCHANGED <<heap, ref, local, gcObjects, lock, collecting, at, pass, G!runVars,
               gcCrashed>>
    PROVE  GCInv'
  <1>1. /\ local \in [Locals -> Instances \cup {Null}] /\ Null \notin Instances
        /\ gcObjects \subseteq Instances
        /\ member \in [Instances -> Instances \cup {Null}] /\ HeapSound /\ PassSound
    BY HeapTypes DEF GCInv
  <1>2. /\ OneHolds' /\ Phase' = Phase /\ Doomed' = Doomed /\ Cand' = Cand /\ Traced' = Traced
    BY ProgramAside DEF Traced
  <1>3. G!TypeOK'
    BY <1>1, ProgramAside DEF G!TypeOK, GCInv
  <1>4. /\ member'[p] = o /\ \A k \in Instances : k # p => member'[k] = member[k]
    BY <1>1
  <1>5. \A x : (Sound(x)' <=> Sound(x)) /\ (InLocal(x)' <=> InLocal(x))
    BY <1>2 DEF Sound, InLocal
  <1>6. v # Null => Sound(v)
    BY <1>1 DEF HeapSound
  <1>9. HeapSound'
    <2>1. \A k \in Instances : member'[k] # Null => Sound(k) /\ Sound(member'[k])
      BY <1>1, <1>4 DEF HeapSound
    <2>2. \A x \in Instances : Sound(x) => ref[x] # 0
      BY <1>1 DEF HeapSound
    <2> QED
      BY <1>1, <1>2, <1>5, <2>1, <2>2 DEF HeapSound
  <1>10. Counted'
    <2> SUFFICES ASSUME NEW x \in Instances, Sound(x)'
                 PROVE  (ref[x] = Cardinality(Held(x)) + Cardinality(Members(x)) + Bit(Added(x))
                            + Bit(Owed(x)))'
      BY DEF Counted
    <2>1. Held(x)' = Held(x)
      BY DEF Held
    <2>2. ref[x] = Cardinality(Held(x)) + Cardinality(Members(x)) + Bit(Added(x)) + Bit(Owed(x))
      BY <1>5 DEF Counted, GCInv
    <2>3. /\ Cardinality(Members(x)') = Cardinality(Members(x)) - Bit(v = x) + Bit(o = x)
          /\ Cardinality(Members(x)) \in Nat /\ Cardinality(Members(x)') \in Nat
      <3>1. MemberBecomes(p, o)
        BY <1>1 DEF MemberBecomes
      <3> QED
        BY <3>1, MembersStored
    <2>4. Bit(Added(x)) = Bit(o = x) /\ Bit(Owed(x)) = 0 /\ Bit(Added(x)') = 0
              /\ Bit(Owed(x)') = Bit(v = x)
      BY <1>1 DEF Bit
    <2>5. Cardinality(Held(x)) \in Nat /\ Bit(o = x) \in Nat /\ Bit(v = x) \in Nat
      BY HeldFinite DEF Bit
    <2>6. ref'[x] = Cardinality(Held(x)) + Cardinality(Members(x)') + Bit(Added(x)')
              + Bit(Owed(x)')
      BY <2>2, <2>3, <2>4, <2>5
    <2> QED
      BY <2>1, <2>6
  <1>11. TodoSound'
    BY <1>1, <1>6 DEF TodoSound, Sound
  <1>12. ASSUME LostSound PROVE LostSound'
    BY <1>2, <1>4, <1>12 DEF LostSound
  <1>13. ASSUME CountSound, LostSound, Cand = gcObjects PROVE CountSound'
    <2>1. PICK rv \in [Cand \ pass.left -> Instances \cup {Null}] : ReadSound(rv)
      BY <1>13 DEF CountSound
    <2>2. /\ \A q \in Cand \ pass.left : ~Overwritten(rv, q)
          /\ \A q \in Cand \ pass.left : member[q] # Null /\ member[q] # rv[q] => InLocal(q)
      BY <2>1, NothingOverwritten
    <2>3. \A q \in Cand \ pass.left : q # p => ~Overwritten(rv, q)'
      BY <1>1, <1>4, <1>13, <2>2 DEF Overwritten
    <2>4. p \in Cand \ pass.left /\ Overwritten(rv, p)' => rv[p] = v /\ v # Null
      BY <2>2 DEF Overwritten
    <2>5. p \notin pass.lost
      BY <1>13 DEF LostSound, InLocal
    <2>6. \A q \in Cand \ pass.left : member'[q] # Null /\ member'[q] # rv[q] => InLocal(q)
      BY <1>1, <1>4, <1>13, <2>2
    <2>7. /\ \A x \in Cand :
             pass.counts[x] = ref[x] - Cardinality({q \in Cand \ pass.left : rv[q] = x})
          /\ \A q \in Cand \ pass.left : q \in pass.lost => rv[q] = member[q]
      BY <2>1 DEF ReadSound
    <2>8. \A q \in Cand \ pass.left : q \in pass.lost => rv[q] = member'[q]
      BY <1>1, <1>4, <1>13, <2>5, <2>7
    <2>9. ReadSound(rv)'
      BY <1>2, <1>5, <2>3, <2>4, <2>6, <2>7, <2>8 DEF ReadSound
    <2> QED
      BY <1>2, <1>13, <2>1, <2>9 DEF CountSound
  <1>14. ASSUME NEW T, TraceSound(T), T \subseteq Instances PROVE TraceSound(T)'
    <2>0. p \in T
      BY <1>1, <1>14 DEF TraceSound, InLocal
    <2>1. \A x \in T : x = v => Owed(x)'
      BY <1>1, <1>14
    <2>2. o # Null => o \in T
      BY <1>14 DEF TraceSound
    <2>3. ASSUME NEW x \in T
          PROVE  (InLocal(x) \/ Owed(x)
                     \/ \E q \in Instances : member[q] = x /\ (q \in T \/ q \notin Cand))'
      <3>1. CASE InLocal(x)
        BY <1>5, <3>1
      <3>2. CASE x = o
        BY <1>4, <2>0, <3>2
      <3>3. CASE x = v
        BY <2>1, <3>3
      <3>4. CASE x # v /\ \E q \in Instances : member[q] = x /\ (q \in T \/ q \notin Cand)
        <4>1. PICK q \in Instances : member[q] = x /\ (q \in T \/ q \notin Cand)
          BY <3>4
        <4>2. member'[q] = x
          BY <1>4, <3>4, <4>1
        <4> QED
          BY <1>2, <4>1, <4>2
      <3> QED
        BY <1>14, <3>1, <3>2, <3>3, <3>4 DEF TraceSound
    <2>4. \A q \in Instances : (q \in pass.live \/ q \notin Cand) => member'[q] \in T \cup {Null}
      BY <1>4, <1>14, <2>2 DEF TraceSound
    <2> QED
      BY <1>2, <1>14, <2>3, <2>4 DEF TraceSound
  <1>15. PassSound'
    <2>1. TraceSound(Traced) /\ Cand = gcObjects => TraceSound(Traced)'
      <3>1. TraceSound(Traced) => Traced \subseteq Cand
        BY DEF TraceSound
      <3> QED
        BY <1>1, <1>2, <1>14, <3>1
    <2>2. TraceSound(pass.live) /\ Cand = gcObjects => TraceSound(pass.live)'
      <3>1. TraceSound(pass.live) => pass.live \subseteq Cand
        BY DEF TraceSound
      <3> QED
        BY <1>1, <1>14, <3>1
    <2> QED
      BY <1>1, <1>2, <1>12, <1>13, <2>1, <2>2 DEF PassSound
  <1> QED
    BY <1>2, <1>3, <1>9, <1>10, <1>11, <1>15 DEF GCInv

\* The pointer of a handle is assigned, without a lock.
LEMMA StoreKeeps == ASSUME GCInv, G!Store PROVE GCInv'
  <1>1. PICK h \in G!Handles, o \in Instances \cup {Null} :
             /\ Head(todo).h = h /\ Head(todo).o = o /\ G!Value(h) # o /\ (o # Null => Sound(o))
             /\ \A v : todo # <<Dec(v)>>
             /\ todo' = IF G!Value(h) = Null THEN <<>> ELSE <<Dec(G!Value(h))>>
             /\ Named("inc") = {} /\ Named("delete") = {} /\ \A x : (Added(x) <=> x = o)
                    /\ ~Owed(x)
             /\ \A x : ~Added(x)' /\ (Owed(x)' <=> x = G!Value(h) /\ G!Value(h) # Null)
             /\ \A i \in DOMAIN todo' : todo'[i].o = G!Value(h) /\ G!Value(h) # Null
             /\ LostSound => o \notin pass.lost
    BY StoreIs
  <1>2. /\ UNCHANGED <<heap, ref, gcObjects, lock, collecting, at, pass, G!runVars, gcCrashed>>
        /\ IF h[1] = "local" THEN local' = [local EXCEPT ![h[2]] = o] /\ UNCHANGED member
           ELSE member' = [member EXCEPT ![h[2]] = o] /\ UNCHANGED local
    BY <1>1 DEF G!Store
  <1>3. LostSound => G!Value(h) \notin pass.lost
    BY ValueNotLost
  <1>4. CASE \E l \in Locals : h = <<"local", l>> /\ G!Value(h) = local[l]
    <2>1. PICK l \in Locals : h = <<"local", l>> /\ G!Value(h) = local[l]
      BY <1>4
    <2>2. PICK v : v = G!Value(h)
      OBVIOUS
    <2>3. local' = [local EXCEPT ![l] = o] /\ UNCHANGED member
      BY <1>2, <2>1
    <2> QED
      BY <1>1, <1>2, <2>1, <2>2, <2>3, StoreLocal
  <1>5. CASE \E p \in Instances : h = <<"member", p>> /\ InLocal(p) /\ Sound(p)
                 /\ G!Value(h) = member[p]
    <2>1. PICK p \in Instances : h = <<"member", p>> /\ InLocal(p) /\ Sound(p)
              /\ G!Value(h) = member[p]
      BY <1>5
    <2>2. PICK v : v = G!Value(h)
      OBVIOUS
    <2>3. member' = [member EXCEPT ![p] = o] /\ UNCHANGED local
      BY <1>2, <2>1
    <2> QED
      BY <1>1, <1>2, <1>3, <2>1, <2>2, <2>3, StoreMember
  <1> QED
    BY <1>4, <1>5, HandleIs

\* The program deletes an instance that nobody refers to.
LEMMA DeleteKeeps == ASSUME GCInv, G!Delete PROVE GCInv'
  <1>1. /\ todo # <<>> /\ Head(todo).op = "delete"
        /\ UNCHANGED <<ref, local, gcObjects, lock, collecting, at, pass, G!runVars, gcCrashed>>
    BY DEF G!Delete, G!Does
  <1>2. PICK v \in Instances : todo = <<Del(v)>> /\ Sound(v) /\ ref[v] = 0
    BY <1>1, TodoIs
  <1>3. Head(todo) = Del(v) /\ Tail(todo) = <<>>
    BY <1>2
  <1>4. Head(todo).o = v
    BY <1>3 DEF Del, G!Step
  <1>5. PICK m : m = member[v]
    OBVIOUS
  <1>6. /\ heap' = [heap EXCEPT ![v] = "dead"] /\ member' = [member EXCEPT ![v] = Null]
        /\ todo' = G!If(m # Null, G!Step("dec", G!NoHandle, m)) \o Tail(todo)
    BY <1>4, <1>5 DEF G!Delete
  <1>7. /\ local \in [Locals -> Instances \cup {Null}] /\ Null \notin Instances
        /\ gcObjects \subseteq Instances
        /\ member \in [Instances -> Instances \cup {Null}] /\ HeapSound /\ PassSound
        /\ heap \in [Instances -> {"none", "live", "dead"}] /\ m \in Instances \cup {Null}
    BY <1>5, HeapTypes DEF GCInv
  <1>8. todo' = IF m = Null THEN <<>> ELSE <<Dec(m)>>
    <2>1. <<Dec(m)>> \o <<>> = <<Dec(m)>> /\ <<>> \o <<>> = <<>>
      <3>1. <<Dec(m)>> \in Seq({Dec(m)})
        OBVIOUS
      <3> QED
        BY <3>1, ConcatEmptySeq
    <2> QED
      BY <1>3, <1>6, <2>1 DEF G!If, Dec
  <1>9. /\ Named("inc") = {} /\ Named("delete") = {v} /\ (\A x : ~Owed(x) /\ ~Added(x))
               /\ \A w : todo # <<Dec(w)>>
        /\ \E i \in DOMAIN todo : todo[i].o = v
    <2>1. \A w : todo # <<Dec(w)>>
      BY <1>2, StepsDiffer
    <2>2. NamedIn(todo, "delete") = {v}
      BY <1>2, DelNames
    <2>3. \E i \in DOMAIN todo : todo[i].o = v
      BY <2>2 DEF NamedIn
    <2> QED
      BY <1>2, <2>1, <2>3, DelNames DEF Named, Owed, Added
  <1>10. /\ \A x : ~Added(x)' /\ (Owed(x)' <=> x = m /\ m # Null)
         /\ \A i \in DOMAIN todo' : todo'[i].o = m /\ m # Null
    <2>1. CASE m = Null
      BY <1>8, <2>1, NothingNamed DEF Added, Owed
    <2>2. CASE m # Null
      BY <1>8, <2>2, DecNames DEF Added, Owed
    <2> QED
      BY <2>1, <2>2
  <1>11. /\ OneHolds' /\ Phase' = Phase /\ Doomed' = Doomed /\ Cand' = Cand /\ Traced' = Traced
    BY <1>1, ProgramAside DEF Traced
  <1>12. G!TypeOK'
    BY <1>1, <1>6, <1>7, ProgramAside DEF G!TypeOK, GCInv
  <1>13. /\ v \notin gcObjects /\ (\A l \in Locals : local[l] # v)
                /\ (\A q \in Instances : member[q] # v)
    <2>1. v \notin gcObjects
      BY <1>2, <1>7 DEF HeapSound
    <2> QED
      BY <1>2, <2>1, Referenced DEF InLocal
  <1>14. \A x \in Instances : Sound(x)' <=> Sound(x) /\ x # v
    BY <1>6, <1>7, <1>11 DEF Sound
  <1>15. member'[v] = Null /\ \A k \in Instances : k # v => member'[k] = member[k]
    BY <1>6, <1>7
  <1>16. HeapSound'
    <2>1. \A l \in Locals : (local[l] # Null => Sound(local[l]))'
      BY <1>1, <1>7, <1>13, <1>14 DEF HeapSound
    <2>2. \A k \in Instances : (member[k] # Null => Sound(k) /\ Sound(member[k]))'
      BY <1>7, <1>13, <1>14, <1>15 DEF HeapSound
    <2>3. \A x \in Instances : Sound(x)' => ref[x] # 0
      BY <1>7, <1>9, <1>14 DEF HeapSound
    <2>4. \A x \in Instances : heap'[x] = "none" => heap[x] = "none"
      BY <1>6, <1>7
    <2>5. \A x \in gcObjects : heap'[x] = "live"
      BY <1>6, <1>7, <1>13 DEF HeapSound
    <2> QED
      BY <1>1, <1>7, <1>11, <1>14, <2>1, <2>2, <2>3, <2>4, <2>5 DEF HeapSound
  <1>17. Counted'
    <2> SUFFICES ASSUME NEW x \in Instances, Sound(x)'
                 PROVE  (ref[x] = Cardinality(Held(x)) + Cardinality(Members(x)) + Bit(Added(x))
                            + Bit(Owed(x)))'
      BY DEF Counted
    <2>1. Held(x)' = Held(x)
      BY <1>1 DEF Held
    <2>2. ref[x] = Cardinality(Held(x)) + Cardinality(Members(x)) + Bit(Added(x)) + Bit(Owed(x))
      BY <1>14 DEF Counted, GCInv
    <2>3. /\ Cardinality(Members(x)') = Cardinality(Members(x)) - Bit(m = x) + Bit(Null = x)
          /\ Cardinality(Members(x)) \in Nat /\ Cardinality(Members(x)') \in Nat
      <3>1. MemberBecomes(v, Null)
        BY <1>6, <1>7 DEF MemberBecomes
      <3> QED
        BY <1>5, <3>1, MembersStored
    <2>4. Bit(Added(x)) = 0 /\ Bit(Null = x) = 0 /\ Bit(Owed(x)) = 0 /\ Bit(Added(x)') = 0
              /\ Bit(Owed(x)') = Bit(m = x)
      BY <1>7, <1>9, <1>10 DEF Bit
    <2>5. Cardinality(Held(x)) \in Nat /\ Bit(m = x) \in Nat
      BY HeldFinite DEF Bit
    <2>6. ref[x] = Cardinality(Held(x)) + Cardinality(Members(x)') + Bit(Added(x)')
              + Bit(Owed(x)')
      BY <2>2, <2>3, <2>4, <2>5
    <2> QED
      BY <1>1, <2>1, <2>6
  <1>18. TodoSound'
    <2>1. m # Null => m \in Instances /\ Sound(m)'
      BY <1>5, <1>7, <1>13, <1>14 DEF HeapSound
    <2>2. m # Null => heap'[m] # "none"
      BY <2>1 DEF Sound
    <2> QED
      BY <1>8, <2>1, <2>2 DEF TodoSound
  <1>19. ASSUME LostSound, Cand = gcObjects PROVE LostSound'
    <2>1. v \notin pass.lost
      BY <1>9, <1>19 DEF LostSound
    <2>2. m \notin pass.lost
      BY <1>5, <1>19, <2>1 DEF LostSound
    <2>3. \A q \in Instances : \A x : member'[q] = x /\ x # Null => member[q] = x
      BY <1>15
    <2>4. Null \notin pass.lost
      BY <1>7, <1>19 DEF LostSound
    <2> QED
      BY <1>1, <1>10, <1>11, <1>19, <2>2, <2>3, <2>4 DEF LostSound
  <1>20. ASSUME CountSound, Cand = gcObjects PROVE CountSound'
    <2>1. PICK rv \in [Cand \ pass.left -> Instances \cup {Null}] : ReadSound(rv)
      BY <1>20 DEF CountSound
    <2>2. /\ \A q \in Cand \ pass.left : ~Overwritten(rv, q)
          /\ \A q \in Cand \ pass.left : member[q] # Null /\ member[q] # rv[q] => InLocal(q)
      BY <1>9, <2>1, NothingOverwritten
    <2>3. \A q \in Cand : member'[q] = member[q]
      BY <1>7, <1>13, <1>15, <1>20
    <2>4. \A q \in Cand \ pass.left : ~Overwritten(rv, q)'
      BY <2>2, <2>3 DEF Overwritten
    <2>5. \A q : InLocal(q)' <=> InLocal(q)
      BY <1>1 DEF InLocal
    <2>6. \A q \in Cand \ pass.left : member'[q] # Null /\ member'[q] # rv[q] => InLocal(q)
      BY <2>2, <2>3
    <2>7. /\ \A x \in Cand :
             pass.counts[x] = ref[x] - Cardinality({q \in Cand \ pass.left : rv[q] = x})
          /\ \A q \in Cand \ pass.left : q \in pass.lost => rv[q] = member'[q]
      BY <2>1, <2>3 DEF ReadSound
    <2>9. ReadSound(rv)'
      BY <1>1, <1>11, <2>4, <2>5, <2>6, <2>7 DEF ReadSound
    <2> QED
      BY <1>1, <1>11, <1>20, <2>1, <2>9 DEF CountSound
  <1>21. ASSUME NEW T, TraceSound(T), T \subseteq Instances PROVE TraceSound(T)'
    <2>1. \A x \in T : x = m => Owed(x)'
      BY <1>7, <1>10, <1>21
    <2>2. \A x : InLocal(x)' <=> InLocal(x)
      BY <1>1 DEF InLocal
    <2>3. ASSUME NEW x \in T
          PROVE  (InLocal(x) \/ Owed(x)
                     \/ \E q \in Instances : member[q] = x /\ (q \in T \/ q \notin Cand))'
      <3>1. CASE InLocal(x)
        BY <2>2, <3>1
      <3>3. CASE x = m
        BY <2>1, <3>3
      <3>4. CASE x # m /\ \E q \in Instances : member[q] = x /\ (q \in T \/ q \notin Cand)
        <4>1. PICK q \in Instances : member[q] = x /\ (q \in T \/ q \notin Cand)
          BY <3>4
        <4>2. member'[q] = x
          BY <1>5, <1>15, <3>4, <4>1
        <4> QED
          BY <1>11, <4>1, <4>2
      <3> QED
        BY <1>9, <1>21, <3>1, <3>3, <3>4 DEF TraceSound
    <2>4. \A q \in Instances : (q \in pass.live \/ q \notin Cand) => member'[q] \in T \cup {Null}
      BY <1>15, <1>21 DEF TraceSound
    <2> QED
      BY <1>1, <1>10, <1>11, <1>21, <2>3, <2>4 DEF TraceSound
  <1>22. PassSound'
    <2>1. TraceSound(Traced) /\ Cand = gcObjects => TraceSound(Traced)'
      <3>1. TraceSound(Traced) => Traced \subseteq Cand
        BY DEF TraceSound
      <3> QED
        BY <1>7, <1>11, <1>21, <3>1
    <2>2. TraceSound(pass.live) /\ Cand = gcObjects => TraceSound(pass.live)'
      <3>1. TraceSound(pass.live) => pass.live \subseteq Cand
        BY DEF TraceSound
      <3> QED
        BY <1>1, <1>7, <1>21, <3>1
    <2> QED
      BY <1>1, <1>7, <1>11, <1>19, <1>20, <2>1, <2>2 DEF PassSound
  <1> QED
    BY <1>11, <1>12, <1>16, <1>17, <1>18, <1>22 DEF GCInv

\* Who holds the mutex tells where the collection is.
LEMMA PhaseIs ==
    ASSUME GCInv, NEW c \in G!Callers, at[c] \in Holding
    PROVE  lock = c /\ Phase = at[c] /\ c # G!Nobody
  <1>1. G!Nobody \notin G!Callers
    BY CollectorAssumption DEF G!Nobody, G!Callers
  <1> QED
    BY <1>1 DEF GCInv, OneHolds, Phase

\* A caller that holds the mutex goes on.
LEMMA HolderMoves ==
    ASSUME GCInv, NEW c \in G!Callers, at[c] \in Holding, at[c] \in Busy, NEW p \in Holding,
               G!Goes(c, p),
           UNCHANGED <<lock, gcState, gcThread, destroyer>>,
           collecting' = collecting \/ p \notin Busy
    PROVE  /\ OneHolds' /\ Phase' = p
           /\ at' \in [G!Callers -> {"idle", "call", "lock", "count", "trace", "clear", "delete", "flag",
                           "unlock"}]
  <1>1. /\ at \in [G!Callers -> {"idle", "call", "lock", "count", "trace", "clear", "delete", "flag", "unlock"}]
        /\ OneHolds
    BY DEF GCInv, G!TypeOK
  <1>2. /\ at'[c] = p /\ \A d \in G!Callers : d # c => at'[d] = at[d]
        /\ at' \in [G!Callers -> {"idle", "call", "lock", "count", "trace", "clear", "delete", "flag", "unlock"}]
    BY <1>1 DEF G!Goes, Holding
  <1>3. lock = c /\ c # G!Nobody
    BY PhaseIs
  <1>4. Phase' = p
    BY <1>2, <1>3 DEF Phase
  <1>5. \A d \in G!Callers : lock' = d <=> at'[d] \in Holding
    BY <1>1, <1>2, <1>3 DEF OneHolds
  <1>6. \A d \in G!Callers : at'[d] \in Busy => at[d] \in Busy
    BY <1>2
  <1>7. \A d, e \in G!Callers : at'[d] \in Busy /\ at'[e] \in Busy => d = e
    BY <1>1, <1>6 DEF OneHolds
  <1>8. \A d \in G!Callers : at'[d] \in Busy => collecting'
    <2>1. CASE p \in Busy
      BY <1>1, <1>6, <2>1 DEF OneHolds
    <2>2. CASE p \notin Busy
      <3>1. \A d \in G!Callers : at'[d] \notin Busy
        BY <1>1, <1>2, <1>6, <2>2 DEF OneHolds
      <3> QED
        BY <3>1
    <2> QED
      BY <2>1, <2>2
  <1>9. "idle" \notin Holding
    BY DEF Holding
  <1>10. /\ gcThread' # "collect" => at'["thread"] = "idle"
         /\ destroyer' # "collect" => at'["destroy"] = "idle"
    <2>1. "thread" \in G!Callers /\ "destroy" \in G!Callers
      BY DEF G!Callers
    <2> QED
      BY <1>1, <1>2, <1>9, <2>1 DEF OneHolds
  <1> QED
    BY <1>2, <1>4, <1>5, <1>7, <1>8, <1>10 DEF OneHolds

\* collectGarbage() is entered, or somebody else is at work.
LEMMA EnterKeeps == ASSUME GCInv, NEW c \in G!Callers, G!Enter(c) PROVE GCInv'
  <1>0. PICK p \in {"idle", "lock"} : p = IF collecting THEN "idle" ELSE "lock"
    OBVIOUS
  <1>1. /\ at[c] = "call" /\ G!Goes(c, p) /\ collecting' = TRUE
        /\ UNCHANGED <<G!heapVars, lock, pass, todo, gcState, gcThread, destroyer, gcCrashed>>
    BY <1>0 DEF G!Enter, G!Quiet, G!runVars
  <1>2. /\ at \in [G!Callers -> {"idle", "call", "lock", "count", "trace", "clear", "delete", "flag", "unlock"}]
        /\ OneHolds /\ lock \in G!Callers \cup {G!Nobody} /\ G!Nobody \notin G!Callers
    BY CollectorAssumption DEF GCInv, G!TypeOK, G!Nobody, G!Callers
  <1>3. /\ at'[c] = p /\ \A d \in G!Callers : d # c => at'[d] = at[d]
        /\ at' \in [G!Callers -> {"idle", "call", "lock", "count", "trace", "clear", "delete", "flag", "unlock"}]
    BY <1>1, <1>2 DEF G!Goes
  <1>4. lock # c /\ p \notin Holding
    BY <1>1, <1>2 DEF OneHolds, Holding
  <1>5. Phase' = Phase
    BY <1>1, <1>2, <1>3, <1>4 DEF Phase
  <1>6. Doomed' = Doomed
    BY <1>1, <1>5 DEF Doomed
  <1>7. OneHolds'
    <2>1. \A d \in G!Callers : lock' = d <=> at'[d] \in Holding
      BY <1>1, <1>2, <1>3, <1>4 DEF OneHolds
    <2>2. p \in Busy => \A d \in G!Callers : at[d] \notin Busy
      BY <1>0, <1>2 DEF OneHolds, Busy
    <2>3. \A d, e \in G!Callers : at'[d] \in Busy /\ at'[e] \in Busy => d = e
      BY <1>2, <1>3, <2>2 DEF OneHolds
    <2>4. "thread" \in G!Callers /\ "destroy" \in G!Callers
      BY DEF G!Callers
    <2>5. /\ gcThread' # "collect" => at'["thread"] = "idle"
          /\ destroyer' # "collect" => at'["destroy"] = "idle"
      BY <1>1, <1>2, <1>3, <2>4 DEF OneHolds
    <2> QED
      BY <1>1, <2>1, <2>3, <2>5 DEF OneHolds
  <1>8. G!TypeOK'
    BY <1>1, <1>3 DEF G!TypeOK, GCInv, G!heapVars
  <1> QED
    BY <1>1, <1>5, <1>6, <1>7, <1>8, SameHeap, SamePass DEF GCInv

\* What a set reaches.
LEMMA Reaches ==
    ASSUME NEW X
    PROVE  /\ \A o \in Instances : o \in X => o \in G!ReachableFrom(X)
           /\ \A q, o \in Instances : q \in G!ReachableFrom(X) /\ member[q] = o /\ o # Null =>
                  o \in G!ReachableFrom(X)
  BY DEF G!ReachableFrom, G!Closed

\* Every step that is to do names an instance that is alive, or one to discount.
LEMMA AllSteps ==
    ASSUME GCInv, NEW i \in DOMAIN todo
    PROVE  todo[i].op \in {"inc", "store", "dec", "delete"}
  <1>1. TodoSound
    BY DEF GCInv
  <1>2. Planned(todo)
    BY <1>1 DEF TodoSound, Planned
  <1> QED
    BY <1>2, PlanSteps

\* Garbage is a candidate, and only garbage refers to it.
LEMMA GarbageIs ==
    ASSUME GCInv, Doomed = {}
    PROVE  /\ G!Garbage \subseteq gcObjects
           /\ \A o \in G!Garbage :
                 /\ \A l \in Locals : local[l] # o
                 /\ \A i \in DOMAIN todo : todo[i].o # o
                 /\ \A q \in Instances : member[q] = o => q \in G!Garbage
  <1> SUFFICES ASSUME NEW o \in G!Garbage
               PROVE  /\ o \in gcObjects
                      /\ \A l \in Locals : local[l] # o
                      /\ \A i \in DOMAIN todo : todo[i].o # o
                      /\ \A q \in Instances : member[q] = o => q \in G!Garbage
    OBVIOUS
  <1>1. /\ o \in Instances /\ heap[o] = "live" /\ o \notin G!Reachable
        /\ o \notin G!ReachableFrom(G!Dropped)
        /\ Null \notin Instances /\ HeapSound
    BY HeapTypes DEF G!Garbage, GCInv
  <1>2. \A l \in Locals : local[l] # o
    BY <1>1, Reaches DEF G!Reachable
  <1>3. \A i \in DOMAIN todo : todo[i].o # o
    <2>1. ASSUME NEW i \in DOMAIN todo, todo[i].o = o PROVE FALSE
      <3>1. CASE todo[i].op \in {"inc", "store"}
        <4>1. o \in G!Assigned
          BY <2>1, <3>1 DEF G!Assigned
        <4> QED
          BY <1>1, <4>1, Reaches DEF G!Reachable
      <3>2. CASE todo[i].op \in {"dec", "delete"}
        <4>1. o \in G!Dropped
          BY <2>1, <3>2 DEF G!Dropped
        <4> QED
          BY <1>1, <4>1, Reaches
      <3> QED
        BY <3>1, <3>2, AllSteps
    <2> QED
      BY <2>1
  <1>4. o \in gcObjects
    <2>1. Sound(o)
      BY <1>1 DEF Sound
    <2>2. o \notin Named("inc") /\ o \notin Named("delete")
      BY <1>3 DEF Named, NamedIn
    <2>3. ref[o] \in Nat
      BY <1>1, HeapTypes
    <2> QED
      BY <1>1, <2>1, <2>2, <2>3 DEF HeapSound
  <1>5. ASSUME NEW q \in Instances, member[q] = o PROVE q \in G!Garbage
    <2>1. heap[q] = "live"
      BY <1>1, <1>5 DEF HeapSound, Sound
    <2>2. o # Null
      BY <1>1
    <2> QED
      BY <1>1, <1>5, <2>1, <2>2, Reaches DEF G!Garbage, G!Reachable
  <1> QED
    BY <1>2, <1>3, <1>4, <1>5

\* A collection begins: candidates and their counts are copied, and nothing has been read.
LEMMA LockKeeps == ASSUME GCInv, NEW c \in G!Callers, G!Lock(c) PROVE GCInv'
  <1>1. /\ at[c] = "lock" /\ lock = G!Nobody /\ lock' = c /\ G!Goes(c, "count")
        /\ pass' = [left |-> gcObjects, counts |-> [o \in gcObjects |-> ref[o]], live |-> {},
               lost |-> G!Garbage]
        /\ UNCHANGED <<G!heapVars, collecting, todo, gcState, gcThread, destroyer, gcCrashed>>
    BY DEF G!Lock, G!Quiet, G!runVars
  <1>2. /\ at \in [G!Callers -> {"idle", "call", "lock", "count", "trace", "clear", "delete", "flag", "unlock"}]
        /\ OneHolds /\ G!Nobody \notin G!Callers
    BY CollectorAssumption DEF GCInv, G!TypeOK, G!Nobody, G!Callers
  <1>3. /\ at'[c] = "count" /\ \A d \in G!Callers : d # c => at'[d] = at[d]
        /\ at' \in [G!Callers -> {"idle", "call", "lock", "count", "trace", "clear", "delete", "flag", "unlock"}]
    BY <1>1, <1>2 DEF G!Goes
  <1>4. OneHolds'
    <2>1. \A d \in G!Callers : at[d] \notin Holding
      BY <1>1, <1>2 DEF OneHolds
    <2>2. "count" \in Holding /\ "count" \in Busy /\ "lock" \in Busy
      BY DEF Holding, Busy
    <2>3. \A d \in G!Callers : lock' = d <=> at'[d] \in Holding
      BY <1>1, <1>3, <2>1, <2>2
    <2>4. \A d \in G!Callers : at'[d] \in Busy => at[d] \in Busy
      BY <1>1, <1>3, <2>2
    <2>5. "thread" \in G!Callers /\ "destroy" \in G!Callers
      BY DEF G!Callers
    <2>6. /\ gcThread' # "collect" => at'["thread"] = "idle"
          /\ destroyer' # "collect" => at'["destroy"] = "idle"
      BY <1>1, <1>2, <1>3, <2>5 DEF OneHolds
    <2> QED
      BY <1>1, <1>2, <2>3, <2>4, <2>6 DEF OneHolds
  <1>5. Phase' = "count" /\ Doomed' = {} /\ Doomed = {}
    BY <1>1, <1>2, <1>3 DEF Phase, Doomed
  <1>6. G!TypeOK'
    BY <1>1, <1>3 DEF G!TypeOK, GCInv, G!heapVars
  <1>7. HeapSound' /\ Counted' /\ TodoSound'
    BY <1>1, <1>5, SameHeap
  <1>8. UNCHANGED <<ref, member, local, gcObjects, todo>> /\ ref \in [Instances -> Nat]
            /\ gcObjects \subseteq Instances
    BY <1>1, HeapTypes DEF G!heapVars
  <1>9. Cand' = gcObjects /\ pass.left' = gcObjects /\ pass.live' = {} /\ pass.lost' = G!Garbage
        /\ \A o \in gcObjects : pass.counts'[o] = ref[o]
    BY <1>1 DEF Cand
  <1>10. LostSound'
    <2>1. /\ G!Garbage \subseteq gcObjects
          /\ \A o \in G!Garbage :
                 /\ \A l \in Locals : local[l] # o
                 /\ \A i \in DOMAIN todo : todo[i].o # o
                 /\ \A q \in Instances : member[q] = o => q \in G!Garbage
      BY <1>5, GarbageIs
    <2> QED
      BY <1>8, <1>9, <2>1 DEF LostSound
  <1>11. CountSound'
    <2>1. PICK rv : rv = [q \in {} |-> Null]
      OBVIOUS
    <2>2. Cand' \ pass.left' = {}
      BY <1>9
    <2>3. rv \in [Cand' \ pass.left' -> Instances \cup {Null}]
      BY <2>1, <2>2
    <2>4. \A o : {q \in Cand' \ pass.left' : rv[q] = o} = {}
      BY <2>2
    <2>5. Cardinality({}) = 0
      BY FS_EmptySet
    <2>6. \A o \in Cand' : pass.counts'[o] = ref'[o] - Cardinality({q \in Cand' \ pass.left' : rv[q] = o})
      <3> SUFFICES ASSUME NEW o \in Cand'
                   PROVE  pass.counts'[o] = ref'[o] - Cardinality({q \in Cand' \ pass.left' : rv[q] = o})
        OBVIOUS
      <3>1. ref[o] \in Nat /\ pass.counts'[o] = ref[o] /\ ref'[o] = ref[o]
        BY <1>8, <1>9
      <3>2. Cardinality({q \in Cand' \ pass.left' : rv[q] = o}) = 0
        BY <2>4, <2>5
      <3> QED
        BY ONLY <3>1, <3>2
    <2>7. ReadSound(rv)'
      BY <2>2, <2>6 DEF ReadSound
    <2> QED
      BY <1>9, <2>3, <2>7 DEF CountSound
  <1>12. pass.counts' \in [gcObjects -> Int]
    BY <1>1, <1>8
  <1>13. PassSound'
    BY <1>1, <1>5, <1>8, <1>9, <1>10, <1>11, <1>12 DEF PassSound
  <1> QED
    BY <1>4, <1>6, <1>7, <1>13 DEF GCInv

\* Candidates are finitely many.
LEMMA CandidatesFinite ==
    ASSUME GCInv, Cand = gcObjects, NEW X, X \subseteq Cand
    PROVE  IsFiniteSet(X) /\ Cardinality(X) \in Nat /\ X \subseteq Instances
  <1>1. X \subseteq Instances
    BY HeapTypes
  <1>2. IsFiniteSet(X)
    BY <1>1, CollectorAssumption, FS_Subset
  <1> QED
    BY <1>1, <1>2, FS_CardinalityType

\* One more handle is read.
ReadMore(C, o, rv, rw, m, x, A, Y) ==
    /\ IsFiniteSet(C) /\ o \notin C /\ (\A q \in C : rw[q] = rv[q]) /\ rw[o] = m
    /\ A \subseteq C /\ \A q \in C : q \in A <=> rv[q] = x
    /\ Y \subseteq C \cup {o} /\ \A q \in C \cup {o} : q \in Y <=> rw[q] = x

\* How many candidates were read with a given member when one more is read.
LEMMA OneMoreRead ==
    ASSUME NEW C, NEW o, NEW rv, NEW rw, NEW m, NEW x, NEW A, NEW Y,
               ReadMore(C, o, rv, rw, m, x, A, Y)
    PROVE  Cardinality(Y) = Cardinality(A) + (IF x = m THEN 1 ELSE 0) /\ Cardinality(A) \in Nat
  <1> USE DEF ReadMore
  <1>1. IsFiniteSet(A) /\ Cardinality(A) \in Nat
    BY FS_Subset, FS_CardinalityType
  <1>2. CASE x = m
    <2>1. Y = A \cup {o} /\ o \notin A
      BY <1>2
    <2> QED
      BY <1>1, <1>2, <2>1, FS_AddElement
  <1>3. CASE x # m
    <2>1. Y = A
      BY <1>3
    <2> QED
      BY <1>1, <1>3, <2>1
  <1> QED
    BY <1>1, <1>2, <1>3

\* The member of a candidate is read.
LEMMA CountHandlesKeeps == ASSUME GCInv, NEW c \in G!Callers, G!CountHandles(c) PROVE GCInv'
  <1>1. /\ at[c] = "count"
        /\ UNCHANGED <<G!heapVars, lock, collecting, at, todo, gcState, gcThread, destroyer,
               gcCrashed>>
    BY DEF G!CountHandles, G!Quiet, G!runVars
  <1>2. PICK o \in pass.left :
            pass' = [pass EXCEPT !.left = @ \ {o},
                       !.counts = [p \in DOMAIN @ |-> IF p = member[o] THEN @[p] - 1 ELSE @[p]]]
    BY DEF G!CountHandles
  <1>3. UNCHANGED <<ref, member, local, gcObjects, todo>> /\ ref \in [Instances -> Nat]
            /\ gcObjects \subseteq Instances
        /\ member \in [Instances -> Instances \cup {Null}]
    BY <1>1, HeapTypes DEF G!heapVars
  <1>4. Phase = "count" /\ Phase' = "count" /\ Doomed = {} /\ Doomed' = {}
    <2>1. Phase = "count"
      BY <1>1, PhaseIs DEF Holding
    <2> QED
      BY <1>1, <2>1 DEF Phase, Doomed
  <1>5. OneHolds' /\ G!TypeOK'
    BY <1>1 DEF GCInv, OneHolds, G!TypeOK, G!heapVars
  <1>6. HeapSound' /\ Counted' /\ TodoSound'
    BY <1>1, <1>4, SameHeap
  <1>7. /\ pass = [left |-> pass.left, counts |-> pass.counts, live |-> pass.live,
               lost |-> pass.lost]
        /\ Cand = gcObjects /\ pass.counts \in [Cand -> Int] /\ LostSound /\ CountSound
    BY <1>4 DEF GCInv, PassSound
  <1>8. PICK W, C, K, Z : W = pass.left /\ C = pass.counts /\ K = pass.live /\ Z = pass.lost
    OBVIOUS
  <1>9. pass = [left |-> W, counts |-> C, live |-> K, lost |-> Z]
    BY <1>7, <1>8
  <1>10. pass' = [left |-> W \ {o},
             counts |-> [p \in DOMAIN C |-> IF p = member[o] THEN C[p] - 1 ELSE C[p]],
                  live |-> K, lost |-> Z]
    BY ONLY <1>2, <1>9
  <1>11. /\ pass.left' = W \ {o} /\ pass.live' = K /\ pass.lost' = Z
         /\ pass.counts' = [p \in Cand |-> IF p = member[o] THEN C[p] - 1 ELSE C[p]]
         /\ Cand' = Cand
         /\ pass' = [left |-> pass.left, counts |-> pass.counts, live |-> pass.live,
                lost |-> pass.lost]'
    BY <1>8, <1>10 DEF Cand
  <1>12. pass.counts' \in [Cand -> Int]
    BY <1>7, <1>8, <1>11
  <1>13. LostSound'
    BY <1>3, <1>7, <1>8, <1>11 DEF LostSound
  <1>14. PICK rv \in [Cand \ W -> Instances \cup {Null}] : ReadSound(rv)
    BY <1>7, <1>8 DEF CountSound
  <1>15. PICK rw : rw = [q \in (Cand \ W) \cup {o} |-> IF q = o THEN member[o] ELSE rv[q]]
    OBVIOUS
  <1>16. /\ o \in Cand /\ o \in Instances /\ W \subseteq Cand /\ K = {}
         /\ Cand' \ pass.left' = (Cand \ W) \cup {o} /\ o \notin Cand \ W
    BY <1>2, <1>3, <1>7, <1>8, <1>11 DEF CountSound
  <1>17. /\ rw \in [(Cand \ W) \cup {o} -> Instances \cup {Null}] /\ rw[o] = member[o]
         /\ \A q \in Cand \ W : rw[q] = rv[q]
    BY <1>3, <1>15, <1>16
  <1>18. \A x \in Cand : pass.counts'[x] = ref[x] - Cardinality({q \in (Cand \ W) \cup {o} : rw[q] = x})
    <2> SUFFICES ASSUME NEW x \in Cand
                 PROVE  pass.counts'[x] = ref[x] - Cardinality({q \in (Cand \ W) \cup {o} : rw[q] = x})
      OBVIOUS
    <2>1. PICK A, Y : A = {q \in Cand \ W : rv[q] = x}
              /\ Y = {q \in (Cand \ W) \cup {o} : rw[q] = x}
      OBVIOUS
    <2>2. C[x] = ref[x] - Cardinality(A) /\ ref[x] \in Nat
      BY <1>3, <1>7, <1>8, <1>14, <2>1 DEF ReadSound
    <2>3. IsFiniteSet(Cand \ W)
      BY <1>7, CandidatesFinite
    <2>4. Cardinality(Y) = Cardinality(A) + (IF x = member[o] THEN 1 ELSE 0)
              /\ Cardinality(A) \in Nat
      <3>1. ReadMore(Cand \ W, o, rv, rw, member[o], x, A, Y)
        BY <1>16, <1>17, <2>1, <2>3 DEF ReadMore
      <3> QED
        BY ONLY <3>1, OneMoreRead
    <2>5. pass.counts'[x] = IF x = member[o] THEN C[x] - 1 ELSE C[x]
      BY <1>11
    <2>6. pass.counts'[x] = ref[x] - Cardinality(Y)
      BY ONLY <2>2, <2>4, <2>5
    <2> QED
      BY <2>1, <2>6
  <1>19. /\ \A q \in Cand \ W : Overwritten(rw, q)' <=> Overwritten(rv, q)
         /\ ~Overwritten(rw, o)'
    BY <1>3, <1>17 DEF Overwritten
  <1>20. \A q : InLocal(q)' <=> InLocal(q)
    BY <1>3 DEF InLocal
  <1>21. ReadSound(rw)'
    <2>1. \A q \in (Cand \ W) \cup {o} : Overwritten(rw, q)' => todo = <<Dec(rw[q])>>
      BY <1>8, <1>14, <1>17, <1>19 DEF ReadSound
    <2>2. \A p, q \in (Cand \ W) \cup {o} : Overwritten(rw, p)' /\ Overwritten(rw, q)' => p = q
      BY <1>8, <1>14, <1>19 DEF ReadSound
    <2>3. \A q \in (Cand \ W) \cup {o} : member[q] # Null /\ member[q] # rw[q] =>
             \/ InLocal(q)
             \/ todo = <<Dec(q)>> /\ \A p \in (Cand \ W) \cup {o} : ~Overwritten(rw, p)'
      <3> SUFFICES ASSUME NEW q \in Cand \ W, member[q] # Null, member[q] # rv[q], ~InLocal(q)
                   PROVE  todo = <<Dec(q)>> /\ \A p \in (Cand \ W) \cup {o} : ~Overwritten(rw, p)'
        BY <1>17
      <3>1. todo = <<Dec(q)>> /\ \A p \in Cand \ W : ~Overwritten(rv, p)
        BY <1>8, <1>14 DEF ReadSound
      <3> QED
        BY <1>19, <3>1
    <2>4. \A q \in (Cand \ W) \cup {o} : q \in Z => rw[q] = member[q]
      BY <1>8, <1>14, <1>17 DEF ReadSound
    <2> QED
      BY <1>3, <1>11, <1>16, <1>18, <1>20, <2>1, <2>2, <2>3, <2>4 DEF ReadSound
  <1>22. CountSound'
    BY <1>11, <1>16, <1>17, <1>21 DEF CountSound
  <1>23. PassSound'
    BY <1>3, <1>4, <1>7, <1>11, <1>12, <1>13, <1>22 DEF PassSound
  <1> QED
    BY <1>5, <1>6, <1>23 DEF GCInv

\* When all handles have been read: what is left of a count.
LEMMA WhatIsLeft ==
    ASSUME GCInv, Phase = "count", pass.left = {},
           NEW rv \in [Cand -> Instances \cup {Null}], ReadSound(rv), NEW o \in Cand
    PROVE  /\ InLocal(o) \/ Added(o) => pass.counts[o] > 0
           /\ (\E q \in Instances : member[q] = o /\ (q \notin Cand \/ rv[q] # o)) =>
                  pass.counts[o] > 0
           /\ Owed(o) /\ (\A p \in Cand : ~Overwritten(rv, p)) => pass.counts[o] > 0
           /\ pass.counts[o] > 0 =>
                \/ InLocal(o) \/ Added(o) \/ Owed(o)
                \/ \E q \in Instances : member[q] = o /\ (q \notin Cand \/ rv[q] # o)
  <1>1. Cand = gcObjects /\ Cand \ pass.left = Cand /\ gcObjects \subseteq Instances
            /\ Null \notin Instances
        /\ ref \in [Instances -> Nat]
    BY HeapTypes DEF GCInv, PassSound
  <1>2. Sound(o) /\ o \in Instances /\ o # Null
    BY <1>1 DEF GCInv, HeapSound, Sound, Doomed
  <1>3. PICK A, M : A = {q \in Cand : rv[q] = o} /\ M = Members(o)
    OBVIOUS
  <1>4. pass.counts[o] = ref[o] - Cardinality(A)
    BY <1>1, <1>3 DEF ReadSound
  <1>5. ref[o] = Cardinality(Held(o)) + Cardinality(M) + Bit(Added(o)) + Bit(Owed(o))
    BY <1>2, <1>3 DEF GCInv, Counted
  <1>6. /\ IsFiniteSet(A) /\ IsFiniteSet(M) /\ Cardinality(Held(o)) \in Nat
        /\ (Cardinality(Held(o)) = 0 <=> ~InLocal(o))
    <2>1. A \subseteq Cand
      BY <1>3
    <2>2. Held(o) = {} <=> ~InLocal(o)
      BY DEF Held, InLocal
    <2> QED
      BY <1>1, <1>3, <2>1, <2>2, CandidatesFinite, HeldFinite
  <1>7. PICK I, E : I = A \cap M /\ E = A \ M
    OBVIOUS
  <1>8. /\ Cardinality(A) = Cardinality(I) + Cardinality(E) /\ Cardinality(I) <= Cardinality(M)
        /\ Cardinality(I) = Cardinality(M) <=> M \subseteq A
        /\ IsFiniteSet(I) /\ IsFiniteSet(E) /\ Cardinality(I) \in Nat /\ Cardinality(E) \in Nat
        /\ Cardinality(M) \in Nat /\ Cardinality(A) \in Nat
    <2>1. /\ IsFiniteSet(I) /\ IsFiniteSet(E) /\ Cardinality(E) = Cardinality(A) - Cardinality(I)
      BY <1>6, <1>7, FS_Difference, FS_Intersection
    <2>2. Cardinality(I) \in Nat /\ Cardinality(E) \in Nat /\ Cardinality(M) \in Nat
              /\ Cardinality(A) \in Nat
      BY <1>6, <2>1, FS_CardinalityType
    <2>3. I \in SUBSET M
      BY <1>7
    <2>4. Cardinality(I) <= Cardinality(M) /\ (Cardinality(M) = Cardinality(I) => M = I)
      BY ONLY <1>6, <2>3, FS_Subset
    <2>5. M \subseteq A => I = M
      BY <1>7
    <2>6. M = I => M \subseteq A
      BY <1>7
    <2> QED
      BY <2>1, <2>2, <2>4, <2>5, <2>6
  <1>9. \A q \in E : q \in Cand /\ Overwritten(rv, q) /\ rv[q] = o
    BY <1>1, <1>2, <1>3, <1>7 DEF Overwritten, Members
  <1>10. \/ E = {} /\ Cardinality(E) = 0
         \/ Cardinality(E) = 1 /\ Owed(o) /\ ~Added(o) /\ \E p \in Cand : Overwritten(rv, p)
    <2>1. CASE E = {}
      BY <2>1, FS_EmptySet
    <2>2. CASE E # {}
      <3>1. PICK p \in E : TRUE
        BY <2>2
      <3>2. E = {p}
        BY <1>1, <1>9, <3>1 DEF ReadSound
      <3>3. todo = <<Dec(o)>>
        BY <1>1, <1>9, <3>1 DEF ReadSound
      <3>4. Owed(o) /\ ~Added(o)
        BY <3>3, DecNames DEF Owed, Added
      <3>5. Cardinality(E) = 1
        BY <3>2, FS_Singleton
      <3> QED
        BY <1>9, <3>1, <3>4, <3>5
    <2> QED
      BY <2>1, <2>2
  <1>11. Bit(Added(o)) \in Nat /\ Bit(Owed(o)) \in Nat /\ (Added(o) <=> Bit(Added(o)) = 1)
         /\ (Owed(o) <=> Bit(Owed(o)) = 1) /\ (~Added(o) <=> Bit(Added(o)) = 0)
                /\ (~Owed(o) <=> Bit(Owed(o)) = 0)
    BY DEF Bit
  <1>12. (\E q \in Instances : member[q] = o /\ (q \notin Cand \/ rv[q] # o)) <=> ~(M \subseteq A)
    BY <1>1, <1>3 DEF Members
  <1>13. PICK n, h, m, i, e, a, b : /\ n = pass.counts[o] /\ h = Cardinality(Held(o)) /\ m = Cardinality(M)
            /\ i = Cardinality(I) /\ e = Cardinality(E) /\ a = Bit(Added(o)) /\ b = Bit(Owed(o))
    OBVIOUS
  <1>18. /\ n = h + m + a + b - (i + e) /\ h \in Nat /\ m \in Nat /\ i \in Nat /\ e \in Nat
         /\ i <= m
         /\ a \in {0, 1} /\ b \in {0, 1} /\ (e = 0 \/ (e = 1 /\ b = 1 /\ a = 0))
    <2>1. a \in {0, 1} /\ b \in {0, 1} /\ (e = 0 \/ (e = 1 /\ b = 1 /\ a = 0))
      BY <1>10, <1>13 DEF Bit
    <2> QED
      BY ONLY <1>4, <1>5, <1>6, <1>8, <1>13, <2>1
  <1>19. /\ (InLocal(o) <=> h # 0) /\ (~(M \subseteq A) <=> i # m) /\ (Added(o) <=> a # 0)
                /\ (Owed(o) <=> b # 0)
    BY <1>6, <1>8, <1>11, <1>13
  <1>20. (\A p \in Cand : ~Overwritten(rv, p)) => e = 0
    BY <1>10, <1>13
  <1>14. h # 0 \/ a # 0 => n > 0
    BY ONLY <1>18
  <1>15. i # m => n > 0
    BY ONLY <1>18
  <1>16. b # 0 /\ e = 0 => n > 0
    BY ONLY <1>18
  <1>17. n > 0 => h # 0 \/ a # 0 \/ b # 0 \/ i # m
    BY ONLY <1>18
  <1> QED
    BY ONLY <1>12, <1>13, <1>14, <1>15, <1>16, <1>17, <1>19, <1>20

\* What is about to be assigned is referred to.
LEMMA AddedIsSound ==
    ASSUME GCInv, NEW o \in Instances, Added(o)
    PROVE  Sound(o) /\ o \in gcObjects /\ \A v : todo # <<Dec(v)>>
  <1>1. todo # <<>> /\ (\A v : todo # <<Dec(v)>>) /\ \A v : todo # <<Del(v)>>
    BY NothingNamed, DecNames, DelNames DEF Added
  <1>2. \A h, x, v : todo # IncPlan(h, x, v)
    BY IncPlanNames DEF Added
  <1>3. PICK h \in G!Handles, x \in Instances \cup {Null} : todo = Plan(h, x, G!Value(h))
            /\ (x # Null => Sound(x))
    BY <1>1, <1>2 DEF TodoSound, GCInv
  <1>4. x = o
    BY <1>3, PlanNames DEF Added
  <1>5. Sound(o)
    BY <1>3, <1>4, HeapTypes
  <1> QED
    BY <1>1, <1>5, Referenced

\* The candidates with counts are live.
Roots == {o \in Cand : pass.counts[o] > 0}

\* Candidates with references from elsewhere are the ones to trace from: what a local
\* refers to is among them, and nothing that was lost when the collection began.
LEMMA RootsSound ==
    ASSUME GCInv, Phase = "count", pass.left = {}
    PROVE  /\ Roots \subseteq Cand /\ Roots \cap pass.lost = {}
           /\ \A l \in Locals : local[l] # Null => local[l] \in Roots
           /\ \A o \in Instances : Added(o) => o \in Roots
           /\ \A q \in Instances : q \notin Cand => member[q] \in Roots \cup {Null}
           /\ \A o \in Roots : \/ InLocal(o) \/ Added(o) \/ Owed(o)
                           \/ \E q \in Instances : member[q] = o /\ (q \in Roots \/ q \notin Cand)
  <1>0. PICK R : R = Roots /\ R = {o \in Cand : pass.counts[o] > 0}
    BY DEF Roots
  <1>1. Cand = gcObjects /\ LostSound /\ CountSound /\ HeapSound
    BY DEF GCInv, PassSound
  <1>2. /\ Cand \ pass.left = Cand /\ gcObjects \subseteq Instances /\ Null \notin Instances
        /\ member \in [Instances -> Instances \cup {Null}]
        /\ local \in [Locals -> Instances \cup {Null}]
    BY HeapTypes
  <1>3. PICK rv \in [Cand -> Instances \cup {Null}] : ReadSound(rv)
    BY <1>1, <1>2 DEF CountSound
  <1>4. \A o \in Cand :
           /\ InLocal(o) \/ Added(o) => o \in R
           /\ (\E q \in Instances : member[q] = o /\ (q \notin Cand \/ rv[q] # o)) => o \in R
           /\ Owed(o) /\ (\A p \in Cand : ~Overwritten(rv, p)) => o \in R
           /\ o \in R =>
                \/ InLocal(o) \/ Added(o) \/ Owed(o)
                \/ \E q \in Instances : member[q] = o /\ (q \notin Cand \/ rv[q] # o)
    BY <1>0, <1>3, WhatIsLeft
  <1>5. R \subseteq Cand
    BY <1>0
  <1>6. \A l \in Locals : local[l] # Null => local[l] \in R
    <2> SUFFICES ASSUME NEW l \in Locals, local[l] # Null PROVE local[l] \in R
      OBVIOUS
    <2>1. local[l] \in Instances /\ Sound(local[l]) /\ InLocal(local[l])
      BY <1>1, <1>2 DEF HeapSound, InLocal
    <2> QED
      BY <1>1, <1>4, <2>1, Referenced
  <1>7. \A o \in Instances : Added(o) => o \in R
    BY <1>1, <1>4, AddedIsSound
  <1>8. \A q \in Instances : q \notin Cand => member[q] \in R \cup {Null}
    <2> SUFFICES ASSUME NEW q \in Instances, q \notin Cand, member[q] # Null PROVE member[q] \in R
      BY <1>2
    <2>1. member[q] \in Instances /\ Sound(member[q])
      BY <1>1, <1>2 DEF HeapSound
    <2>2. member[q] \in Cand
      BY <1>1, <2>1, Referenced
    <2> QED
      BY <1>4, <2>2
  <1>9. ASSUME NEW o \in R
        PROVE  \/ InLocal(o) \/ Added(o) \/ Owed(o)
               \/ \E q \in Instances : member[q] = o /\ (q \in R \/ q \notin Cand)
    <2>1. CASE \E q \in Instances : member[q] = o /\ (q \notin Cand \/ rv[q] # o)
      <3>1. PICK q \in Instances : member[q] = o /\ (q \notin Cand \/ rv[q] # o)
        BY <2>1
      <3>2. CASE q \notin Cand
        BY <3>1, <3>2
      <3>3. CASE q \in Cand
        <4>1. o # Null
          BY <1>1, <1>2, <1>5
        <4>2. \/ InLocal(q)
              \/ todo = <<Dec(q)>> /\ \A p \in Cand : ~Overwritten(rv, p)
          BY <1>2, <1>3, <3>1, <3>3, <4>1 DEF ReadSound
        <4>3. todo = <<Dec(q)>> => Owed(q)
          BY DecNames DEF Owed
        <4>4. q \in R
          BY <1>4, <3>3, <4>2, <4>3
        <4> QED
          BY <3>1, <4>4
      <3> QED
        BY <3>2, <3>3
    <2> QED
      BY <1>4, <1>5, <2>1
  <1>10. R \cap pass.lost = {}
    <2> SUFFICES ASSUME NEW o \in R, o \in pass.lost PROVE FALSE
      OBVIOUS
    <2>1. /\ ~InLocal(o) /\ (\A i \in DOMAIN todo : todo[i].o # o)
          /\ \A q \in Instances : member[q] = o => q \in pass.lost /\ q \in Cand
      BY <1>1 DEF LostSound, InLocal
    <2>2. ~Added(o) /\ ~Owed(o)
      BY <2>1 DEF Added, Owed, AddedIn, OwedIn, NamedIn
    <2>3. PICK q \in Instances : member[q] = o /\ (q \notin Cand \/ rv[q] # o)
      BY <1>4, <1>5, <2>1, <2>2
    <2> QED
      BY <1>2, <1>3, <2>1, <2>3 DEF ReadSound
  <1> QED
    BY <1>0, <1>5, <1>6, <1>7, <1>8, <1>9, <1>10

\* Counting ends, whatever was assigned meanwhile.
LEMMA CountEndKeeps == ASSUME GCInv, NEW c \in G!Callers, G!CountEnd(c) PROVE GCInv'
  <1>1. /\ at[c] = "count" /\ pass.left = {} /\ G!Goes(c, "trace")
        /\ pass' = [pass EXCEPT !.left = {o \in DOMAIN pass.counts : pass.counts[o] > 0}]
        /\ UNCHANGED <<G!heapVars, lock, collecting, todo, gcState, gcThread, destroyer,
               gcCrashed>>
    BY DEF G!CountEnd, G!Quiet, G!runVars
  <1>2. "count" \in Holding /\ "count" \in Busy /\ "trace" \in Holding
    BY DEF Holding, Busy
  <1>3. /\ OneHolds' /\ Phase' = "trace"
        /\ at' \in [G!Callers -> {"idle", "call", "lock", "count", "trace", "clear", "delete", "flag", "unlock"}]
    BY <1>1, <1>2, HolderMoves
  <1>4. Phase = "count" /\ Doomed = {} /\ Doomed' = {}
    BY <1>1, <1>2, <1>3, PhaseIs DEF Doomed
  <1>5. G!TypeOK'
    BY <1>1, <1>3 DEF GCInv, G!TypeOK, G!heapVars
  <1>6. HeapSound' /\ Counted' /\ TodoSound'
    BY <1>1, <1>4, SameHeap
  <1>7. /\ pass = [left |-> pass.left, counts |-> pass.counts, live |-> pass.live,
               lost |-> pass.lost]
        /\ Cand = gcObjects /\ pass.counts \in [Cand -> Int] /\ LostSound /\ pass.live = {}
    BY <1>4 DEF GCInv, PassSound, CountSound
  <1>8. PICK R, C, K, Z : /\ R = Roots /\ R = {o \in Cand : pass.counts[o] > 0}
                          /\ C = pass.counts /\ K = pass.live /\ Z = pass.lost
    BY DEF Roots
  <1>9. pass' = [left |-> R, counts |-> C, live |-> K, lost |-> Z]
    BY ONLY <1>1, <1>7, <1>8 DEF Cand
  <1>10. /\ pass.left' = R /\ pass.live' = {} /\ pass.lost' = pass.lost
         /\ pass.counts' = pass.counts
         /\ Cand' = Cand /\ Traced' = R
         /\ pass' = [left |-> pass.left, counts |-> pass.counts, live |-> pass.live,
                lost |-> pass.lost]'
    BY <1>7, <1>8, <1>9 DEF Cand, Traced
  <1>11. UNCHANGED <<member, local, gcObjects, todo>>
    BY <1>1 DEF G!heapVars
  <1>12. LostSound'
    BY <1>7, <1>10, <1>11 DEF LostSound
  <1>13. TraceSound(R)'
    <2>1. /\ R \subseteq Cand /\ R \cap pass.lost = {}
          /\ \A l \in Locals : local[l] # Null => local[l] \in R
          /\ \A o \in Instances : Added(o) => o \in R
          /\ \A q \in Instances : q \notin Cand => member[q] \in R \cup {Null}
          /\ \A o \in R : \/ InLocal(o) \/ Added(o) \/ Owed(o)
                          \/ \E q \in Instances : member[q] = o /\ (q \in R \/ q \notin Cand)
      BY <1>1, <1>4, <1>8, RootsSound
    <2>2. \A o : (InLocal(o)' <=> InLocal(o)) /\ (Added(o)' <=> Added(o))
              /\ (Owed(o)' <=> Owed(o))
      BY <1>11 DEF InLocal, Added, Owed
    <2> QED
      BY <1>10, <1>11, <2>1, <2>2 DEF TraceSound
  <1>14. PassSound'
    BY <1>3, <1>7, <1>10, <1>11, <1>12, <1>13 DEF PassSound
  <1> QED
    BY <1>3, <1>5, <1>6, <1>14 DEF GCInv

\* One more instance is live, and its member is to be traced.
LEMMA TraceKeeps == ASSUME GCInv, NEW c \in G!Callers, G!Trace(c) PROVE GCInv'
  <1>1. /\ at[c] = "trace"
        /\ UNCHANGED <<G!heapVars, lock, collecting, at, todo, gcState, gcThread, destroyer,
               gcCrashed>>
    BY DEF G!Trace, G!Quiet, G!runVars
  <1>2. PICK o \in pass.left :
           pass' = [pass EXCEPT !.live = @ \cup {o},
                                !.left = (@ \cup ({member[o]} \ {Null})) \ (pass.live \cup {o})]
    BY DEF G!Trace
  <1>3. UNCHANGED <<member, local, gcObjects, todo>> /\ gcObjects \subseteq Instances
            /\ Null \notin Instances
        /\ member \in [Instances -> Instances \cup {Null}]
    BY <1>1, HeapTypes DEF G!heapVars
  <1>4. Phase = "trace" /\ Phase' = "trace" /\ Doomed = {} /\ Doomed' = {}
    <2>1. Phase = "trace"
      BY <1>1, PhaseIs DEF Holding
    <2> QED
      BY <1>1, <2>1 DEF Phase, Doomed
  <1>5. OneHolds' /\ G!TypeOK'
    BY <1>1 DEF GCInv, OneHolds, G!TypeOK, G!heapVars
  <1>6. HeapSound' /\ Counted' /\ TodoSound' /\ HeapSound
    BY <1>1, <1>4, SameHeap DEF GCInv
  <1>7. /\ pass = [left |-> pass.left, counts |-> pass.counts, live |-> pass.live,
               lost |-> pass.lost]
        /\ Cand = gcObjects /\ pass.counts \in [Cand -> Int] /\ LostSound /\ TraceSound(Traced)
    BY <1>4 DEF GCInv, PassSound
  <1>8. PICK W, C, K, Z, T, m : /\ W = pass.left /\ C = pass.counts /\ K = pass.live /\ Z = pass.lost
                                /\ T = Traced /\ m = member[o]
    OBVIOUS
  <1>9. pass = [left |-> W, counts |-> C, live |-> K, lost |-> Z]
    BY <1>7, <1>8
  <1>10. pass' = [left |-> (W \cup ({m} \ {Null})) \ (K \cup {o}), counts |-> C,
             live |-> K \cup {o}, lost |-> Z]
    BY ONLY <1>2, <1>8, <1>9
  <1>11. /\ pass.left' = (W \cup ({m} \ {Null})) \ (K \cup {o}) /\ pass.live' = K \cup {o}
         /\ pass.lost' = Z /\ pass.counts' = C /\ Cand' = Cand
         /\ pass' = [left |-> pass.left, counts |-> pass.counts, live |-> pass.live,
                lost |-> pass.lost]'
    BY <1>8, <1>10 DEF Cand
  <1>12. T = W \cup K /\ Traced' = T \cup ({m} \ {Null})
    BY <1>2, <1>8, <1>11 DEF Traced
  <1>13. o \in T /\ o \in Cand /\ o \in Instances
    BY <1>2, <1>3, <1>7, <1>8, <1>12 DEF TraceSound
  <1>14. m # Null => m \in Cand /\ m \notin Z
    <2>1. m # Null => m \in Instances /\ Sound(m)
      BY <1>3, <1>6, <1>8, <1>13 DEF HeapSound
    <2>2. m # Null => m \in Cand
      BY <1>7, <1>8, <1>13, <2>1, Referenced
    <2>3. o \notin Z
      BY <1>7, <1>8, <1>13 DEF TraceSound
    <2> QED
      BY <1>7, <1>8, <1>13, <2>2, <2>3 DEF LostSound
  <1>15. \A x : (InLocal(x)' <=> InLocal(x)) /\ (Added(x)' <=> Added(x)) /\ (Owed(x)' <=> Owed(x))
    BY <1>3 DEF InLocal, Added, Owed
  <1>16. PICK U : U = T \cup ({m} \ {Null})
    OBVIOUS
  <1>17. TraceSound(U)'
    <2>1. /\ T \subseteq Cand /\ T \cap Z = {}
          /\ \A l \in Locals : local[l] # Null => local[l] \in T
          /\ \A x \in Instances : Added(x) => x \in T
          /\ \A q \in Instances : (q \in K \/ q \notin Cand) => member[q] \in T \cup {Null}
          /\ \A x \in T : \/ InLocal(x) \/ Added(x) \/ Owed(x)
                          \/ \E q \in Instances : member[q] = x /\ (q \in T \/ q \notin Cand)
      BY <1>7, <1>8 DEF TraceSound
    <2>2. /\ U \subseteq Cand /\ U \cap Z = {}
          /\ \A l \in Locals : local[l] # Null => local[l] \in U
          /\ \A x \in Instances : Added(x) => x \in U
      BY <1>14, <1>16, <2>1
    <2>3. \A q \in Instances : (q \in K \cup {o} \/ q \notin Cand) => member[q] \in U \cup {Null}
      BY <1>8, <1>16, <2>1
    <2>4. \A x \in U : \/ InLocal(x) \/ Added(x) \/ Owed(x)
                       \/ \E q \in Instances : member[q] = x /\ (q \in U \/ q \notin Cand)
      BY <1>8, <1>13, <1>16, <2>1
    <2> QED
      BY <1>3, <1>11, <1>15, <2>2, <2>3, <2>4 DEF TraceSound
  <1>18. LostSound'
    BY <1>3, <1>7, <1>8, <1>11 DEF LostSound
  <1>19. PassSound'
    BY <1>3, <1>4, <1>7, <1>8, <1>11, <1>12, <1>16, <1>17, <1>18 DEF PassSound
  <1> QED
    BY <1>5, <1>6, <1>19 DEF GCInv

\* Tracing ends: what is left can not be got at.
LEMMA TraceEndKeeps == ASSUME GCInv, NEW c \in G!Callers, G!TraceEnd(c) PROVE GCInv'
  <1>1. /\ at[c] = "trace" /\ pass.left = {} /\ G!Goes(c, "clear")
        /\ pass' = [pass EXCEPT !.left = DOMAIN pass.counts \ pass.live]
        /\ UNCHANGED <<G!heapVars, lock, collecting, todo, gcState, gcThread, destroyer,
               gcCrashed>>
    BY DEF G!TraceEnd, G!Quiet, G!runVars
  <1>2. "trace" \in Holding /\ "trace" \in Busy /\ "clear" \in Holding
    BY DEF Holding, Busy
  <1>3. /\ OneHolds' /\ Phase' = "clear"
        /\ at' \in [G!Callers -> {"idle", "call", "lock", "count", "trace", "clear", "delete", "flag", "unlock"}]
    BY <1>1, <1>2, HolderMoves
  <1>4. Phase = "trace" /\ Doomed = {} /\ Doomed' = {}
    BY <1>1, <1>2, <1>3, PhaseIs DEF Doomed
  <1>5. G!TypeOK'
    BY <1>1, <1>3 DEF GCInv, G!TypeOK, G!heapVars
  <1>6. HeapSound' /\ Counted' /\ TodoSound'
    BY <1>1, <1>4, SameHeap
  <1>7. /\ pass = [left |-> pass.left, counts |-> pass.counts, live |-> pass.live,
               lost |-> pass.lost]
        /\ Cand = gcObjects /\ pass.counts \in [Cand -> Int] /\ LostSound /\ TraceSound(Traced)
    BY <1>4 DEF GCInv, PassSound
  <1>8. PICK R, C, K, Z : /\ R = Cand \ pass.live
                          /\ C = pass.counts /\ K = pass.live /\ Z = pass.lost
    OBVIOUS
  <1>9. pass' = [left |-> R, counts |-> C, live |-> K, lost |-> Z]
    BY ONLY <1>1, <1>7, <1>8 DEF Cand
  <1>10. /\ pass.left' = R /\ pass.live' = K /\ pass.lost' = pass.lost
         /\ pass.counts' = pass.counts
         /\ Cand' = Cand /\ pass.live' = pass.live
         /\ pass' = [left |-> pass.left, counts |-> pass.counts, live |-> pass.live,
                lost |-> pass.lost]'
    BY <1>7, <1>8, <1>9 DEF Cand
  <1>11. UNCHANGED <<member, local, gcObjects, todo>>
    BY <1>1 DEF G!heapVars
  <1>12. LostSound'
    BY <1>7, <1>10, <1>11 DEF LostSound
  <1>13. TraceSound(K)'
    <2>1. Traced = K
      BY <1>1, <1>8 DEF Traced
    <2>2. TraceSound(K)
      BY <1>7, <2>1
    <2>3. \A o : (InLocal(o)' <=> InLocal(o)) /\ (Added(o)' <=> Added(o))
              /\ (Owed(o)' <=> Owed(o))
      BY <1>11 DEF InLocal, Added, Owed
    <2> QED
      BY <1>10, <1>11, <2>2, <2>3 DEF TraceSound
  <1>14. PassSound'
    BY <1>3, <1>7, <1>8, <1>10, <1>11, <1>12, <1>13 DEF PassSound
  <1> QED
    BY <1>3, <1>5, <1>6, <1>14 DEF GCInv

\* When handles of a set of instances are cleared.
Cleared(W) == member' = [q \in Instances |-> IF q \in W THEN Null ELSE member[q]]

Referring(W, o) == {p \in W : member[p] = o /\ p \in Instances}

\* How many members refer to an instance when some members are cleared.
LEMMA MembersCleared ==
    ASSUME GCInv, NEW W, NEW o \in Instances, Cleared(W)
    PROVE  /\ Cardinality(Members(o)) = Cardinality(Members(o)') + Cardinality(Referring(W, o))
           /\ Cardinality(Members(o)') \in Nat /\ Cardinality(Referring(W, o)) \in Nat
           /\ \A q \in Instances : q \in Members(o)' <=> member[q] = o /\ q \notin W
  <1>1. PICK M, N, I : M = Members(o) /\ N = Members(o)' /\ I = Referring(W, o)
    OBVIOUS
  <1>2. o # Null
    BY CollectorAssumption
  <1>3. /\ N \subseteq Instances /\ \A q \in Instances : q \in N <=> member[q] = o /\ q \notin W
    BY <1>1, <1>2 DEF Members, Cleared
  <1>4. I \subseteq M /\ N = M \ I /\ M \cap I = I
    BY <1>1, <1>3 DEF Members, Referring
  <1>5. IsFiniteSet(M) /\ Cardinality(M) \in Nat
    BY <1>1, HeldFinite
  <1>6. IsFiniteSet(I)
    BY ONLY <1>4, <1>5, FS_Subset
  <1>7. IsFiniteSet(N) /\ Cardinality(N) = Cardinality(M) - Cardinality(I)
    <2>1. IsFiniteSet(M \ I) /\ Cardinality(M \ I) = Cardinality(M) - Cardinality(M \cap I)
      BY ONLY <1>5, FS_Difference
    <2> QED
      BY ONLY <1>4, <2>1
  <1>8. Cardinality(I) \in Nat /\ Cardinality(N) \in Nat
    BY ONLY <1>6, <1>7, FS_CardinalityType
  <1>9. Cardinality(M) = Cardinality(N) + Cardinality(I)
    BY ONLY <1>5, <1>7, <1>8
  <1> QED
    BY ONLY <1>1, <1>3, <1>8, <1>9

\* __gcClear() of what is left.
LEMMA ClearKeeps == ASSUME GCInv, NEW c \in G!Callers, G!Clear(c) PROVE GCInv'
  <1>0. PICK W, K : W = pass.left /\ K = pass.live
    OBVIOUS
  <1>1. /\ at[c] = "clear" /\ G!Goes(c, "delete")
        /\ ref' = [o \in Instances |-> ref[o] - Cardinality({p \in W : member[p] = o})]
        /\ member' = [o \in Instances |-> IF o \in W THEN Null ELSE member[o]]
        /\ UNCHANGED <<heap, local, gcObjects, lock, collecting, pass, todo, gcState, gcThread,
               destroyer, gcCrashed>>
    BY <1>0, SameCardinality DEF G!Clear, G!Quiet, G!runVars
  <1>2. "clear" \in Holding /\ "clear" \in Busy /\ "delete" \in Holding
    BY DEF Holding, Busy
  <1>3. /\ OneHolds' /\ Phase' = "delete"
        /\ at' \in [G!Callers -> {"idle", "call", "lock", "count", "trace", "clear", "delete", "flag", "unlock"}]
    BY <1>1, <1>2, HolderMoves
  <1>4. Phase = "clear" /\ Doomed = {} /\ Doomed' = W
    BY <1>0, <1>1, <1>2, <1>3, PhaseIs DEF Doomed
  <1>5. /\ Cand = gcObjects /\ TraceSound(K) /\ W = Cand \ K
        /\ pass = [left |-> pass.left, counts |-> pass.counts, live |-> pass.live,
               lost |-> pass.lost]
    BY <1>0, <1>4 DEF GCInv, PassSound
  <1>6. /\ gcObjects \subseteq Instances /\ Null \notin Instances /\ ref \in [Instances -> Nat]
        /\ HeapSound
        /\ member \in [Instances -> Instances \cup {Null}]
        /\ local \in [Locals -> Instances \cup {Null}]
        /\ heap \in [Instances -> {"none", "live", "dead"}] /\ W \subseteq Instances
        /\ K \subseteq Instances
    BY <1>5, HeapTypes DEF GCInv, TraceSound
  <1>7. \A o \in Instances : {p \in W : member[p] = o} = {p \in W : member[p] = o
            /\ p \in Instances}
    BY <1>6
  <1>8. \A o \in Instances : Sound(o) =>
           /\ ref'[o] = Cardinality(Held(o)) + Cardinality(Members(o)') + Bit(Added(o))
                  + Bit(Owed(o))
           /\ ref'[o] \in Nat /\ ref'[o] <= ref[o]
    <2> SUFFICES ASSUME NEW o \in Instances, Sound(o)
                 PROVE  /\ ref'[o] = Cardinality(Held(o)) + Cardinality(Members(o)')
                               + Bit(Added(o)) + Bit(Owed(o))
                        /\ ref'[o] \in Nat /\ ref'[o] <= ref[o]
      OBVIOUS
    <2>1. PICK I : I = {p \in W : member[p] = o} /\ I = Referring(W, o)
      BY <1>7 DEF Referring
    <2>2. /\ Cardinality(Members(o)) = Cardinality(Members(o)') + Cardinality(I)
          /\ Cardinality(Members(o)') \in Nat /\ Cardinality(I) \in Nat
      <3>1. Cleared(W)
        BY <1>1 DEF Cleared
      <3> QED
        BY <2>1, <3>1, MembersCleared
    <2>3. ref'[o] = ref[o] - Cardinality(I)
      BY <1>1, <2>1
    <2>4. ref[o] = Cardinality(Held(o)) + Cardinality(Members(o)) + Bit(Added(o)) + Bit(Owed(o))
      BY DEF GCInv, Counted
    <2>5. Cardinality(Held(o)) \in Nat /\ Bit(Added(o)) \in Nat /\ Bit(Owed(o)) \in Nat
      BY HeldFinite DEF Bit
    <2> QED
      BY ONLY <2>2, <2>3, <2>4, <2>5
  <1>9. \A o \in Instances : ~Sound(o) => ref'[o] = ref[o]
    <2> SUFFICES ASSUME NEW o \in Instances, ~Sound(o) PROVE ref'[o] = ref[o]
      OBVIOUS
    <2>1. {p \in W : member[p] = o} = {}
      BY <1>6 DEF HeapSound
    <2>2. ref'[o] = ref[o] - Cardinality({p \in W : member[p] = o})
      BY <1>1
    <2>3. ref'[o] = ref[o] - 0 /\ ref[o] \in Nat
      BY <1>6, <2>1, <2>2, FS_EmptySet
    <2> QED
      BY ONLY <2>3
  <1>10. ref' \in [Instances -> Nat]
    <2>1. \A o \in Instances : ref'[o] \in Nat
      BY <1>6, <1>8, <1>9
    <2>2. ref' = [o \in Instances |-> ref'[o]]
      BY <1>1
    <2> QED
      BY ONLY <2>1, <2>2
  <1>11. G!TypeOK'
    BY <1>1, <1>3, <1>6, <1>10 DEF GCInv, G!TypeOK
  <1>12. \A o : Sound(o)' <=> Sound(o) /\ o \notin W
    BY <1>1, <1>4 DEF Sound
  <1>13. \A q \in Instances : /\ q \in W => member'[q] = Null
                              /\ q \notin W => member'[q] = member[q]
    BY <1>1
  <1>14. /\ \A o \in K : o \notin W
         /\ \A l \in Locals : local[l] # Null => local[l] \in K
         /\ \A q \in Instances : q \notin W => member[q] \in K \cup {Null}
    BY <1>0, <1>5, <1>6 DEF TraceSound
  <1>15. \A o : (InLocal(o)' <=> InLocal(o)) /\ (Added(o)' <=> Added(o)) /\ (Owed(o)' <=> Owed(o))
                /\ Held(o)' = Held(o)
    BY <1>1 DEF InLocal, Added, Owed, Held
  <1>16. \A o \in K : ref'[o] > 0
    <2> SUFFICES ASSUME NEW o \in K PROVE ref'[o] > 0
      OBVIOUS
    <2>1. Sound(o) /\ o \in Instances
      BY <1>4, <1>5, <1>6 DEF HeapSound, Sound, TraceSound
    <2>2. \/ InLocal(o) \/ Added(o) \/ Owed(o)
          \/ \E q \in Instances : member[q] = o /\ (q \in K \/ q \notin Cand)
      BY <1>5 DEF TraceSound
    <2>3. (\E q \in Instances : member[q] = o /\ (q \in K \/ q \notin Cand)) => Members(o)' # {}
      <3>1. \A q \in Instances : (q \in K \/ q \notin Cand) => member'[q] = member[q]
        BY <1>5, <1>13
      <3> QED
        BY <3>1 DEF Members
    <2>4. IsFiniteSet(Members(o)')
      <3>1. Members(o)' \subseteq Instances
        BY DEF Members
      <3> QED
        BY <3>1, CollectorAssumption, FS_Subset
    <2>5. Cardinality(Members(o)') \in Nat /\ (Cardinality(Members(o)') = 0 <=> Members(o)' = {})
      BY <2>4, CountsOne
    <2>6. Cardinality(Held(o)) \in Nat /\ (Cardinality(Held(o)) = 0 <=> Held(o) = {})
      BY HeldFinite
    <2>7. Held(o) = {} <=> ~InLocal(o)
      BY DEF Held, InLocal
    <2>8. Bit(Added(o)) \in Nat /\ Bit(Owed(o)) \in Nat /\ (Added(o) => Bit(Added(o)) = 1)
              /\ (Owed(o) => Bit(Owed(o)) = 1)
      BY DEF Bit
    <2>9. ref'[o] = Cardinality(Held(o)) + Cardinality(Members(o)') + Bit(Added(o)) + Bit(Owed(o))
      BY <1>8, <2>1
    <2>10. PICK h, m, a, b : /\ h = Cardinality(Held(o)) /\ m = Cardinality(Members(o)') /\ a = Bit(Added(o)) /\ b = Bit(Owed(o))
      OBVIOUS
    <2>11. h \in Nat /\ m \in Nat /\ a \in Nat /\ b \in Nat /\ (h # 0 \/ m # 0 \/ a # 0 \/ b # 0)
      BY <2>2, <2>3, <2>5, <2>6, <2>7, <2>8, <2>10
    <2>12. ref'[o] = h + m + a + b
      BY <2>9, <2>10
    <2>13. h + m + a + b > 0
      BY ONLY <2>11
    <2> QED
      BY ONLY <2>12, <2>13
  <1>17. HeapSound'
    <2>1. \A l \in Locals : (local[l] # Null => Sound(local[l]))'
      BY <1>1, <1>6, <1>12, <1>14 DEF HeapSound
    <2>2. \A q \in Instances : (member[q] # Null => Sound(q) /\ Sound(member[q]))'
      BY <1>6, <1>12, <1>13, <1>14 DEF HeapSound
    <2>3. \A o \in Instances : heap[o] = "none" => ref'[o] = 0
      BY <1>6, <1>9 DEF HeapSound, Sound
    <2>4. \A o \in Instances : Sound(o)' => (o \in gcObjects <=> ref'[o] > 0)
      <3> SUFFICES ASSUME NEW o \in Instances, Sound(o)' PROVE o \in gcObjects <=> ref'[o] > 0
        OBVIOUS
      <3>1. Sound(o) /\ o \notin W
        BY <1>12
      <3>2. o \in gcObjects => ref'[o] > 0
        BY <1>5, <1>16, <3>1
      <3>3. ref'[o] > 0 => ref[o] > 0
        BY <1>6, <1>8, <3>1
      <3> QED
        BY <1>6, <3>1, <3>2, <3>3 DEF HeapSound
    <2>5. \A o \in Instances : Sound(o)' /\ ref'[o] = 0 => o \in Named("inc") \cup Named("delete")
      <3> SUFFICES ASSUME NEW o \in Instances, Sound(o)',
                              ref'[o] = 0 PROVE o \in Named("inc") \cup Named("delete")
        OBVIOUS
      <3>1. Sound(o) /\ o \notin gcObjects
        BY <1>12, <2>4
      <3>2. ref[o] = 0
        BY <1>6, <3>1 DEF HeapSound
      <3> QED
        BY <1>6, <3>1, <3>2 DEF HeapSound
    <2>6. Named("inc")' = Named("inc") /\ Named("delete")' = Named("delete")
      BY <1>1 DEF Named
    <2>7. W \subseteq gcObjects
      BY <1>5
    <2>8. \A o \in gcObjects : heap[o] = "live"
      BY <1>6 DEF HeapSound
    <2> QED
      BY <1>1, <1>4, <2>1, <2>2, <2>3, <2>4, <2>5, <2>6, <2>7, <2>8 DEF HeapSound
  <1>18. Counted'
    <2> SUFFICES ASSUME NEW o \in Instances, Sound(o)'
                 PROVE  (ref[o] = Cardinality(Held(o)) + Cardinality(Members(o)) + Bit(Added(o))
                            + Bit(Owed(o)))'
      BY DEF Counted
    <2>1. Bit(Added(o)') = Bit(Added(o)) /\ Bit(Owed(o)') = Bit(Owed(o))
      BY <1>15 DEF Bit
    <2>2. ref'[o] = Cardinality(Held(o)) + Cardinality(Members(o)') + Bit(Added(o)) + Bit(Owed(o))
      BY <1>8, <1>12
    <2> QED
      BY <1>15, <2>1, <2>2
  <1>19. TodoSound'
    <2>1. G!Handles' = G!Handles
      BY <1>1 DEF G!Handles
    <2>2. \A h \in G!Handles : G!Value(h)' = G!Value(h)
      <3> SUFFICES ASSUME NEW h \in G!Handles PROVE G!Value(h)' = G!Value(h)
        OBVIOUS
      <3>1. CASE \E l \in Locals : h = <<"local", l>>
        BY <1>1, <3>1 DEF G!Value
      <3>2. CASE \E l \in Locals : local[l] # Null /\ h = <<"member", local[l]>>
        <4>1. PICK l \in Locals : local[l] # Null /\ h = <<"member", local[l]>>
          BY <3>2
        <4>2. local[l] \in Instances /\ local[l] \notin W
          BY <1>6, <1>14, <4>1
        <4> QED
          BY <1>1, <1>13, <4>1, <4>2 DEF G!Value
      <3> QED
        BY <3>1, <3>2 DEF G!Handles
    <2>3. \A o \in Instances : Sound(o) /\ ref[o] = 0 => Sound(o)' /\ ref'[o] = 0 /\ o \notin W
      <3> SUFFICES ASSUME NEW o \in Instances, Sound(o), ref[o] = 0 PROVE Sound(o)'
                              /\ ref'[o] = 0 /\ o \notin W
        OBVIOUS
      <3>1. o \notin gcObjects
        BY <1>6 DEF HeapSound
      <3>2. ref'[o] \in Nat /\ ref'[o] <= 0
        BY <1>8
      <3> QED
        BY <1>5, <1>12, <3>1, <3>2
    <2>4. \A o \in Instances : Fresh(o) => Fresh(o)'
      BY <1>13, <2>3 DEF Fresh
    <2>5. ASSUME NEW h \in G!Handles, NEW o \in Instances, todo = Plan(h, o, G!Value(h)),
                     Sound(o) PROVE Sound(o)'
      <3>1. Added(o)
        BY <2>5, PlanNames DEF Added
      <3>2. o \in K
        BY <1>5, <3>1 DEF TraceSound
      <3> QED
        BY <1>12, <1>14, <2>5, <3>2
    <2>6. TodoSound
      BY DEF GCInv
    <2>7. CASE todo = <<>>
      BY <1>1, <2>7 DEF TodoSound
    <2>8. CASE \E h \in G!Handles, o \in Instances :
                 /\ todo = IncPlan(h, o, G!Value(h)) /\ G!Value(h) # o
                 /\ Fresh(o) \/ \E g \in G!Handles : G!Value(g) = o
      <3>1. PICK h \in G!Handles, o \in Instances :
                 /\ todo = IncPlan(h, o, G!Value(h)) /\ G!Value(h) # o
                 /\ Fresh(o) \/ \E g \in G!Handles : G!Value(g) = o
        BY <2>8
      <3>2. todo' = IncPlan(h, o, G!Value(h)') /\ G!Value(h)' # o
        BY <1>1, <2>2, <3>1
      <3>3. Fresh(o)' \/ \E g \in G!Handles' : G!Value(g)' = o
        BY <2>1, <2>2, <2>4, <3>1
      <3> QED
        BY <2>1, <3>2, <3>3 DEF TodoSound
    <2>9. CASE \E h \in G!Handles, o \in Instances \cup {Null} :
                 /\ todo = Plan(h, o, G!Value(h)) /\ G!Value(h) # o
                 /\ o # Null => Sound(o)
      <3>1. PICK h \in G!Handles, o \in Instances \cup {Null} :
                 /\ todo = Plan(h, o, G!Value(h)) /\ G!Value(h) # o
                 /\ o # Null => Sound(o)
        BY <2>9
      <3>2. todo' = Plan(h, o, G!Value(h)') /\ G!Value(h)' # o
        BY <1>1, <2>2, <3>1
      <3>3. o # Null => Sound(o)'
        BY <2>5, <3>1
      <3> QED
        BY <2>1, <3>2, <3>3 DEF TodoSound
    <2>10. CASE \E v \in Instances :
                 \/ todo = <<Dec(v)>> /\ heap[v] # "none"
                 \/ todo = <<Del(v)>> /\ Sound(v) /\ ref[v] = 0
      BY <1>1, <2>3, <2>10 DEF TodoSound
    <2> QED
      BY <2>6, <2>7, <2>8, <2>9, <2>10 DEF TodoSound
  <1>20. PassSound'
    BY <1>1, <1>3, <1>5 DEF PassSound
  <1> QED
    BY <1>3, <1>11, <1>17, <1>18, <1>19, <1>20 DEF GCInv

\* What is left is deleted.
LEMMA DeleteGarbageKeeps == ASSUME GCInv, NEW c \in G!Callers, G!DeleteGarbage(c) PROVE GCInv'
  <1>0. PICK W : W = pass.left
    OBVIOUS
  <1>1. /\ at[c] = "delete" /\ G!Goes(c, "flag")
        /\ heap' = [o \in Instances |-> IF o \in W THEN "dead" ELSE heap[o]]
        /\ ref' = [o \in Instances |-> IF o \in W THEN 0 ELSE ref[o]]
        /\ gcObjects' = gcObjects \ W /\ pass' = G!Idle
        /\ UNCHANGED <<member, local, lock, collecting, todo, gcState, gcThread, destroyer,
               gcCrashed>>
    BY <1>0 DEF G!DeleteGarbage, G!Quiet, G!runVars
  <1>2. "delete" \in Holding /\ "delete" \in Busy /\ "flag" \in Holding
    BY DEF Holding, Busy
  <1>3. /\ OneHolds' /\ Phase' = "flag"
        /\ at' \in [G!Callers -> {"idle", "call", "lock", "count", "trace", "clear", "delete", "flag", "unlock"}]
    BY <1>1, <1>2, HolderMoves
  <1>4. Phase = "delete" /\ Doomed = W /\ Doomed' = {}
    BY <1>0, <1>1, <1>2, <1>3, PhaseIs DEF Doomed
  <1>6. /\ gcObjects \subseteq Instances /\ Null \notin Instances /\ ref \in [Instances -> Nat]
        /\ HeapSound
        /\ member \in [Instances -> Instances \cup {Null}]
        /\ local \in [Locals -> Instances \cup {Null}]
        /\ heap \in [Instances -> {"none", "live", "dead"}]
    BY HeapTypes DEF GCInv
  <1>7. G!TypeOK'
    BY <1>1, <1>3, <1>6 DEF GCInv, G!TypeOK
  <1>8. \A o \in Instances : /\ Sound(o)' <=> Sound(o)
                             /\ Sound(o) => o \notin W /\ ref'[o] = ref[o]
                             /\ (heap'[o] = "none" => heap[o] = "none" /\ ref'[o] = ref[o])
                             /\ (heap[o] # "none" => heap'[o] # "none")
    BY <1>1, <1>4, <1>6 DEF Sound
  <1>9. HeapSound'
    <2>1. \A l \in Locals : (local[l] # Null => Sound(local[l]))'
      BY <1>1, <1>6, <1>8 DEF HeapSound
    <2>2. \A q \in Instances : (member[q] # Null => Sound(q) /\ Sound(member[q]))'
      BY <1>1, <1>6, <1>8 DEF HeapSound
    <2>3. \A o \in Instances : heap'[o] = "none" => ref'[o] = 0
      BY <1>6, <1>8 DEF HeapSound
    <2>4. \A o \in Instances : Sound(o)' => (o \in gcObjects' <=> ref'[o] > 0)
      BY <1>1, <1>6, <1>8 DEF HeapSound
    <2>5. Named("inc")' = Named("inc") /\ Named("delete")' = Named("delete")
      BY <1>1 DEF Named
    <2>6. \A o \in Instances : Sound(o)' /\ ref'[o] = 0 =>
              o \in Named("inc")' \cup Named("delete")'
      BY <1>6, <1>8, <2>5 DEF HeapSound
    <2>7. \A o \in gcObjects' : heap'[o] = "live"
      BY <1>1, <1>6 DEF HeapSound
    <2> QED
      BY <1>4, <2>1, <2>2, <2>3, <2>4, <2>6, <2>7 DEF HeapSound
  <1>10. Counted'
    <2>1. \A o : Held(o)' = Held(o) /\ Members(o)' = Members(o)
              /\ Bit(Added(o))' = Bit(Added(o)) /\ Bit(Owed(o))' = Bit(Owed(o))
      BY <1>1 DEF Held, Members, Added, Owed
    <2> QED
      BY <1>8, <2>1 DEF Counted, GCInv
  <1>11. TodoSound'
    <2>1. G!Handles' = G!Handles /\ \A g : G!Value(g)' = G!Value(g)
      BY <1>1 DEF G!Handles, G!Value
    <2>2. \A o \in Instances : Fresh(o) => Fresh(o)'
      BY <1>1, <1>8 DEF Fresh
    <2> QED
      BY <1>1, <1>8, <2>1, <2>2 DEF TodoSound, GCInv
  <1>12. PassSound'
    BY <1>1, <1>3 DEF PassSound, G!Idle
  <1> QED
    BY <1>3, <1>7, <1>9, <1>10, <1>11, <1>12 DEF GCInv

\* _collecting is reset, with gcRecMutex locked.
LEMMA NotCollectingKeeps == ASSUME GCInv, NEW c \in G!Callers, G!NotCollecting(c) PROVE GCInv'
  <1>1. /\ at[c] = "flag" /\ G!Goes(c, "unlock") /\ collecting' = FALSE
        /\ UNCHANGED <<G!heapVars, lock, pass, todo, gcState, gcThread, destroyer, gcCrashed>>
    BY DEF G!NotCollecting, G!Quiet, G!runVars
  <1>2. "flag" \in Holding /\ "flag" \in Busy /\ "unlock" \in Holding /\ "unlock" \notin Busy
    BY DEF Holding, Busy
  <1>3. /\ OneHolds' /\ Phase' = "unlock"
        /\ at' \in [G!Callers -> {"idle", "call", "lock", "count", "trace", "clear", "delete", "flag", "unlock"}]
    BY <1>1, <1>2, HolderMoves
  <1>4. Phase = "flag" /\ Doomed = {} /\ Doomed' = {}
    BY <1>1, <1>2, <1>3, PhaseIs DEF Doomed
  <1>5. G!TypeOK'
    BY <1>1, <1>3 DEF GCInv, G!TypeOK, G!heapVars
  <1>6. HeapSound' /\ Counted' /\ TodoSound'
    BY <1>1, <1>4, SameHeap
  <1>7. PassSound'
    BY <1>1, <1>3 DEF PassSound, GCInv
  <1> QED
    BY <1>3, <1>5, <1>6, <1>7 DEF GCInv

\* gcRecMutex is released.
LEMMA UnlockKeeps == ASSUME GCInv, NEW c \in G!Callers, G!Unlock(c) PROVE GCInv'
  <1>1. /\ at[c] = "unlock" /\ lock' = G!Nobody /\ G!Goes(c, "idle")
        /\ UNCHANGED <<G!heapVars, collecting, pass, todo, gcState, gcThread, destroyer,
               gcCrashed>>
    BY DEF G!Unlock, G!Quiet, G!runVars
  <1>2. /\ at \in [G!Callers -> {"idle", "call", "lock", "count", "trace", "clear", "delete", "flag", "unlock"}]
        /\ OneHolds /\ G!Nobody \notin G!Callers
    BY CollectorAssumption DEF GCInv, G!TypeOK, G!Nobody, G!Callers
  <1>3. /\ at'[c] = "idle" /\ \A d \in G!Callers : d # c => at'[d] = at[d]
        /\ at' \in [G!Callers -> {"idle", "call", "lock", "count", "trace", "clear", "delete", "flag", "unlock"}]
    BY <1>1, <1>2 DEF G!Goes
  <1>4. Phase = "unlock" /\ Phase' = "idle" /\ Doomed = {} /\ Doomed' = {} /\ lock = c
    BY <1>1, PhaseIs DEF Doomed, Phase, Holding
  <1>5. OneHolds'
    <2>1. "idle" \notin Holding /\ "idle" \notin Busy
      BY DEF Holding, Busy
    <2>2. \A d \in G!Callers : at'[d] \notin Holding
      BY <1>2, <1>3, <1>4, <2>1 DEF OneHolds
    <2>3. \A d \in G!Callers : at'[d] \in Busy => at[d] \in Busy
      BY <1>3, <2>1
    <2>4. "thread" \in G!Callers /\ "destroy" \in G!Callers
      BY DEF G!Callers
    <2>5. /\ gcThread' # "collect" => at'["thread"] = "idle"
          /\ destroyer' # "collect" => at'["destroy"] = "idle"
      BY <1>1, <1>2, <1>3, <2>4 DEF OneHolds
    <2> QED
      BY <1>1, <1>2, <2>2, <2>3, <2>5 DEF OneHolds
  <1>6. G!TypeOK'
    BY <1>1, <1>3 DEF GCInv, G!TypeOK, G!heapVars
  <1>7. HeapSound' /\ Counted' /\ TodoSound'
    BY <1>1, <1>4, SameHeap
  <1>8. PassSound'
    BY <1>1, <1>4 DEF PassSound, GCInv
  <1> QED
    BY <1>5, <1>6, <1>7, <1>8 DEF GCInv

\* Somebody calls collectGarbage(), or the threads go on without it.
LEMMA CallersMove ==
    ASSUME GCInv, UNCHANGED <<G!heapVars, todo, lock, collecting, pass>>,
           \/ at' = at
           \/ \E c \in G!Callers : at[c] = "idle" /\ G!Goes(c, "call"),
           gcState' \in {"NotStarted", "Started", "Stopping", "Stopped"},
           gcThread' \in {"new", "top", "wait", "collect", "exit"},
           destroyer' \in {"idle", "stop", "notify", "join", "collect", "done"},
           gcThread' # "collect" => at'["thread"] = "idle",
           destroyer' # "collect" => at'["destroy"] = "idle"
    PROVE  GCInv'
  <1>1. /\ at \in [G!Callers -> {"idle", "call", "lock", "count", "trace", "clear", "delete", "flag", "unlock"}]
        /\ OneHolds /\ G!Nobody \notin G!Callers /\ lock \in G!Callers \cup {G!Nobody}
    BY CollectorAssumption DEF GCInv, G!TypeOK, G!Nobody, G!Callers
  <1>2. "idle" \notin Holding /\ "idle" \notin Busy /\ "call" \notin Holding /\ "call" \notin Busy
    BY DEF Holding, Busy
  <1>3. /\ at' \in [G!Callers -> {"idle", "call", "lock", "count", "trace", "clear", "delete", "flag", "unlock"}]
        /\ \A d \in G!Callers : at'[d] = at[d] \/ (at[d] = "idle" /\ at'[d] = "call")
    BY <1>1 DEF G!Goes
  <1>4. \A d \in G!Callers : (at'[d] \in Holding <=> at[d] \in Holding)
            /\ (at'[d] \in Busy <=> at[d] \in Busy)
    BY <1>2, <1>3
  <1>5. OneHolds'
    BY <1>1, <1>4 DEF OneHolds
  <1>6. Phase' = Phase
    <2>1. lock \in G!Callers => at'[lock] = at[lock]
      BY <1>1, <1>2, <1>3 DEF OneHolds
    <2> QED
      BY <1>1, <2>1 DEF Phase
  <1>7. Doomed' = Doomed
    BY <1>6 DEF Doomed
  <1>8. G!TypeOK'
    BY <1>3 DEF GCInv, G!TypeOK, G!heapVars
  <1> QED
    BY <1>5, <1>6, <1>7, <1>8, SameHeap, SamePass DEF GCInv

\* run() and destroy() of the last communicator.
LEMMA ThreadsKeep ==
    ASSUME GCInv, (\E u \in Users : G!UserCollects(u)) \/ G!ThreadStep \/ G!Destroy
               \/ G!DestroyStep
    PROVE  GCInv'
  <1>1. /\ gcState \in {"NotStarted", "Started", "Stopping", "Stopped"}
        /\ gcThread \in {"new", "top", "wait", "collect", "exit"}
        /\ destroyer \in {"idle", "stop", "notify", "join", "collect", "done"}
        /\ at \in [G!Callers -> {"idle", "call", "lock", "count", "trace", "clear", "delete", "flag", "unlock"}]
        /\ (gcThread # "collect" => at["thread"] = "idle")
        /\ (destroyer # "collect" => at["destroy"] = "idle")
        /\ "thread" \in G!Callers /\ "destroy" \in G!Callers /\ Users \subseteq G!Callers
        /\ "thread" \notin Users /\ "destroy" \notin Users
    BY CollectorAssumption DEF GCInv, G!TypeOK, OneHolds, G!Callers
  <1>2. ASSUME NEW u \in Users, G!UserCollects(u) PROVE GCInv'
    <2>1. /\ at[u] = "idle" /\ G!Goes(u, "call")
          /\ UNCHANGED <<G!heapVars, lock, collecting, pass, todo, gcState, gcThread, destroyer>>
      BY <1>2 DEF G!UserCollects, G!Quiet, G!runVars
    <2>2. at'["thread"] = at["thread"] /\ at'["destroy"] = at["destroy"]
      BY <1>1, <2>1 DEF G!Goes
    <2> QED
      BY <1>1, <2>1, <2>2, CallersMove
  <1>3. CASE G!Started
    <2>1. gcThread = "new" /\ gcThread' = "top" /\ gcState' = "Started"
              /\ UNCHANGED <<G!heapVars, todo, lock, collecting, pass, at, destroyer>>
      BY <1>3 DEF G!Started, G!Calm
    <2> QED
      BY <1>1, <2>1, CallersMove
  <1>4. CASE G!LoopTop
    <2>1. /\ gcThread = "top" /\ gcThread' \in {"exit", "wait"}
          /\ gcState' \in {"Stopped", gcState}
          /\ UNCHANGED <<G!heapVars, todo, lock, collecting, pass, at, destroyer>>
      BY <1>4 DEF G!LoopTop, G!Calm
    <2> QED
      BY <1>1, <2>1, CallersMove
  <1>5. CASE G!WaitTimeout
    <2>1. /\ gcThread = "wait" /\ gcThread' = "collect" /\ G!Goes("thread", "call")
          /\ UNCHANGED <<G!heapVars, todo, lock, collecting, pass, gcState, destroyer>>
      BY <1>5 DEF G!WaitTimeout, G!Calm
    <2>2. at'["destroy"] = at["destroy"]
      BY <1>1, <2>1 DEF G!Goes
    <2> QED
      BY <1>1, <2>1, <2>2, CallersMove
  <1>6. CASE G!Collected
    <2>1. /\ at["thread"] = "idle" /\ gcThread' = "top"
          /\ UNCHANGED <<G!heapVars, todo, lock, collecting, pass, at, gcState, destroyer>>
      BY <1>6 DEF G!Collected, G!Calm
    <2> QED
      BY <1>1, <2>1, CallersMove
  <1>7. CASE G!Destroy \/ G!Stop
    <2>1. /\ destroyer # "collect" /\ destroyer' \in {"stop", "notify"}
          /\ UNCHANGED <<G!heapVars, todo, lock, collecting, pass, at, gcState, gcThread>>
      BY <1>7 DEF G!Destroy, G!Stop, G!Calm
    <2> QED
      BY <1>1, <2>1, CallersMove
  <1>8. CASE G!StopNotify
    <2>1. /\ destroyer = "notify" /\ destroyer' = "join" /\ gcState' = "Stopping"
          /\ gcThread' \in {"top", gcThread}
          /\ (gcThread' # "collect" => gcThread # "collect")
          /\ UNCHANGED <<G!heapVars, todo, lock, collecting, pass, at>>
      BY <1>8 DEF G!StopNotify, G!Calm
    <2> QED
      BY <1>1, <2>1, CallersMove
  <1>9. CASE G!StopJoin
    <2>1. /\ destroyer = "join" /\ destroyer' = "collect" /\ G!Goes("destroy", "call")
          /\ UNCHANGED <<G!heapVars, todo, lock, collecting, pass, gcState, gcThread>>
      BY <1>9 DEF G!StopJoin, G!Calm
    <2>2. at'["thread"] = at["thread"]
      BY <1>1, <2>1 DEF G!Goes
    <2> QED
      BY <1>1, <2>1, <2>2, CallersMove
  <1>10. CASE G!DestroyEnd
    <2>1. /\ at["destroy"] = "idle" /\ destroyer' = "done"
          /\ UNCHANGED <<G!heapVars, todo, lock, collecting, pass, at, gcState, gcThread>>
      BY <1>10 DEF G!DestroyEnd
    <2> QED
      BY <1>1, <2>1, CallersMove
  <1> QED
    BY <1>2, <1>3, <1>4, <1>5, <1>6, <1>7, <1>8, <1>9, <1>10 DEF G!ThreadStep, G!DestroyStep

\* Every step keeps the invariant.
LEMMA CollectorKeeps == ASSUME GCInv, G!Next PROVE GCInv'
  <1>1. ASSUME NEW h \in G!Handles, NEW g \in G!Handles, G!Assign(h, G!Value(g)) PROVE GCInv'
    <2>1. PICK o \in Instances \cup {Null} : o = G!Value(g)
      BY HandleIs
    <2>2. G!Assign(h, o)
      BY <1>1, <2>1
    <2> QED
      BY <2>1, <2>2, AssignKeeps
  <1>2. ASSUME NEW h \in G!Handles, G!Assign(h, Null) PROVE GCInv'
    BY <1>2, AssignKeeps
  <1>3. ASSUME NEW h \in G!Handles, NEW o \in Instances, G!New(h, o) PROVE GCInv'
    BY <1>3, NewKeeps
  <1>4. ASSUME G!ProgramStep PROVE GCInv'
    BY <1>4, IncRefKeeps, StoreKeeps, DecRefKeeps, DeleteKeeps DEF G!ProgramStep
  <1>5. ASSUME NEW c \in G!Callers, G!CollectorStep(c) PROVE GCInv'
    BY <1>5, EnterKeeps, LockKeeps, CountHandlesKeeps, CountEndKeeps, TraceKeeps,
       TraceEndKeeps, ClearKeeps,
       DeleteGarbageKeeps, NotCollectingKeeps, UnlockKeeps DEF G!CollectorStep
  <1> QED
    BY <1>1, <1>2, <1>3, <1>4, <1>5, ThreadsKeep DEF G!Next

\* The collector's variables do not change.
LEMMA CollectorRests == ASSUME GCInv, UNCHANGED G!vars PROVE GCInv'
  <1>1. UNCHANGED <<G!heapVars, todo, lock, collecting, pass, at, gcState, gcThread, destroyer>>
    BY DEF G!vars, G!runVars
  <1>2. /\ gcState \in {"NotStarted", "Started", "Stopping", "Stopped"}
        /\ gcThread \in {"new", "top", "wait", "collect", "exit"}
        /\ destroyer \in {"idle", "stop", "notify", "join", "collect", "done"}
        /\ (gcThread # "collect" => at["thread"] = "idle")
        /\ (destroyer # "collect" => at["destroy"] = "idle")
    BY DEF GCInv, G!TypeOK, OneHolds
  <1> QED
    BY <1>1, <1>2, CallersMove

\* What can be got at is alive: instances that are not being deleted are closed under members.
LEMMA NothingLiveIsDeleted == ASSUME GCInv PROVE G!NothingLiveDeleted
  <1>1. PICK T : T = {o \in Instances : Sound(o)}
    OBVIOUS
  <1>2. /\ Null \notin Instances /\ HeapSound /\ TodoSound
        /\ member \in [Instances -> Instances \cup {Null}]
        /\ local \in [Locals -> Instances \cup {Null}]
    BY HeapTypes DEF GCInv
  <1>3. G!Closed(T)
    BY <1>1, <1>2 DEF G!Closed, HeapSound
  <1>4. \A l \in Locals : local[l] # Null => local[l] \in T
    BY <1>1, <1>2 DEF HeapSound
  <1>5. \A o \in G!Assigned : o # Null => o \in T
    <2> SUFFICES ASSUME NEW o \in G!Assigned, o # Null PROVE o \in T
      OBVIOUS
    <2>1. o \in NamedIn(todo, "inc") \cup NamedIn(todo, "store")
      BY DEF G!Assigned, NamedIn
    <2>2. CASE todo = <<>>
      BY <2>1, <2>2, NothingNamed
    <2>3. CASE \E h \in G!Handles, x \in Instances :
                 /\ todo = IncPlan(h, x, G!Value(h)) /\ G!Value(h) # x
                 /\ Fresh(x) \/ \E g \in G!Handles : G!Value(g) = x
      <3>1. PICK h \in G!Handles, x \in Instances :
                 /\ todo = IncPlan(h, x, G!Value(h)) /\ G!Value(h) # x
                 /\ Fresh(x) \/ \E g \in G!Handles : G!Value(g) = x
        BY <2>3
      <3>2. x = o
        BY <2>1, <3>1, IncPlanNames
      <3>3. Sound(x)
        BY <1>2, <3>1, HandleIs DEF Fresh
      <3> QED
        BY <1>1, <3>2, <3>3
    <2>4. CASE \E h \in G!Handles, x \in Instances \cup {Null} :
                 /\ todo = Plan(h, x, G!Value(h)) /\ G!Value(h) # x
                 /\ x # Null => Sound(x)
      <3>1. PICK h \in G!Handles, x \in Instances \cup {Null} :
                 /\ todo = Plan(h, x, G!Value(h)) /\ G!Value(h) # x
                 /\ x # Null => Sound(x)
        BY <2>4
      <3>2. x = o
        BY <2>1, <3>1, PlanNames
      <3> QED
        BY <1>1, <3>1, <3>2
    <2>5. CASE \E v \in Instances : todo = <<Dec(v)>> \/ todo = <<Del(v)>>
      BY <2>1, <2>5, DecNames, DelNames
    <2> QED
      BY <1>2, <2>2, <2>3, <2>4, <2>5 DEF TodoSound
  <1>6. ({local[l] : l \in Locals} \cup G!Assigned) \ {Null} \subseteq T
    BY <1>4, <1>5
  <1>7. T \in SUBSET Instances
    BY <1>1
  <1>8. G!Reachable \subseteq T
    BY <1>3, <1>6, <1>7 DEF G!Reachable, G!ReachableFrom
  <1> QED
    BY <1>1, <1>8 DEF G!NothingLiveDeleted, Sound

\* What was lost when a collection began is not traced, and so is left to be deleted.
LEMMA AllIsCollected == ASSUME GCInv PROVE G!CollectsAll
  <1> SUFFICES ASSUME NEW c \in G!Callers, at[c] = "clear" PROVE pass.lost \subseteq pass.left
    BY DEF G!CollectsAll
  <1>1. Phase = "clear"
    BY PhaseIs DEF Holding
  <1> QED
    BY <1>1 DEF GCInv, PassSound, LostSound, TraceSound

\* Nothing is doomed unless somebody deletes.
LEMMA NotDeleting ==
    ASSUME GCInv, \A c \in G!Callers : at[c] # "delete"
    PROVE  Doomed = {} /\ \A o : Sound(o) <=> heap[o] = "live"
  <1>1. Phase # "delete"
    BY DEF Phase, GCInv, G!TypeOK
  <1> QED
    BY <1>1 DEF Doomed, Sound

\* A step occurs once in what is to do.
LEMMA StepsOnce ==
    ASSUME NEW t, Planned(t)
    PROVE  \A i, j \in DOMAIN t : t[i].op = t[j].op => i = j
  <1>0. PICK h, o, v : t \in {<<>>, <<Dec(v)>>, <<Del(v)>>, Plan(h, o, v), IncPlan(h, o, v)}
    BY DEF Planned
  <1>1. Inc(o).op = "inc" /\ St(h, o).op = "store" /\ Dec(v).op = "dec" /\ Del(v).op = "delete"
    BY DEF Inc, St, Dec, Del, G!Step
  <1>2. CASE t \in {<<>>, <<Dec(v)>>, <<Del(v)>>, <<St(h, o)>>}
    <2>1. \A i, j \in DOMAIN t : i = j
      BY <1>2
    <2> QED
      BY <2>1
  <1>3. ASSUME NEW a, NEW b, a.op # b.op, t = <<a, b>> PROVE \A i,
                   j \in DOMAIN t : t[i].op = t[j].op => i = j
    <2>1. DOMAIN t = {1, 2} /\ t[1] = a /\ t[2] = b
      BY <1>3
    <2> QED
      BY <1>3, <2>1
  <1>4. ASSUME NEW a, NEW b, NEW c, a.op # b.op, a.op # c.op, b.op # c.op, t = <<a, b, c>>
        PROVE  \A i, j \in DOMAIN t : t[i].op = t[j].op => i = j
    <2>1. DOMAIN t = {1, 2, 3} /\ t[1] = a /\ t[2] = b /\ t[3] = c
      BY <1>4
    <2> QED
      BY <1>4, <2>1
  <1>5. CASE t = <<St(h, o), Dec(v)>>
    BY <1>1, <1>3, <1>5
  <1>6. CASE t = <<Inc(o), St(h, o)>>
    BY <1>1, <1>3, <1>6
  <1>7. CASE t = <<Inc(o), St(h, o), Dec(v)>>
    BY <1>1, <1>4, <1>7
  <1> QED
    BY <1>0, <1>2, <1>5, <1>6, <1>7 DEF Plan, IncPlan

\* How often a step is to do.
LEMMA PendingIs ==
    ASSUME GCInv, NEW op, NEW o
    PROVE  G!Pending(op, o) = Bit(o \in Named(op))
  <1>1. Planned(todo)
    BY DEF GCInv, TodoSound, Planned
  <1>2. \A i, j \in DOMAIN todo : todo[i].op = todo[j].op => i = j
    BY <1>1, StepsOnce
  <1>3. PICK I : I = {i \in DOMAIN todo : todo[i].op = op /\ todo[i].o = o}
    OBVIOUS
  <1>4. CASE o \in Named(op)
    <2>1. PICK i \in I : TRUE
      BY <1>3, <1>4 DEF Named, NamedIn
    <2>2. I = {i}
      BY <1>2, <1>3, <2>1
    <2>3. Cardinality(I) = 1
      BY <2>2, FS_Singleton
    <2> QED
      BY <1>3, <1>4, <2>3, SameCardinality DEF G!Pending, Bit
  <1>5. CASE o \notin Named(op)
    <2>1. I = {}
      BY <1>3, <1>5 DEF Named, NamedIn
    <2>2. Cardinality(I) = 0
      BY <2>1, FS_EmptySet
    <2> QED
      BY <1>3, <1>5, <2>2, SameCardinality DEF G!Pending, Bit
  <1> QED
    BY <1>4, <1>5

\* What is to be counted is to be assigned.
LEMMA IncIsStored == ASSUME GCInv PROVE Named("inc") \subseteq Named("store")
  <1>1. \E h, x, v : todo \in {<<>>, <<Dec(v)>>, <<Del(v)>>, Plan(h, x, v), IncPlan(h, x, v)}
    BY DEF GCInv, TodoSound
  <1>2. PICK h, x, v : todo \in {<<>>, <<Dec(v)>>, <<Del(v)>>, Plan(h, x, v), IncPlan(h, x, v)}
    BY <1>1
  <1>3. CASE todo = IncPlan(h, x, v)
    BY <1>3, IncPlanNames DEF Named
  <1>4. CASE todo # IncPlan(h, x, v)
    BY <1>2, <1>4, NothingNamed, DecNames, DelNames, PlanNames DEF Named
  <1> QED
    BY <1>3, <1>4

\* Counts are the handles there are, with the changes that are still to be made.
LEMMA CountsAreHandles == ASSUME GCInv PROVE G!CountsHandles
  <1> SUFFICES ASSUME \A c \in G!Callers : at[c] # "delete", NEW o \in Instances, heap[o] = "live"
               PROVE  ref[o] = Cardinality({l \in Locals : local[l] = o})
                     + Cardinality({p \in Instances : heap[p] = "live" /\ member[p] = o})
                     + G!Pending("store", o) - G!Pending("inc", o)
                     + (IF \E i \in DOMAIN todo : todo[i].op = "store" THEN 0
                        ELSE G!Pending("dec", o))
    BY SameCardinality DEF G!CountsHandles
  <1>1. Sound(o) /\ \A p : Sound(p) <=> heap[p] = "live"
    BY NotDeleting
  <1>2. ref[o] = Cardinality(Held(o)) + Cardinality(Members(o)) + Bit(Added(o)) + Bit(Owed(o))
    BY <1>1 DEF GCInv, Counted
  <1>3. {l \in Locals : local[l] = o} = Held(o)
    BY DEF Held
  <1>4. {p \in Instances : heap[p] = "live" /\ member[p] = o} = Members(o)
    <2>1. \A p \in Instances : member[p] = o => heap[p] = "live"
      BY <1>1, HeapTypes DEF GCInv, HeapSound
    <2> QED
      BY <2>1 DEF Members
  <1>5. /\ G!Pending("store", o) = Bit(o \in Named("store"))
        /\ G!Pending("inc", o) = Bit(o \in Named("inc"))
        /\ G!Pending("dec", o) = Bit(o \in Named("dec"))
    BY PendingIs
  <1>6. (\E i \in DOMAIN todo : todo[i].op = "store") <=> Storing(todo)
    BY DEF Storing, NamedIn
  <1>7. Bit(Added(o)) = Bit(o \in Named("store")) - Bit(o \in Named("inc"))
    <2>1. o \in Named("inc") => o \in Named("store")
      BY IncIsStored
    <2>2. Added(o) <=> o \in Named("store") /\ o \notin Named("inc")
      BY DEF Added, AddedIn, Named
    <2> QED
      BY <2>1, <2>2 DEF Bit
  <1>8. Bit(Owed(o)) = IF Storing(todo) THEN 0 ELSE Bit(o \in Named("dec"))
    BY DEF Owed, OwedIn, Named, Bit
  <1>9. Cardinality(Held(o)) \in Nat /\ Cardinality(Members(o)) \in Nat
    BY HeldFinite
  <1>10. Bit(o \in Named("store")) \in Nat /\ Bit(o \in Named("inc")) \in Nat
             /\ Bit(Owed(o)) \in Nat
    BY DEF Bit
  <1>11. PICK h, m, s, i, d, w :
            /\ h = Cardinality(Held(o)) /\ m = Cardinality(Members(o))
            /\ s = G!Pending("store", o) /\ i = G!Pending("inc", o)
            /\ d = (IF \E k \in DOMAIN todo : todo[k].op = "store" THEN 0
                   ELSE G!Pending("dec", o))
            /\ w = Bit(Owed(o))
    OBVIOUS
  <1>12. d = w /\ h \in Nat /\ m \in Nat /\ s \in Nat /\ i \in Nat /\ w \in Nat
    BY <1>5, <1>6, <1>8, <1>9, <1>10, <1>11
  <1>13. ref[o] = h + m + (s - i) + w
    BY <1>2, <1>5, <1>7, <1>11
  <1>14. ref[o] = h + m + s - i + d
    BY ONLY <1>12, <1>13
  <1> QED
    BY <1>3, <1>4, <1>11, <1>14

\* Candidates are the instances with references.
LEMMA CandidatesAreExact == ASSUME GCInv PROVE G!CandidatesExact
  <1>1. ASSUME \A c \in G!Callers : at[c] # "delete"
        PROVE  gcObjects = {o \in Instances : heap[o] = "live" /\ ref[o] > 0}
    <2>1. \A o : Sound(o) <=> heap[o] = "live"
      BY <1>1, NotDeleting
    <2> QED
      BY <2>1, HeapTypes DEF GCInv, HeapSound
  <1>2. ASSUME NEW c \in G!Callers, at[c] = "trace"
        PROVE  pass.left \cup pass.live \subseteq DOMAIN pass.counts
    <2>1. Phase = "trace"
      BY <1>2, PhaseIs DEF Holding
    <2> QED
      BY <2>1 DEF GCInv, PassSound, TraceSound, Traced, Cand
  <1> QED
    BY <1>1, <1>2 DEF G!CandidatesExact

\* _collecting is set while somebody collects.
LEMMA OneCollects == ASSUME GCInv PROVE G!OneCollector
  <1> SUFFICES ASSUME NEW c \in G!Callers, NEW d \in G!Callers, c # d,
                          at[c] \notin {"idle", "call"},
                      at[d] \notin {"idle", "call"}, at[c] # "unlock", at[d] # "unlock"
               PROVE  FALSE
    BY DEF G!OneCollector
  <1>1. at \in [G!Callers -> {"idle", "call", "lock", "count", "trace", "clear", "delete", "flag", "unlock"}]
    BY DEF GCInv, G!TypeOK
  <1>2. at[c] \in Busy /\ at[d] \in Busy
    BY <1>1 DEF Busy
  <1> QED
    BY <1>2 DEF GCInv, OneHolds

-----------------------------------------------------------------------------
(* The theorems *)

\* GCInv is an inductive invariant of the heap and its collector.
THEOREM CollectorInductive == RuntimeSpec => []GCInv
  <1>1. RuntimeInit => GCInv
    BY CollectorBegins DEF RuntimeInit
  <1>2. GCInv /\ [RuntimeNext]_allVars => GCInv'
    <2> SUFFICES ASSUME GCInv, [RuntimeNext]_allVars PROVE GCInv'
      OBVIOUS
    <2>1. G!Next \/ UNCHANGED gcVars
      BY DEF RuntimeNext, allVars
    <2>2. CASE G!Next
      BY <2>2, CollectorKeeps
    <2>3. CASE UNCHANGED gcVars
      <3>1. UNCHANGED G!vars
        BY <2>3 DEF gcVars, G!vars, G!heapVars, G!runVars
      <3> QED
        BY <3>1, CollectorRests
    <2> QED
      BY <2>1, <2>2, <2>3
  <1> QED
    BY <1>1, <1>2, PTL DEF RuntimeSpec

\* collectGarbage(), __incRef(), __decRef() and the assignment of handles: no instance that
\* the program can get at is deleted, although members are read while they are assigned; a
\* collection deletes all garbage that there was when it began; counts count handles and
\* candidates are the instances with references; one caller collects.
THEOREM CollectorIsExact == RuntimeSpec => []CollectorExact
  <1>1. GCInv => CollectorExact
    BY NothingLiveIsDeleted, AllIsCollected, CountsAreHandles, CandidatesAreExact, OneCollects
       DEF CollectorExact, GCInv
  <1> QED
    BY <1>1, CollectorInductive, PTL
=============================================================================
