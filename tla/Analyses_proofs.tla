--------------------------- MODULE Analyses_proofs ---------------------------
(***************************************************************************)
(* Proofs about the analyses of every scope, however many continuations it *)
(* has, and however they jump.                                             *)
(***************************************************************************)
EXTENDS Analyses, Dominance_proofs

-----------------------------------------------------------------------------
(* The components of walk_scc.                                             *)

(* What n leads to, and the component of n.                                *)
From(e, n)      == Closure(e, {n})
Component(e, n) == {m \in From(e, n) : n \in From(e, m)}

(* What a node leads to is closed, and the least such set that has it.     *)
LEMMA FromFacts ==
  ASSUME NEW N \in SUBSET Nodes, NEW e \in [N -> SUBSET N]
  PROVE  /\ \A n \in N : From(e, n) \in SUBSET N /\ n \in From(e, n) /\ e[n] \subseteq From(e, n)
         /\ \A n \in N : \A m \in From(e, n) : e[m] \subseteq From(e, n) /\ From(e, m) \subseteq From(e, n)
         /\ \A n \in N : \A T : n \in T /\ (\A m \in T \cap N : e[m] \subseteq T) => From(e, n) \subseteq T
<1>1. ASSUME NEW n \in N
      PROVE  /\ From(e, n) \in SUBSET N /\ n \in From(e, n)
             /\ \A m \in From(e, n) : e[m] \subseteq From(e, n)
             /\ \A T : n \in T /\ (\A m \in T \cap N : e[m] \subseteq T) => From(e, n) \subseteq T
  <2>1. {n} \in SUBSET N
    OBVIOUS
  <2>2. /\ Closure(e, {n}) \in SUBSET N /\ {n} \subseteq Closure(e, {n})
        /\ \A m \in Closure(e, {n}) : e[m] \subseteq Closure(e, {n})
        /\ \A T : {n} \subseteq T /\ (\A m \in T \cap N : e[m] \subseteq T) => Closure(e, {n}) \subseteq T
    BY <2>1, ClosureFacts
  <2> QED BY <2>2 DEF From
<1> QED BY <1>1

(* Components are alike or apart, and what n leads to has all of n's.      *)
LEMMA ComponentFacts ==
  ASSUME NEW N \in SUBSET Nodes, NEW e \in [N -> SUBSET N], NEW n \in N
  PROVE  /\ n \in Component(e, n) /\ Component(e, n) \in SUBSET N
         /\ \A m \in Component(e, n) : Component(e, m) = Component(e, n) /\ From(e, m) = From(e, n)
         /\ \A m \in From(e, n) : Component(e, m) \subseteq From(e, n)
<1>1. /\ From(e, n) \in SUBSET N /\ n \in From(e, n)
      /\ \A m \in N : From(e, m) \in SUBSET N /\ \A x \in From(e, m) : From(e, x) \subseteq From(e, m)
  BY FromFacts
<1>2. \A m \in Component(e, n) : m \in From(e, n) /\ n \in From(e, m) /\ m \in N
  BY <1>1 DEF Component
<1>3. \A m \in Component(e, n) : From(e, m) = From(e, n)
  BY <1>1, <1>2
<1>4. ASSUME NEW m \in Component(e, n) PROVE Component(e, m) = Component(e, n)
  <2>1. \A x \in N : m \in From(e, x) <=> n \in From(e, x)
    BY <1>1, <1>2
  <2> QED BY <1>1, <1>3, <2>1 DEF Component
<1> QED BY <1>1, <1>3, <1>4 DEF Component

(* What a walk has found of a component of which it has taken n.           *)
Child(g, e, n) == [leaf |-> Single(e, Component(e, n), n), cf_nodes |-> Entered(g, Component(e, n))]

(* Nodes are called and pushed in the order of their numbers.              *)
Pushed(N, e, root, w) ==
  /\ w.set \in SUBSET From(e, root) /\ w.stack \in SUBSET w.set /\ w.calls \in SUBSET w.stack
  /\ root \in w.set
  /\ w.dfs \in [Nodes -> Nat] /\ w.low \in [Nodes -> Nat]
  /\ \A n \in w.set : w.dfs[n] < Cardinality(w.set)
  /\ \A m, n \in w.set : w.dfs[m] = w.dfs[n] => m = n

(* The edges of a call are still to be looked at, or lead to a node that   *)
(* was numbered and has lowered the link; taken nodes lead to taken ones.  *)
Looked(N, e, w) ==
  /\ \A a, b : <<a, b>> \in w.todo => a \in N /\ b \in e[a] /\ (a \in w.set => a \in w.calls)
  /\ \A a \in N \ w.set, b \in N : b \in e[a] => <<a, b>> \in w.todo
  /\ \A a \in w.set, b \in N : b \in e[a] /\ <<a, b>> \notin w.todo =>
       b \in w.set /\ (a \in w.stack /\ b \in w.stack => w.low[a] <= w.dfs[b])
  /\ \A a \in w.set \ w.stack : e[a] \subseteq w.set \ w.stack

(* A low link is the number of a node on the stack that is reached; those  *)
(* of nodes that are done are before them.                                 *)
Lowered(e, w) ==
  /\ \A n \in w.stack : w.low[n] <= w.dfs[n] /\ \E m \in w.stack : m \in From(e, n) /\ w.dfs[m] = w.low[n]
  /\ \A n \in w.stack \ w.calls : w.low[n] < w.dfs[n]

(* A call leads to what was numbered since, and its low link is no higher  *)
(* than those of the nodes on the stack between it and the next call.      *)
Called(e, w) ==
  /\ \A c \in w.calls, n \in w.set : w.dfs[c] <= w.dfs[n] => n \in From(e, c)
  /\ \A n \in w.stack : \E c \in w.calls : w.dfs[c] <= w.dfs[n]
  /\ \A c \in w.calls, n \in w.stack :
       w.dfs[c] <= w.dfs[n] /\ (\A d \in w.calls : w.dfs[d] <= w.dfs[n] => w.dfs[d] <= w.dfs[c])
         => w.low[c] <= w.low[n]

Walking(g, N, e, root, w) ==
  /\ Pushed(N, e, root, w) /\ Looked(N, e, w) /\ Lowered(e, w) /\ Called(e, w)
  /\ w.children = {Child(g, e, n) : n \in w.set \ w.stack}

(* The last call there is.                                                 *)
LEMMA LastOfFacts ==
  ASSUME NEW w, NEW S, S # {}, NEW k \in Nat, \A n \in S : w.dfs[n] \in Nat /\ w.dfs[n] < k
  PROVE  LastOf(w, S) \in S /\ \A m \in S : w.dfs[m] <= w.dfs[LastOf(w, S)]
<1> DEFINE T == {k - w.dfs[n] : n \in S}
<1>1. T \in SUBSET Nat /\ T # {}
  OBVIOUS
<1> HIDE DEF T
<1>2. PICK x \in T : \A y \in T : x <= y
  BY <1>1, LeastNumber
<1>3. PICK n \in S : x = k - w.dfs[n]
  BY DEF T
<1>4. ASSUME NEW m \in S PROVE w.dfs[m] <= w.dfs[n]
  <2>1. k - w.dfs[n] <= k - w.dfs[m]
    BY <1>2, <1>3 DEF T
  <2>2. w.dfs[n] \in Nat /\ w.dfs[m] \in Nat
    OBVIOUS
  <2> QED BY <2>1, <2>2
<1> QED BY <1>4 DEF LastOf

(* What the nodes of a walk are.                                           *)
LEMMA PushedFacts ==
  ASSUME NEW N \in SUBSET Nodes, NEW e \in [N -> SUBSET N], NEW root \in N, NEW w, Pushed(N, e, root, w)
  PROVE  /\ w.set \in SUBSET N /\ IsFiniteSet(w.set) /\ Cardinality(w.set) \in Nat
         /\ \A n \in w.set : n \in N /\ n \in Nodes /\ w.dfs[n] \in Nat /\ w.low[n] \in Nat
         /\ w.calls # {} => /\ LastOf(w, w.calls) \in w.calls
                            /\ \A c \in w.calls : w.dfs[c] <= w.dfs[LastOf(w, w.calls)]
<1>1. w.set \in SUBSET N
  BY FromFacts DEF Pushed
<1>2. IsFiniteSet(w.set) /\ Cardinality(w.set) \in Nat
  BY <1>1, SomeNodes
<1>3. \A n \in w.set : n \in N /\ n \in Nodes /\ w.dfs[n] \in Nat /\ w.low[n] \in Nat /\ w.dfs[n] < Cardinality(w.set)
  BY <1>1 DEF Pushed
<1>4. ASSUME w.calls # {}
      PROVE  LastOf(w, w.calls) \in w.calls /\ \A c \in w.calls : w.dfs[c] <= w.dfs[LastOf(w, w.calls)]
  <2>1. \A c \in w.calls : w.dfs[c] \in Nat /\ w.dfs[c] < Cardinality(w.set)
    BY <1>3 DEF Pushed
  <2> QED BY <1>2, <1>4, <2>1, LastOfFacts
<1> QED BY <1>1, <1>2, <1>3, <1>4

(* An edge to a node without a number: it is called.                       *)
LEMMA WalkVisits ==
  ASSUME NEW g, NEW N \in SUBSET Nodes, NEW e \in [N -> SUBSET N], NEW root \in N, NEW w,
         Walking(g, N, e, root, w),
         NEW c \in w.calls, \A d \in w.calls : w.dfs[d] <= w.dfs[c],
         NEW s, <<c, s>> \in w.todo, s \notin w.set,
         NEW v, v.set = w.set \cup {s}, v.calls = w.calls \cup {s}, v.stack = w.stack \cup {s},
         v.dfs = [w.dfs EXCEPT ![s] = Cardinality(w.set)], v.low = [w.low EXCEPT ![s] = Cardinality(w.set)],
         v.todo = w.todo \ {<<c, s>>}, v.children = w.children
  PROVE  Walking(g, N, e, root, v)
<1> DEFINE k == Cardinality(w.set)
<1>1. /\ w.set \in SUBSET N /\ IsFiniteSet(w.set) /\ k \in Nat
      /\ \A n \in w.set : n \in N /\ n \in Nodes /\ w.dfs[n] \in Nat /\ w.low[n] \in Nat /\ w.dfs[n] < k
      /\ w.calls \subseteq w.stack /\ w.stack \subseteq w.set
      /\ w.dfs \in [Nodes -> Nat] /\ w.low \in [Nodes -> Nat]
  BY PushedFacts DEF Walking, Pushed
<1>2. c \in N /\ s \in e[c] /\ s \in N /\ s \in Nodes
  <2>1. c \in N /\ s \in e[c]
    BY DEF Walking, Looked
  <2> QED BY <2>1
<1>3. Cardinality(v.set) = k + 1
  <2> DEFINE S == w.set
  <2>1. IsFiniteSet(S) /\ s \notin S /\ v.set = S \cup {s}
    BY <1>1
  <2> HIDE DEF S
  <2>2. Cardinality(S \cup {s}) = Cardinality(S) + 1
    BY <2>1, FS_AddElement
  <2> QED BY <2>1, <2>2 DEF S
<1> HIDE DEF k
<1>4. /\ \A n \in w.set : v.dfs[n] = w.dfs[n] /\ v.low[n] = w.low[n] /\ n # s
      /\ v.dfs[s] = k /\ v.low[s] = k
  BY <1>1, <1>2 DEF k
<1>5. /\ \A n \in N : n \in From(e, n) /\ e[n] \subseteq From(e, n)
      /\ \A n \in N : \A m \in From(e, n) : From(e, m) \subseteq From(e, n)
  BY FromFacts
<1>6. Pushed(N, e, root, v)
  <2>1. s \in From(e, root)
    <3>1. c \in From(e, root)
      BY DEF Walking, Pushed
    <3> QED BY <1>2, <1>5, <3>1
  <2>2. v.set \in SUBSET From(e, root) /\ v.stack \in SUBSET v.set /\ v.calls \in SUBSET v.stack /\ root \in v.set
    BY <2>1 DEF Walking, Pushed
  <2>3. v.dfs \in [Nodes -> Nat] /\ v.low \in [Nodes -> Nat]
    BY <1>1, <1>2 DEF k
  <2>4. \A n \in v.set : v.dfs[n] < k + 1
    BY <1>1, <1>4
  <2>5. \A m, n \in v.set : v.dfs[m] = v.dfs[n] => m = n
    <3>1. \A m, n \in w.set : w.dfs[m] = w.dfs[n] => m = n
      BY DEF Walking, Pushed
    <3>2. \A m \in w.set : v.dfs[m] # k
      BY <1>1, <1>4
    <3> QED BY <1>4, <3>1, <3>2
  <2> QED BY <1>3, <2>2, <2>3, <2>4, <2>5 DEF Pushed
<1>7. Looked(N, e, v)
  <2>1. \A a, b : <<a, b>> \in v.todo => a \in N /\ b \in e[a] /\ (a \in v.set => a \in v.calls)
    BY DEF Walking, Looked
  <2>2. \A a \in N \ v.set, b \in N : b \in e[a] => <<a, b>> \in v.todo
    BY <1>1 DEF Walking, Looked
  <2>3. ASSUME NEW a \in v.set, NEW b \in N, b \in e[a], <<a, b>> \notin v.todo
        PROVE  b \in v.set /\ (a \in v.stack /\ b \in v.stack => v.low[a] <= v.dfs[b])
    <3>1. CASE a = c /\ b = s
      <4>1. w.low[c] <= w.dfs[c]
        BY <1>1 DEF Walking, Lowered
      <4> QED BY <1>1, <1>4, <3>1, <4>1
    <3>2. CASE ~(a = c /\ b = s)
      <4>1. <<a, b>> \notin w.todo
        BY <2>3, <3>2
      <4>2. a # s
        BY <1>2, <2>3, <4>1 DEF Walking, Looked
      <4>3. a \in w.set
        BY <4>2
      <4>4. b \in w.set /\ (a \in w.stack /\ b \in w.stack => w.low[a] <= w.dfs[b])
        BY <2>3, <4>1, <4>3 DEF Walking, Looked
      <4> QED BY <1>4, <4>2, <4>3, <4>4
    <3> QED BY <3>1, <3>2
  <2>4. \A a \in v.set \ v.stack : e[a] \subseteq v.set \ v.stack
    BY DEF Walking, Looked
  <2> QED BY <2>1, <2>2, <2>3, <2>4 DEF Looked
<1>8. Lowered(e, v)
  <2>1. ASSUME NEW n \in v.stack
        PROVE  v.low[n] <= v.dfs[n] /\ \E m \in v.stack : m \in From(e, n) /\ v.dfs[m] = v.low[n]
    <3>1. CASE n = s
      BY <1>1, <1>2, <1>4, <1>5, <3>1
    <3>2. CASE n # s
      BY <1>1, <1>4, <3>2 DEF Walking, Lowered
    <3> QED BY <3>1, <3>2
  <2>2. \A n \in v.stack \ v.calls : v.low[n] < v.dfs[n]
    BY <1>1, <1>4 DEF Walking, Lowered
  <2> QED BY <2>1, <2>2 DEF Lowered
<1>9. Called(e, v)
  <2>1. ASSUME NEW d \in v.calls, NEW n \in v.set, v.dfs[d] <= v.dfs[n] PROVE n \in From(e, d)
    <3>1. CASE d = s
      <4>1. n = s
        BY <1>1, <1>4, <2>1, <3>1
      <4> QED BY <1>2, <1>5, <3>1, <4>1
    <3>2. CASE d # s /\ n = s
      <4>1. d \in w.calls /\ d \in N /\ w.dfs[d] <= w.dfs[c] /\ c \in w.set
        BY <1>1, <3>2
      <4>2. c \in From(e, d)
        BY <4>1 DEF Walking, Called
      <4> QED BY <1>2, <1>5, <3>2, <4>1, <4>2
    <3>3. CASE d # s /\ n # s
      BY <1>1, <1>4, <2>1, <3>3 DEF Walking, Called
    <3> QED BY <3>1, <3>2, <3>3
  <2>2. ASSUME NEW n \in v.stack PROVE \E d \in v.calls : v.dfs[d] <= v.dfs[n]
    <3>1. CASE n = s
      BY <1>1, <1>4, <3>1
    <3>2. CASE n # s
      <4>1. PICK d \in w.calls : w.dfs[d] <= w.dfs[n]
        BY <3>2 DEF Walking, Called
      <4> QED BY <1>1, <1>4, <3>2, <4>1
    <3> QED BY <3>1, <3>2
  <2>3. ASSUME NEW d \in v.calls, NEW n \in v.stack, v.dfs[d] <= v.dfs[n],
               \A a \in v.calls : v.dfs[a] <= v.dfs[n] => v.dfs[a] <= v.dfs[d]
        PROVE  v.low[d] <= v.low[n]
    <3>1. CASE n = s
      <4>1. v.dfs[s] <= v.dfs[d]
        BY <1>1, <1>4, <2>3, <3>1
      <4>2. d = s
        BY <1>1, <1>4, <4>1
      <4> QED BY <1>1, <1>4, <3>1, <4>2
    <3>2. CASE n # s
      <4>1. n \in w.stack /\ n \in w.set /\ v.dfs[n] = w.dfs[n] /\ v.low[n] = w.low[n] /\ w.dfs[n] < k
        BY <1>1, <1>4, <3>2
      <4>2. d # s /\ d \in w.calls
        BY <1>1, <1>4, <2>3, <4>1
      <4>3. \A a \in w.calls : a \in v.calls /\ v.dfs[a] = w.dfs[a]
        BY <1>1, <1>4
      <4>4. w.dfs[d] <= w.dfs[n] /\ \A a \in w.calls : w.dfs[a] <= w.dfs[n] => w.dfs[a] <= w.dfs[d]
        BY <2>3, <4>1, <4>2, <4>3
      <4>5. w.low[d] <= w.low[n]
        BY <4>1, <4>2, <4>4 DEF Walking, Called
      <4> QED BY <1>1, <1>4, <4>1, <4>2, <4>5
    <3> QED BY <3>1, <3>2
  <2> QED BY <2>1, <2>2, <2>3 DEF Called
<1>10. v.children = {Child(g, e, n) : n \in v.set \ v.stack}
  <2>1. v.set \ v.stack = w.set \ w.stack
    BY <1>1
  <2> QED BY <2>1 DEF Walking
<1> QED BY <1>6, <1>7, <1>8, <1>9, <1>10 DEF Walking

(* An edge to a node with a number, which lowers the link if the node is   *)
(* on the stack.                                                           *)
LEMMA WalkLooks ==
  ASSUME NEW g, NEW N \in SUBSET Nodes, NEW e \in [N -> SUBSET N], NEW root \in N, NEW w,
         Walking(g, N, e, root, w),
         NEW c \in w.calls, \A d \in w.calls : w.dfs[d] <= w.dfs[c],
         NEW s \in w.set, <<c, s>> \in w.todo,
         NEW v, v.set = w.set, v.calls = w.calls, v.stack = w.stack, v.dfs = w.dfs,
         v.low = IF s \in w.stack THEN [w.low EXCEPT ![c] = Least(@, w.low[s])] ELSE w.low,
         v.todo = w.todo \ {<<c, s>>}, v.children = w.children
  PROVE  Walking(g, N, e, root, v)
<1>1. /\ w.set \in SUBSET N
      /\ \A n \in w.set : n \in N /\ n \in Nodes /\ w.dfs[n] \in Nat /\ w.low[n] \in Nat
      /\ w.calls \subseteq w.stack /\ w.stack \subseteq w.set
      /\ w.dfs \in [Nodes -> Nat] /\ w.low \in [Nodes -> Nat]
      /\ c \in w.set /\ c \in w.stack
  <2>1. Pushed(N, e, root, w)
    BY DEF Walking
  <2>2. /\ w.set \in SUBSET N
        /\ \A n \in w.set : n \in N /\ n \in Nodes /\ w.dfs[n] \in Nat /\ w.low[n] \in Nat
    BY <2>1, PushedFacts
  <2> QED BY <2>1, <2>2 DEF Pushed
<1>2. s \in e[c] /\ s \in N
  <2>1. c \in N /\ s \in e[c]
    BY DEF Walking, Looked
  <2> QED BY <2>1
<1>3. /\ \A n \in w.set : n # c => v.low[n] = w.low[n]
      /\ v.low[c] = IF s \in w.stack THEN Least(w.low[c], w.low[s]) ELSE w.low[c]
      /\ v.low \in [Nodes -> Nat]
  BY <1>1 DEF Least
<1>4. /\ v.low[c] \in Nat /\ v.low[c] <= w.low[c]
      /\ (s \in w.stack => v.low[c] <= w.low[s])
      /\ (v.low[c] = w.low[c] \/ (s \in w.stack /\ v.low[c] = w.low[s]))
  BY <1>1, <1>3 DEF Least
<1>5. /\ \A n \in N : n \in From(e, n) /\ e[n] \subseteq From(e, n)
      /\ \A n \in N : \A m \in From(e, n) : From(e, m) \subseteq From(e, n)
  BY FromFacts
<1>6. Pushed(N, e, root, v)
  BY <1>3 DEF Walking, Pushed
<1>7. Looked(N, e, v)
  <2>1. \A a, b : <<a, b>> \in v.todo => a \in N /\ b \in e[a] /\ (a \in v.set => a \in v.calls)
    BY DEF Walking, Looked
  <2>2. \A a \in N \ v.set, b \in N : b \in e[a] => <<a, b>> \in v.todo
    BY <1>1 DEF Walking, Looked
  <2>3. ASSUME NEW a \in v.set, NEW b \in N, b \in e[a], <<a, b>> \notin v.todo
        PROVE  b \in v.set /\ (a \in v.stack /\ b \in v.stack => v.low[a] <= v.dfs[b])
    <3>1. CASE a = c /\ b = s
      <4>1. s \in w.stack => w.low[s] <= w.dfs[s]
        BY DEF Walking, Lowered
      <4> QED BY <1>1, <1>4, <3>1, <4>1
    <3>2. CASE ~(a = c /\ b = s)
      <4>1. <<a, b>> \notin w.todo
        BY <2>3, <3>2
      <4>2. b \in w.set /\ (a \in w.stack /\ b \in w.stack => w.low[a] <= w.dfs[b])
        BY <2>3, <4>1 DEF Walking, Looked
      <4>3. v.low[a] <= w.low[a] /\ v.low[a] \in Nat
        BY <1>1, <1>3, <1>4
      <4> QED BY <1>1, <4>2, <4>3
    <3> QED BY <3>1, <3>2
  <2>4. \A a \in v.set \ v.stack : e[a] \subseteq v.set \ v.stack
    BY DEF Walking, Looked
  <2> QED BY <2>1, <2>2, <2>3, <2>4 DEF Looked
<1>8. Lowered(e, v)
  <2>1. ASSUME NEW n \in v.stack
        PROVE  v.low[n] <= v.dfs[n] /\ \E m \in v.stack : m \in From(e, n) /\ v.dfs[m] = v.low[n]
    <3>1. w.low[n] <= w.dfs[n] /\ \E m \in w.stack : m \in From(e, n) /\ w.dfs[m] = w.low[n]
      BY DEF Walking, Lowered
    <3>2. CASE n # c \/ v.low[c] = w.low[c]
      BY <1>1, <1>3, <3>1, <3>2
    <3>3. CASE n = c /\ s \in w.stack /\ v.low[c] = w.low[s]
      <4>1. PICK m \in w.stack : m \in From(e, s) /\ w.dfs[m] = w.low[s]
        BY <3>3 DEF Walking, Lowered
      <4>2. m \in From(e, c)
        BY <1>1, <1>2, <1>5, <4>1
      <4>3. v.low[n] <= v.dfs[n]
        BY <1>1, <1>4, <3>1, <3>3
      <4> QED BY <3>3, <4>1, <4>2, <4>3
    <3> QED BY <1>4, <3>2, <3>3
  <2>2. \A n \in v.stack \ v.calls : v.low[n] < v.dfs[n]
    BY <1>1, <1>3 DEF Walking, Lowered
  <2> QED BY <2>1, <2>2 DEF Lowered
<1>9. Called(e, v)
  <2>1. \A d \in v.calls, n \in v.set : v.dfs[d] <= v.dfs[n] => n \in From(e, d)
    BY DEF Walking, Called
  <2>2. \A n \in v.stack : \E d \in v.calls : v.dfs[d] <= v.dfs[n]
    BY DEF Walking, Called
  <2>3. ASSUME NEW d \in v.calls, NEW n \in v.stack, v.dfs[d] <= v.dfs[n],
               \A a \in v.calls : v.dfs[a] <= v.dfs[n] => v.dfs[a] <= v.dfs[d]
        PROVE  v.low[d] <= v.low[n]
    <3>1. w.low[d] <= w.low[n]
      BY <2>3 DEF Walking, Called
    <3>2. CASE n = c
      <4>1. v.dfs[c] <= v.dfs[d] /\ v.dfs[d] <= v.dfs[c]
        BY <1>1, <2>3, <3>2
      <4>2. d = c
        BY <1>1, <4>1 DEF Walking, Pushed
      <4> QED BY <1>4, <3>2, <4>2
    <3>3. CASE n # c
      <4>1. v.low[n] = w.low[n] /\ v.low[d] <= w.low[d] /\ v.low[d] \in Nat
        BY <1>1, <1>3, <1>4, <3>3
      <4> QED BY <1>1, <3>1, <4>1
    <3> QED BY <3>2, <3>3
  <2> QED BY <2>1, <2>2, <2>3 DEF Called
<1>10. v.children = {Child(g, e, n) : n \in v.set \ v.stack}
  BY DEF Walking
<1> QED BY <1>6, <1>7, <1>8, <1>9, <1>10 DEF Walking

(* A call returns whose node is not the root of a component: it has a      *)
(* caller, whose link it lowers.                                           *)
LEMMA WalkReturns ==
  ASSUME NEW g, NEW N \in SUBSET Nodes, NEW e \in [N -> SUBSET N], NEW root \in N, NEW w,
         Walking(g, N, e, root, w),
         NEW c \in w.calls, \A d \in w.calls : w.dfs[d] <= w.dfs[c],
         \A s : <<c, s>> \notin w.todo, w.low[c] # w.dfs[c],
         NEW p \in w.calls \ {c}, \A d \in w.calls \ {c} : w.dfs[d] <= w.dfs[p],
         NEW v, v.set = w.set, v.calls = w.calls \ {c}, v.stack = w.stack, v.dfs = w.dfs,
         v.low = [w.low EXCEPT ![p] = Least(@, w.low[c])],
         v.todo = w.todo, v.children = w.children
  PROVE  Walking(g, N, e, root, v)
<1>1. /\ w.set \in SUBSET N
      /\ \A n \in w.set : n \in N /\ n \in Nodes /\ w.dfs[n] \in Nat /\ w.low[n] \in Nat
      /\ w.calls \subseteq w.stack /\ w.stack \subseteq w.set
      /\ w.dfs \in [Nodes -> Nat] /\ w.low \in [Nodes -> Nat]
      /\ c \in w.stack /\ p \in w.stack /\ c \in w.set /\ p \in w.set
      /\ w.dfs[p] <= w.dfs[c] /\ w.dfs[p] # w.dfs[c]
  <2>1. Pushed(N, e, root, w)
    BY DEF Walking
  <2>2. /\ w.set \in SUBSET N
        /\ \A n \in w.set : n \in N /\ n \in Nodes /\ w.dfs[n] \in Nat /\ w.low[n] \in Nat
    BY <2>1, PushedFacts
  <2> QED BY <2>1, <2>2 DEF Pushed
<1>2. /\ \A n \in w.set : n # p => v.low[n] = w.low[n]
      /\ v.low[p] = Least(w.low[p], w.low[c])
      /\ v.low \in [Nodes -> Nat]
  BY <1>1 DEF Least
<1>3. /\ v.low[p] \in Nat /\ v.low[p] <= w.low[p] /\ v.low[p] <= w.low[c]
      /\ (v.low[p] = w.low[p] \/ v.low[p] = w.low[c])
  BY <1>1, <1>2 DEF Least
<1>4. \A n \in w.set : v.low[n] \in Nat /\ v.low[n] <= w.low[n]
  BY <1>1, <1>2, <1>3
<1>5. \A n \in N : \A m \in From(e, n) : From(e, m) \subseteq From(e, n)
  BY FromFacts
<1>6. Pushed(N, e, root, v)
  BY <1>2 DEF Walking, Pushed
<1>7. Looked(N, e, v)
  <2>1. \A a, b : <<a, b>> \in v.todo => a \in N /\ b \in e[a] /\ (a \in v.set => a \in v.calls)
    BY DEF Walking, Looked
  <2>2. \A a \in N \ v.set, b \in N : b \in e[a] => <<a, b>> \in v.todo
    BY DEF Walking, Looked
  <2>3. ASSUME NEW a \in v.set, NEW b \in N, b \in e[a], <<a, b>> \notin v.todo
        PROVE  b \in v.set /\ (a \in v.stack /\ b \in v.stack => v.low[a] <= v.dfs[b])
    <3>1. b \in w.set /\ (a \in w.stack /\ b \in w.stack => w.low[a] <= w.dfs[b])
      BY <2>3 DEF Walking, Looked
    <3> QED BY <1>1, <1>4, <3>1
  <2>4. \A a \in v.set \ v.stack : e[a] \subseteq v.set \ v.stack
    BY DEF Walking, Looked
  <2> QED BY <2>1, <2>2, <2>3, <2>4 DEF Looked
<1>8. Lowered(e, v)
  <2>1. ASSUME NEW n \in v.stack
        PROVE  v.low[n] <= v.dfs[n] /\ \E m \in v.stack : m \in From(e, n) /\ v.dfs[m] = v.low[n]
    <3>1. w.low[n] <= w.dfs[n] /\ \E m \in w.stack : m \in From(e, n) /\ w.dfs[m] = w.low[n]
      BY DEF Walking, Lowered
    <3>2. v.low[n] <= v.dfs[n]
      BY <1>1, <1>4, <3>1
    <3>3. CASE v.low[n] = w.low[n]
      BY <3>1, <3>2, <3>3
    <3>4. CASE n = p /\ v.low[p] = w.low[c]
      <4>1. PICK m \in w.stack : m \in From(e, c) /\ w.dfs[m] = w.low[c]
        BY <1>1 DEF Walking, Lowered
      <4>2. c \in From(e, p)
        BY <1>1 DEF Walking, Called
      <4>3. m \in From(e, p)
        BY <1>1, <1>5, <4>1, <4>2
      <4> QED BY <3>2, <3>4, <4>1, <4>3
    <3> QED BY <1>1, <1>2, <1>3, <3>3, <3>4
  <2>2. ASSUME NEW n \in v.stack \ v.calls PROVE v.low[n] < v.dfs[n]
    <3>1. n # p /\ v.low[n] = w.low[n]
      BY <1>1, <1>2, <2>2
    <3>2. CASE n = c
      <4>1. w.low[c] <= w.dfs[c]
        BY <1>1 DEF Walking, Lowered
      <4> QED BY <1>1, <3>1, <3>2, <4>1
    <3>3. CASE n # c
      BY <2>2, <3>1, <3>3 DEF Walking, Lowered
    <3> QED BY <3>2, <3>3
  <2> QED BY <2>1, <2>2 DEF Lowered
<1>9. Called(e, v)
  <2>1. \A d \in v.calls, n \in v.set : v.dfs[d] <= v.dfs[n] => n \in From(e, d)
    BY DEF Walking, Called
  <2>2. ASSUME NEW n \in v.stack PROVE \E d \in v.calls : v.dfs[d] <= v.dfs[n]
    <3>1. PICK d \in w.calls : w.dfs[d] <= w.dfs[n]
      BY DEF Walking, Called
    <3>2. CASE d = c
      BY <1>1, <3>1, <3>2
    <3> QED BY <3>1, <3>2
  <2>3. ASSUME NEW d \in v.calls, NEW n \in v.stack, v.dfs[d] <= v.dfs[n],
               \A a \in v.calls : v.dfs[a] <= v.dfs[n] => v.dfs[a] <= v.dfs[d]
        PROVE  v.low[d] <= v.low[n]
    <3>0. d \in w.calls /\ d \in w.set /\ n \in w.set /\ n \in w.stack
      BY <1>1, <2>3
    <3>1. CASE w.dfs[c] <= w.dfs[n]
      <4>1. \A a \in w.calls : w.dfs[a] <= w.dfs[n] => w.dfs[a] <= w.dfs[c]
        OBVIOUS
      <4>2. w.low[c] <= w.low[n]
        BY <3>0, <3>1, <4>1 DEF Walking, Called
      <4>3. w.dfs[p] <= w.dfs[d] /\ w.dfs[d] <= w.dfs[p]
        <5>1. w.dfs[p] <= w.dfs[n]
          BY <1>1, <3>0, <3>1
        <5> QED BY <2>3, <3>0, <5>1
      <4>4. d = p
        <5>1. w.dfs[d] = w.dfs[p]
          BY <1>1, <3>0, <4>3
        <5> QED BY <1>1, <3>0, <5>1 DEF Walking, Pushed
      <4>5. n # p
        BY <1>1, <3>0, <3>1
      <4> QED BY <1>1, <1>2, <1>3, <3>0, <4>2, <4>4, <4>5
    <3>2. CASE ~(w.dfs[c] <= w.dfs[n])
      <4>1. \A a \in w.calls : w.dfs[a] <= w.dfs[n] => w.dfs[a] <= w.dfs[d]
        BY <2>3, <3>2
      <4>2. w.low[d] <= w.low[n]
        BY <2>3, <3>0, <4>1 DEF Walking, Called
      <4>3. CASE n = p
        <5>1. w.dfs[p] <= w.dfs[d] /\ w.dfs[d] <= w.dfs[p]
          BY <1>1, <2>3, <3>0, <4>3
        <5>2. w.dfs[d] = w.dfs[p]
          BY <1>1, <3>0, <5>1
        <5>3. d = p
          BY <1>1, <3>0, <5>2 DEF Walking, Pushed
        <5> QED BY <1>3, <4>3, <5>3
      <4>4. CASE n # p
        BY <1>1, <1>2, <1>4, <3>0, <4>2, <4>4
      <4> QED BY <4>3, <4>4
    <3> QED BY <3>1, <3>2
  <2> QED BY <2>1, <2>2, <2>3 DEF Called
<1>10. v.children = {Child(g, e, n) : n \in v.set \ v.stack}
  BY DEF Walking
<1> QED BY <1>6, <1>7, <1>8, <1>9, <1>10 DEF Walking

(* What is on the stack from c on.                                         *)
Later(w, c) == {n \in w.stack : w.dfs[n] >= w.dfs[c]}

(* The root of a component is on the stack below all of it, and nothing    *)
(* else: those above it reach it, by their low links, and what they lead to*)
(* is among them or was taken.                                             *)
LEMMA SccFacts ==
  ASSUME NEW g, NEW N \in SUBSET Nodes, NEW e \in [N -> SUBSET N], NEW root \in N, NEW w,
         Walking(g, N, e, root, w),
         NEW c \in w.calls, \A d \in w.calls : w.dfs[d] <= w.dfs[c],
         \A s : <<c, s>> \notin w.todo, w.low[c] = w.dfs[c],
         NEW scc, scc = Later(w, c)
  PROVE  /\ scc = Component(e, c)
         /\ \A n \in scc : e[n] \subseteq scc \cup (w.set \ w.stack)
<1>1. /\ w.set \in SUBSET N
      /\ \A n \in w.set : n \in N /\ n \in Nodes /\ w.dfs[n] \in Nat /\ w.low[n] \in Nat
      /\ w.calls \subseteq w.stack /\ w.stack \subseteq w.set
      /\ c \in w.stack /\ c \in w.set
      /\ \A m, n \in w.set : w.dfs[m] = w.dfs[n] => m = n
      /\ scc = {n \in w.stack : w.dfs[n] >= w.dfs[c]}
  <2>1. Pushed(N, e, root, w)
    BY DEF Walking
  <2>2. /\ w.set \in SUBSET N
        /\ \A n \in w.set : n \in N /\ n \in Nodes /\ w.dfs[n] \in Nat /\ w.low[n] \in Nat
    BY <2>1, PushedFacts
  <2> QED BY <2>1, <2>2 DEF Pushed, Later
<1>2. /\ \A n \in N : From(e, n) \in SUBSET N /\ n \in From(e, n) /\ e[n] \subseteq From(e, n)
      /\ \A n \in N : \A m \in From(e, n) : From(e, m) \subseteq From(e, n)
      /\ \A n \in N : \A T : n \in T /\ (\A m \in T \cap N : e[m] \subseteq T) => From(e, n) \subseteq T
  BY FromFacts
<1>3. ASSUME NEW n \in scc PROVE w.low[c] <= w.low[n]
  <2>1. \A a \in w.calls : w.dfs[a] <= w.dfs[n] => w.dfs[a] <= w.dfs[c]
    OBVIOUS
  <2>2. w.dfs[c] <= w.dfs[n] /\ n \in w.stack
    BY <1>1
  <2> QED BY <2>1, <2>2 DEF Walking, Called
<1>4. scc \subseteq {n \in N : c \in From(e, n)}
  <2> DEFINE rank == [n \in scc |-> w.dfs[n]]
             T == {n \in N : c \in From(e, n)}
  <2>1. rank \in [scc -> Nat]
    BY <1>1
  <2>2. ASSUME NEW n \in scc, \A m \in scc : rank[m] < rank[n] => m \in T PROVE n \in T
    <3>1. CASE n = c
      BY <1>1, <1>2, <3>1
    <3>2. CASE n # c
      <4>1. n \in w.stack \ w.calls
        <5>1. w.dfs[n] # w.dfs[c] /\ w.dfs[n] \in Nat /\ w.dfs[c] \in Nat /\ w.dfs[c] <= w.dfs[n]
          BY <1>1, <3>2
        <5>2. n \in w.calls => w.dfs[n] <= w.dfs[c]
          OBVIOUS
        <5>3. n \notin w.calls
          BY <5>1, <5>2
        <5>4. n \in w.stack
          BY <1>1
        <5> QED BY <5>3, <5>4
      <4>2. PICK m \in w.stack : m \in From(e, n) /\ w.dfs[m] = w.low[n]
        BY <4>1 DEF Walking, Lowered
      <4>3. w.low[n] < w.dfs[n]
        BY <4>1 DEF Walking, Lowered
      <4>4. m \in scc /\ rank[m] < rank[n]
        BY <1>1, <1>3, <4>2, <4>3
      <4>5. c \in From(e, m)
        BY <2>2, <4>4
      <4> QED BY <1>1, <1>2, <4>1, <4>2, <4>5
    <3> QED BY <3>1, <3>2
  <2> HIDE DEF rank, T
  <2>3. scc \subseteq T
    BY <2>1, <2>2, RankInduction
  <2> QED BY <2>3 DEF T
<1>5. ASSUME NEW n \in scc PROVE n \in From(e, c)
  BY <1>1 DEF Walking, Called
<1>6. ASSUME NEW n \in scc, NEW b \in e[n] PROVE b \in scc \cup (w.set \ w.stack)
  <2>1. n \in w.set /\ b \in N /\ n \in w.stack
    BY <1>1
  <2>2. <<n, b>> \notin w.todo
    <3>1. CASE n \in w.calls
      <4>1. w.dfs[n] = w.dfs[c]
        BY <1>1, <3>1
      <4>2. n = c
        BY <1>1, <4>1
      <4> QED BY <4>2
    <3>2. CASE n \notin w.calls
      BY <2>1, <3>2 DEF Walking, Looked
    <3> QED BY <3>1, <3>2
  <2>3. b \in w.set /\ (b \in w.stack => w.low[n] <= w.dfs[b])
    BY <2>1, <2>2 DEF Walking, Looked
  <2>4. b \in w.stack => w.dfs[b] >= w.dfs[c]
    <3>1. w.low[c] <= w.low[n] /\ w.low[n] \in Nat /\ w.dfs[c] \in Nat
      BY <1>1, <1>3, <2>1
    <3>2. w.dfs[b] \in Nat
      BY <1>1, <2>3
    <3> QED BY <2>3, <3>1, <3>2
  <2>5. b \in w.stack => b \in scc
    BY <1>1, <2>4
  <2> QED BY <2>3, <2>5
<1>7. ASSUME NEW n \in Component(e, c) PROVE n \in scc
  <2> DEFINE D == w.set \ w.stack
  <2>1. \A m \in D : e[m] \subseteq D /\ m \in N
    BY <1>1 DEF Walking, Looked
  <2>2. c \in scc
    BY <1>1
  <2> HIDE DEF D
  <2>3. From(e, c) \subseteq scc \cup D
    <3> DEFINE T == scc \cup D
    <3>1. c \in T
      BY <2>2
    <3>2. \A m \in T \cap N : e[m] \subseteq T
      BY <1>6, <2>1 DEF D
    <3> HIDE DEF T
    <3>3. From(e, c) \subseteq T
      BY <1>1, <1>2, <3>1, <3>2
    <3> QED BY <3>3 DEF T
  <2>4. ASSUME n \in D PROVE FALSE
    <3>1. n \in N /\ From(e, n) \subseteq D
      BY <1>2, <2>1, <2>4
    <3> QED BY <1>1, <3>1 DEF Component, D
  <2> QED BY <2>3, <2>4 DEF Component
<1>8. scc \subseteq Component(e, c)
  BY <1>4, <1>5 DEF Component
<1> QED BY <1>6, <1>7, <1>8


(* The call of the root of a component returns, and takes the component.   *)
LEMMA WalkTakes ==
  ASSUME NEW g, NEW N \in SUBSET Nodes, NEW e \in [N -> SUBSET N], NEW root \in N, NEW w,
         Walking(g, N, e, root, w),
         NEW c \in w.calls, \A d \in w.calls : w.dfs[d] <= w.dfs[c],
         \A s : <<c, s>> \notin w.todo, w.low[c] = w.dfs[c],
         NEW scc, scc = Later(w, c),
         NEW v, v.set = w.set, v.calls = w.calls \ {c}, v.stack = w.stack \ scc, v.dfs = w.dfs, v.low = w.low,
         v.todo = w.todo,
         v.children = w.children \cup {[leaf |-> Single(e, scc, c), cf_nodes |-> Entered(g, scc)]}
  PROVE  Walking(g, N, e, root, v)
<1>1. /\ w.set \in SUBSET N
      /\ \A n \in w.set : n \in N /\ n \in Nodes /\ w.dfs[n] \in Nat /\ w.low[n] \in Nat
      /\ w.calls \subseteq w.stack /\ w.stack \subseteq w.set
      /\ c \in w.stack /\ c \in w.set
      /\ \A m, n \in w.set : w.dfs[m] = w.dfs[n] => m = n
      /\ scc = {n \in w.stack : w.dfs[n] >= w.dfs[c]}
  <2>1. Pushed(N, e, root, w)
    BY DEF Walking
  <2>2. /\ w.set \in SUBSET N
        /\ \A n \in w.set : n \in N /\ n \in Nodes /\ w.dfs[n] \in Nat /\ w.low[n] \in Nat
    BY <2>1, PushedFacts
  <2> QED BY <2>1, <2>2 DEF Pushed, Later
<1>2. scc = Component(e, c) /\ \A n \in scc : e[n] \subseteq scc \cup (w.set \ w.stack)
  BY SccFacts
<1>3. /\ v.stack = {n \in w.stack : w.dfs[n] < w.dfs[c]}
      /\ v.set \ v.stack = (w.set \ w.stack) \cup scc
      /\ c \in scc
  BY <1>1
<1>4. \A d \in w.calls \ {c} : d \in w.stack /\ w.dfs[d] < w.dfs[c]
  BY <1>1
<1>5. Pushed(N, e, root, v)
  BY <1>3, <1>4 DEF Walking, Pushed
<1>6. Looked(N, e, v)
  <2>1. ASSUME NEW a, NEW b, <<a, b>> \in v.todo PROVE a \in N /\ b \in e[a] /\ (a \in v.set => a \in v.calls)
    BY <2>1 DEF Walking, Looked
  <2>2. \A a \in N \ v.set, b \in N : b \in e[a] => <<a, b>> \in v.todo
    BY DEF Walking, Looked
  <2>3. \A a \in v.set, b \in N : b \in e[a] /\ <<a, b>> \notin v.todo =>
          b \in v.set /\ (a \in v.stack /\ b \in v.stack => v.low[a] <= v.dfs[b])
    BY DEF Walking, Looked
  <2>4. \A a \in w.set \ w.stack : e[a] \subseteq w.set \ w.stack
    BY DEF Walking, Looked
  <2>5. \A a \in v.set \ v.stack : e[a] \subseteq v.set \ v.stack
    BY <1>2, <1>3, <2>4
  <2> QED BY <2>1, <2>2, <2>3, <2>5 DEF Looked
<1>7. Lowered(e, v)
  <2>1. ASSUME NEW n \in v.stack
        PROVE  v.low[n] <= v.dfs[n] /\ \E m \in v.stack : m \in From(e, n) /\ v.dfs[m] = v.low[n]
    <3>1. w.low[n] <= w.dfs[n] /\ \E m \in w.stack : m \in From(e, n) /\ w.dfs[m] = w.low[n]
      BY DEF Walking, Lowered
    <3>2. w.dfs[n] < w.dfs[c] /\ n \in w.stack
      BY <1>3
    <3> QED BY <1>1, <1>3, <3>1, <3>2
  <2>2. \A n \in v.stack \ v.calls : v.low[n] < v.dfs[n]
    BY <1>3 DEF Walking, Lowered
  <2> QED BY <2>1, <2>2 DEF Lowered
<1>8. Called(e, v)
  <2>1. \A d \in v.calls, n \in v.set : v.dfs[d] <= v.dfs[n] => n \in From(e, d)
    BY DEF Walking, Called
  <2>2. ASSUME NEW n \in v.stack PROVE \E d \in v.calls : v.dfs[d] <= v.dfs[n]
    <3>1. PICK d \in w.calls : w.dfs[d] <= w.dfs[n]
      BY DEF Walking, Called
    <3>2. d # c
      BY <1>1, <1>3, <3>1
    <3> QED BY <3>1, <3>2
  <2>3. ASSUME NEW d \in v.calls, NEW n \in v.stack, v.dfs[d] <= v.dfs[n],
               \A a \in v.calls : v.dfs[a] <= v.dfs[n] => v.dfs[a] <= v.dfs[d]
        PROVE  v.low[d] <= v.low[n]
    <3>1. ASSUME NEW a \in w.calls, w.dfs[a] <= w.dfs[n] PROVE w.dfs[a] <= w.dfs[d]
      <4>1. w.dfs[n] < w.dfs[c] /\ w.dfs[n] \in Nat /\ w.dfs[c] \in Nat /\ w.dfs[a] \in Nat
        BY <1>1, <1>3
      <4>2. a # c
        BY <3>1, <4>1
      <4> QED BY <2>3, <3>1, <4>2
    <3>2. d \in w.calls /\ n \in w.stack
      BY <1>3
    <3> QED BY <2>3, <3>1, <3>2 DEF Walking, Called
  <2> QED BY <2>1, <2>2, <2>3 DEF Called
<1>9. v.children = {Child(g, e, n) : n \in v.set \ v.stack}
  <2>1. ASSUME NEW n \in scc PROVE Child(g, e, n) = [leaf |-> Single(e, scc, c), cf_nodes |-> Entered(g, scc)]
    <3>1. Component(e, n) = scc
      BY <1>1, <1>2, ComponentFacts
    <3>2. Single(e, scc, n) = Single(e, scc, c)
      BY <1>3 DEF Single
    <3> QED BY <3>1, <3>2 DEF Child
  <2>2. w.children = {Child(g, e, n) : n \in w.set \ w.stack}
    BY DEF Walking
  <2> QED BY <1>3, <2>1, <2>2
<1> QED BY <1>5, <1>6, <1>7, <1>8, <1>9 DEF Walking

(* A loop that goes on as long as something gets smaller ends.             *)
LEMMA IteratedEnds ==
  ASSUME NEW V, NEW start \in V, NEW step, NEW measure, NEW Done, NEW n \in Nat,
         \A v \in V : step[v] \in V,
         \A v \in V : measure[v] \in Nat,
         \A v \in V : v \in Done => step[v] \in Done,
         \A v \in V : v \notin Done => measure[step[v]] < measure[v],
         measure[start] <= n
  PROVE  Iterated(step, n, start) \in V /\ Iterated(step, n, start) \in Done
<1>1. PICK h \in [Nat -> V] : Iterates(h, step, start)
  BY IteratedFacts, Zenon
<1>2. h[0] = start /\ (\A k \in Nat : h[k + 1] = step[h[k]]) /\ Iterated(step, n, start) = h[n]
  BY <1>1 DEF Iterates
<1>3. \A k \in Nat : h[k] \in V
  BY <1>1
<1> DEFINE T == {k \in Nat : h[k] \in Done \/ measure[h[k]] + k <= n}
<1>4. 0 \in T
  <2>1. measure[h[0]] \in Nat /\ measure[h[0]] <= n
    BY <1>2
  <2> QED BY <2>1
<1>5. ASSUME NEW k \in Nat, k \in T PROVE k + 1 \in T
  <2>1. h[k] \in V /\ h[k + 1] \in V /\ h[k + 1] = step[h[k]] /\ k + 1 \in Nat
    BY <1>2, <1>3
  <2>2. CASE h[k] \in Done
    BY <2>1, <2>2
  <2>3. CASE h[k] \notin Done
    <3>1. measure[h[k + 1]] < measure[h[k]] /\ measure[h[k + 1]] \in Nat /\ measure[h[k]] \in Nat
      BY <2>1, <2>3
    <3>2. measure[h[k]] + k <= n
      BY <1>5, <2>3
    <3>3. measure[h[k + 1]] + (k + 1) <= n
      BY <3>1, <3>2
    <3> QED BY <2>1, <3>3
  <2> QED BY <2>2, <2>3
<1>6. n \in T
  <2> HIDE DEF T
  <2> QED BY <1>4, <1>5, NumberInduction
<1>7. ASSUME h[n] \notin Done PROVE FALSE
  <2>1. measure[h[n]] + n <= n /\ h[n] \in V
    BY <1>3, <1>6, <1>7
  <2>2. measure[h[n]] \in Nat /\ measure[step[h[n]]] \in Nat /\ measure[step[h[n]]] < measure[h[n]]
    BY <1>7, <2>1
  <2> QED BY <2>1, <2>2
<1> QED BY <1>2, <1>3, <1>7

(* What of a walk is still to do.                                          *)
WalkLeft(N, w) == Cardinality(w.todo) + 2 * Cardinality(N \ w.set) + Cardinality(w.calls)

(* What is left of a walk is counted in numbers.                           *)
LEMMA WalkLeftFacts ==
  ASSUME NEW N \in SUBSET Nodes, NEW e \in [N -> SUBSET N], NEW root \in N, NEW w \in Walks, Pushed(N, e, root, w)
  PROVE  /\ IsFiniteSet(w.todo) /\ IsFiniteSet(N \ w.set) /\ IsFiniteSet(w.calls)
         /\ Cardinality(w.todo) \in Nat /\ Cardinality(N \ w.set) \in Nat /\ Cardinality(w.calls) \in Nat
         /\ Cardinality(w.todo) <= Exit * Exit
<1>1. w.todo \in SUBSET (Nodes \X Nodes) /\ w.calls \in SUBSET Nodes /\ N \ w.set \in SUBSET Nodes
  BY DEF Walks
<1> DEFINE A == Nodes \X Nodes
<1>2. IsFiniteSet(A) /\ Cardinality(A) = Exit * Exit
  BY NodesFinite, FS_Product
<1> HIDE DEF A
<1>3. IsFiniteSet(w.todo) /\ Cardinality(w.todo) <= Cardinality(A)
  BY <1>1, <1>2, FS_Subset DEF A
<1>4. Cardinality(w.todo) \in Nat
  BY <1>3, FS_CardinalityType
<1> QED BY <1>1, <1>2, <1>3, <1>4, SomeNodes

(* One element more or less.                                               *)
LEMMA OneLess ==
  ASSUME NEW S, IsFiniteSet(S), NEW x \in S
  PROVE  Cardinality(S \ {x}) = Cardinality(S) - 1 /\ Cardinality(S) \in Nat
BY FS_RemoveElement, FS_CardinalityType

(* Adding a new element makes a set larger by one.                         *)
LEMMA OneMore ==
  ASSUME NEW S, IsFiniteSet(S), NEW x, x \notin S
  PROVE  Cardinality(S \cup {x}) = Cardinality(S) + 1 /\ Cardinality(S) \in Nat
BY FS_AddElement, FS_CardinalityType

(* A walk is a record of its parts, which change one by one.               *)
Parts(a, b, c, d, l, t, x) ==
  [set |-> a, calls |-> b, stack |-> c, dfs |-> d, low |-> l, todo |-> t, children |-> x]

(* A walk is the record of its parts.                                      *)
LEMMA WalkIs ==
  ASSUME NEW w \in Walks
  PROVE  /\ w = Parts(w.set, w.calls, w.stack, w.dfs, w.low, w.todo, w.children)
         /\ w.set \in SUBSET Nodes /\ w.calls \in SUBSET Nodes /\ w.stack \in SUBSET Nodes
         /\ w.dfs \in [Nodes -> Nat] /\ w.low \in [Nodes -> Nat]
         /\ w.todo \in SUBSET (Nodes \X Nodes) /\ w.children \in SUBSET Children
BY DEF Walks, Parts

(* The parts are what they were put together from.                         *)
LEMMA PartsAre ==
  ASSUME NEW a, NEW b, NEW c, NEW d, NEW l, NEW t, NEW x, NEW w, w = Parts(a, b, c, d, l, t, x)
  PROVE  w.set = a /\ w.calls = b /\ w.stack = c /\ w.dfs = d /\ w.low = l /\ w.todo = t /\ w.children = x
BY DEF Parts

(* Parts of the right kinds make a walk.                                   *)
LEMMA IsWalk ==
  ASSUME NEW a \in SUBSET Nodes, NEW b \in SUBSET Nodes, NEW c \in SUBSET Nodes,
         NEW d \in [Nodes -> Nat], NEW l \in [Nodes -> Nat],
         NEW t \in SUBSET (Nodes \X Nodes), NEW x \in SUBSET Children
  PROVE  Parts(a, b, c, d, l, t, x) \in Walks
BY DEF Walks, Parts

(* What the steps of a walk change.                                        *)
LEMMA LookedIs ==
  ASSUME NEW w \in Walks, NEW y
  PROVE  /\ [w EXCEPT !.todo = @ \ {y}] = Parts(w.set, w.calls, w.stack, w.dfs, w.low, w.todo \ {y}, w.children)
         /\ [w EXCEPT !.calls = @ \ {y}] = Parts(w.set, w.calls \ {y}, w.stack, w.dfs, w.low, w.todo, w.children)
<1>1. w = Parts(w.set, w.calls, w.stack, w.dfs, w.low, w.todo, w.children)
  BY WalkIs
<1> DEFINE s == w.set
           f == w.calls
           k == w.stack
           d == w.dfs
           l == w.low
           t == w.todo
           x == w.children
           u == t \ {y}
           v == f \ {y}
<1>2. w = Parts(s, f, k, d, l, t, x)
  BY <1>1
<1> HIDE DEF s, f, k, d, l, t, x, u, v
<1>3. [w EXCEPT !.todo = u] = Parts(s, f, k, d, l, u, x)
  BY <1>2 DEF Parts
<1>4. [w EXCEPT !.calls = v] = Parts(s, v, k, d, l, t, x)
  BY <1>2 DEF Parts
<1> QED BY <1>3, <1>4 DEF s, f, k, d, l, t, x, u, v

(* Lower changes a low link and nothing else.                              *)
LEMMA LowerIs ==
  ASSUME NEW a, NEW b, NEW c, NEW d, NEW l, NEW t, NEW x, NEW w, w = Parts(a, b, c, d, l, t, x), NEW n, NEW m
  PROVE  Lower(w, n, m) = Parts(a, b, c, d, [l EXCEPT ![n] = Least(@, l[m])], t, x)
<1>1. w.low = l
  BY PartsAre
<1> DEFINE y == [l EXCEPT ![n] = Least(@, l[m])]
<1>2. Lower(w, n, m) = [w EXCEPT !.low = y]
  BY <1>1 DEF Lower
<1> HIDE DEF y
<1>3. [w EXCEPT !.low = y] = Parts(a, b, c, d, y, t, x)
  BY DEF Parts
<1> QED BY <1>2, <1>3 DEF y

(* Visit numbers, calls and pushes a node and changes nothing else.        *)
LEMMA VisitIs ==
  ASSUME NEW a, NEW b, NEW c, NEW d, NEW l, NEW t, NEW x, NEW w, w = Parts(a, b, c, d, l, t, x), NEW n
  PROVE  Visit(w, n) = Parts(a \cup {n}, b \cup {n}, c \cup {n}, [d EXCEPT ![n] = Cardinality(a)],
                             [l EXCEPT ![n] = Cardinality(a)], t, x)
<1> DEFINE k  == Cardinality(a)
           a1 == a \cup {n}
           b1 == b \cup {n}
           c1 == c \cup {n}
           d1 == [d EXCEPT ![n] = k]
           l1 == [l EXCEPT ![n] = k]
<1>1. w.set = a /\ w.calls = b /\ w.stack = c /\ w.dfs = d /\ w.low = l
  BY PartsAre
<1>2. Visit(w, n) = [w EXCEPT !.set = a1, !.calls = b1, !.stack = c1, !.dfs = d1, !.low = l1]
  <2> HIDE DEF k
  <2> QED BY <1>1 DEF Visit, k
<1> HIDE DEF k, a1, b1, c1, d1, l1
<1> DEFINE w1 == [w EXCEPT !.set = a1]
           w2 == [w1 EXCEPT !.calls = b1]
           w3 == [w2 EXCEPT !.stack = c1]
           w4 == [w3 EXCEPT !.dfs = d1]
           w5 == [w4 EXCEPT !.low = l1]
<1>3. [w EXCEPT !.set = a1, !.calls = b1, !.stack = c1, !.dfs = d1, !.low = l1] = w5
  OBVIOUS
<1>4. w1 = Parts(a1, b, c, d, l, t, x)
  BY DEF Parts
<1> HIDE DEF w1
<1>5. w2 = Parts(a1, b1, c, d, l, t, x)
  BY <1>4 DEF Parts
<1> HIDE DEF w2
<1>6. w3 = Parts(a1, b1, c1, d, l, t, x)
  BY <1>5 DEF Parts
<1> HIDE DEF w3
<1>7. w4 = Parts(a1, b1, c1, d1, l, t, x)
  BY <1>6 DEF Parts
<1> HIDE DEF w4
<1>8. w5 = Parts(a1, b1, c1, d1, l1, t, x)
  BY <1>7 DEF Parts
<1> HIDE DEF w5
<1> QED BY <1>2, <1>3, <1>8 DEF k, a1, b1, c1, d1, l1

(* Take pops a component, records it and changes nothing else.             *)
LEMMA TakeIs ==
  ASSUME NEW g, NEW e, NEW w \in Walks, NEW n
  PROVE  Take(g, e, w, n) =
           Parts(w.set, w.calls, w.stack \ Later(w, n), w.dfs, w.low, w.todo,
                 w.children \cup {[leaf |-> Single(e, Later(w, n), n), cf_nodes |-> Entered(g, Later(w, n))]})
<1> DEFINE s == w.set
           f == w.calls
           k == w.stack
           d == w.dfs
           l == w.low
           t == w.todo
           x == w.children
           u == k \ Later(w, n)
           v == x \cup {[leaf |-> Single(e, Later(w, n), n), cf_nodes |-> Entered(g, Later(w, n))]}
<1>1. w = Parts(s, f, k, d, l, t, x)
  BY WalkIs
<1>2. Take(g, e, w, n) = [w EXCEPT !.stack = u, !.children = v]
  BY DEF Take, Later
<1> HIDE DEF s, f, k, d, l, t, x, u, v
<1> DEFINE w1 == [w EXCEPT !.stack = u]
           w2 == [w1 EXCEPT !.children = v]
<1>3. [w EXCEPT !.stack = u, !.children = v] = w2
  OBVIOUS
<1>4. w1 = Parts(s, f, u, d, l, t, x)
  BY <1>1 DEF Parts
<1> HIDE DEF w1
<1>5. w2 = Parts(s, f, u, d, l, t, v)
  BY <1>4 DEF Parts
<1> HIDE DEF w2
<1>6. Take(g, e, w, n) = Parts(s, f, u, d, l, t, v)
  BY <1>2, <1>3, <1>5
<1> QED BY <1>6 DEF s, f, k, d, l, t, x, u, v

(* A return ends a call and changes nothing else.                          *)
LEMMA ReturnIs ==
  ASSUME NEW a, NEW b, NEW c, NEW d, NEW l, NEW t, NEW x, NEW y
  PROVE  [Parts(a, b, c, d, l, t, x) EXCEPT !.calls = y] = Parts(a, y, c, d, l, t, x)
BY DEF Parts

(* A step that looks at an edge, calls a node or returns has less to do.   *)
LEMMA LessToLook ==
  ASSUME NEW N \in SUBSET Nodes, NEW e \in [N -> SUBSET N], NEW root \in N, NEW w \in Walks, Pushed(N, e, root, w),
         NEW x \in w.todo, NEW v, v.todo = w.todo \ {x}, v.set = w.set, v.calls = w.calls
  PROVE  WalkLeft(N, v) < WalkLeft(N, w)
<1> DEFINE a == Cardinality(w.todo)
           b == Cardinality(N \ w.set)
           c == Cardinality(w.calls)
<1>1. /\ IsFiniteSet(w.todo) /\ a \in Nat /\ b \in Nat /\ c \in Nat
  BY WalkLeftFacts
<1>2. Cardinality(v.todo) = a - 1 /\ Cardinality(N \ v.set) = b /\ Cardinality(v.calls) = c
  BY <1>1, OneLess
<1>3. WalkLeft(N, v) = (a - 1) + 2 * b + c /\ WalkLeft(N, w) = a + 2 * b + c
  BY <1>2 DEF WalkLeft
<1> HIDE DEF a, b, c
<1> QED BY <1>1, <1>3

(* A call leaves less of the walk to be done.                              *)
LEMMA LessToVisit ==
  ASSUME NEW N \in SUBSET Nodes, NEW e \in [N -> SUBSET N], NEW root \in N, NEW w \in Walks, Pushed(N, e, root, w),
         NEW x \in w.todo, NEW s \in N \ w.set,
         NEW v, v.todo = w.todo \ {x}, v.set = w.set \cup {s}, v.calls = w.calls \cup {s}
  PROVE  WalkLeft(N, v) < WalkLeft(N, w)
<1> DEFINE a == Cardinality(w.todo)
           S == N \ w.set
           b == Cardinality(S)
           c == Cardinality(w.calls)
<1>1. /\ IsFiniteSet(w.todo) /\ IsFiniteSet(S) /\ IsFiniteSet(w.calls) /\ a \in Nat /\ b \in Nat /\ c \in Nat
  BY WalkLeftFacts
<1>2. N \ v.set = S \ {s} /\ s \in S /\ s \notin w.calls
  BY DEF Pushed
<1>3. Cardinality(w.todo \ {x}) = a - 1
  BY <1>1, OneLess
<1> HIDE DEF S
<1>4. Cardinality(S \ {s}) = b - 1
  BY <1>1, <1>2, OneLess
<1>5. Cardinality(w.calls \cup {s}) = c + 1
  BY <1>1, <1>2, OneMore
<1>6. WalkLeft(N, v) = (a - 1) + 2 * (b - 1) + (c + 1)
  BY <1>2, <1>3, <1>4, <1>5 DEF WalkLeft
<1>7. WalkLeft(N, w) = a + 2 * b + c
  BY DEF WalkLeft, S
<1> HIDE DEF a, b, c
<1> QED BY <1>1, <1>6, <1>7

(* A return leaves less of the walk to be done.                            *)
LEMMA LessToReturn ==
  ASSUME NEW N \in SUBSET Nodes, NEW e \in [N -> SUBSET N], NEW root \in N, NEW w \in Walks, Pushed(N, e, root, w),
         NEW x \in w.calls, NEW v, v.todo = w.todo, v.set = w.set, v.calls = w.calls \ {x}
  PROVE  WalkLeft(N, v) < WalkLeft(N, w)
<1> DEFINE a == Cardinality(w.todo)
           b == Cardinality(N \ w.set)
           c == Cardinality(w.calls)
<1>1. /\ IsFiniteSet(w.calls) /\ a \in Nat /\ b \in Nat /\ c \in Nat
  BY WalkLeftFacts
<1>2. Cardinality(v.todo) = a /\ Cardinality(N \ v.set) = b /\ Cardinality(v.calls) = c - 1
  BY <1>1, OneLess
<1>3. WalkLeft(N, v) = a + 2 * b + (c - 1) /\ WalkLeft(N, w) = a + 2 * b + c
  BY <1>2 DEF WalkLeft
<1> HIDE DEF a, b, c
<1> QED BY <1>1, <1>3

(* What the last call of a walk is.                                        *)
LEMMA CurFacts ==
  ASSUME NEW g, NEW N \in SUBSET Nodes, NEW e \in [N -> SUBSET N], NEW root \in N, NEW w \in Walks,
         Walking(g, N, e, root, w), NEW c \in w.calls
  PROVE  /\ c \in w.stack /\ c \in w.set
         /\ c \in N /\ c \in Nodes /\ w.dfs[c] \in Nat /\ w.low[c] \in Nat /\ w.low[c] <= w.dfs[c]
         /\ w.calls \subseteq w.stack /\ w.stack \subseteq w.set /\ w.set \subseteq N
         /\ \A n \in w.set : w.dfs[n] \in Nat /\ w.low[n] \in Nat
         /\ \A m, n \in w.set : w.dfs[m] = w.dfs[n] => m = n
<1>1. Pushed(N, e, root, w)
  BY DEF Walking
<1>2. /\ w.set \in SUBSET N
      /\ \A n \in w.set : n \in N /\ n \in Nodes /\ w.dfs[n] \in Nat /\ w.low[n] \in Nat
  BY <1>1, PushedFacts
<1>3. w.calls \subseteq w.stack /\ w.stack \subseteq w.set
      /\ \A m, n \in w.set : w.dfs[m] = w.dfs[n] => m = n
  BY <1>1 DEF Pushed
<1>4. w.low[c] <= w.dfs[c]
  BY <1>2, <1>3 DEF Walking, Lowered
<1> QED BY <1>2, <1>3, <1>4

(* A walk with an edge of its last call to look at, without its target.    *)
LEMMA VisitStep ==
  ASSUME NEW g, NEW N \in SUBSET Nodes, NEW e \in [N -> SUBSET N], NEW root \in N, NEW w \in Walks,
         Walking(g, N, e, root, w),
         NEW c \in w.calls, \A d \in w.calls : w.dfs[d] <= w.dfs[c],
         NEW s, <<c, s>> \in w.todo, s \notin w.set
  PROVE  LET v == Visit([w EXCEPT !.todo = @ \ {<<c, s>>}], s)
         IN  v \in Walks /\ Walking(g, N, e, root, v) /\ WalkLeft(N, v) < WalkLeft(N, w)
<1> DEFINE k == Cardinality(w.set)
           x == <<c, s>>
           looked == [w EXCEPT !.todo = @ \ {x}]
           v == Visit(looked, s)
<1>1. Pushed(N, e, root, w) /\ c \in N /\ s \in e[c]
  BY DEF Walking, Looked
<1>2. s \in N /\ s \in Nodes
  BY <1>1
<1>3. k \in Nat
  BY <1>1, PushedFacts
<1>4. w.set \in SUBSET Nodes /\ w.calls \in SUBSET Nodes /\ w.stack \in SUBSET Nodes
      /\ w.dfs \in [Nodes -> Nat] /\ w.low \in [Nodes -> Nat]
      /\ w.todo \in SUBSET (Nodes \X Nodes) /\ w.children \in SUBSET Children
  BY WalkIs
<1> HIDE DEF x
<1>5. looked = Parts(w.set, w.calls, w.stack, w.dfs, w.low, w.todo \ {x}, w.children)
  BY LookedIs
<1> HIDE DEF looked
<1>6. v = Parts(w.set \cup {s}, w.calls \cup {s}, w.stack \cup {s}, [w.dfs EXCEPT ![s] = k],
                [w.low EXCEPT ![s] = k], w.todo \ {x}, w.children)
  BY <1>5, VisitIs
<1> HIDE DEF v, k
<1>7. /\ v.set = w.set \cup {s} /\ v.calls = w.calls \cup {s} /\ v.stack = w.stack \cup {s}
      /\ v.dfs = [w.dfs EXCEPT ![s] = Cardinality(w.set)] /\ v.low = [w.low EXCEPT ![s] = Cardinality(w.set)]
      /\ v.todo = w.todo \ {<<c, s>>} /\ v.children = w.children
  <2>1. /\ v.set = w.set \cup {s} /\ v.calls = w.calls \cup {s} /\ v.stack = w.stack \cup {s}
        /\ v.dfs = [w.dfs EXCEPT ![s] = k] /\ v.low = [w.low EXCEPT ![s] = k]
        /\ v.todo = w.todo \ {x} /\ v.children = w.children
    BY <1>6, PartsAre
  <2> QED BY <2>1 DEF k, x
<1>8. v \in Walks
  <2>1. w.set \cup {s} \in SUBSET Nodes /\ w.calls \cup {s} \in SUBSET Nodes /\ w.stack \cup {s} \in SUBSET Nodes
    BY <1>2, <1>4
  <2>2. [w.dfs EXCEPT ![s] = k] \in [Nodes -> Nat] /\ [w.low EXCEPT ![s] = k] \in [Nodes -> Nat]
    BY <1>3, <1>4
  <2>3. w.todo \ {x} \in SUBSET (Nodes \X Nodes)
    BY <1>4
  <2> QED BY <1>4, <1>6, <2>1, <2>2, <2>3, IsWalk
<1>9. Walking(g, N, e, root, v)
  BY <1>7, WalkVisits
<1>10. WalkLeft(N, v) < WalkLeft(N, w)
  BY <1>1, <1>2, <1>7, LessToVisit
<1> QED BY <1>8, <1>9, <1>10 DEF v, looked, x

(* With its target: it is on the stack, or was taken.                      *)
LEMMA LookStep ==
  ASSUME NEW g, NEW N \in SUBSET Nodes, NEW e \in [N -> SUBSET N], NEW root \in N, NEW w \in Walks,
         Walking(g, N, e, root, w),
         NEW c \in w.calls, \A d \in w.calls : w.dfs[d] <= w.dfs[c],
         NEW s \in w.set, <<c, s>> \in w.todo
  PROVE  LET looked == [w EXCEPT !.todo = @ \ {<<c, s>>}]
             v      == IF s \in w.stack THEN Lower(looked, c, s) ELSE looked
         IN  v \in Walks /\ Walking(g, N, e, root, v) /\ WalkLeft(N, v) < WalkLeft(N, w)
<1> DEFINE x == <<c, s>>
           looked == [w EXCEPT !.todo = @ \ {x}]
           l == IF s \in w.stack THEN [w.low EXCEPT ![c] = Least(@, w.low[s])] ELSE w.low
           v == IF s \in w.stack THEN Lower(looked, c, s) ELSE looked
<1>1. Pushed(N, e, root, w)
  BY DEF Walking
<1>2. w.set \in SUBSET Nodes /\ w.calls \in SUBSET Nodes /\ w.stack \in SUBSET Nodes
      /\ w.dfs \in [Nodes -> Nat] /\ w.low \in [Nodes -> Nat]
      /\ w.todo \in SUBSET (Nodes \X Nodes) /\ w.children \in SUBSET Children
  BY WalkIs
<1>3. l \in [Nodes -> Nat]
  BY <1>2 DEF Least
<1> HIDE DEF x
<1>4. looked = Parts(w.set, w.calls, w.stack, w.dfs, w.low, w.todo \ {x}, w.children)
  BY LookedIs
<1> HIDE DEF looked
<1>5. v = Parts(w.set, w.calls, w.stack, w.dfs, l, w.todo \ {x}, w.children)
  BY <1>4, LowerIs
<1> HIDE DEF v, l
<1>6. /\ v.set = w.set /\ v.calls = w.calls /\ v.stack = w.stack /\ v.dfs = w.dfs /\ v.low = l
      /\ v.todo = w.todo \ {x} /\ v.children = w.children
  BY <1>5, PartsAre
<1>7. v \in Walks
  <2>1. w.todo \ {x} \in SUBSET (Nodes \X Nodes)
    BY <1>2
  <2> QED BY <1>2, <1>3, <1>5, <2>1, IsWalk
<1>8. Walking(g, N, e, root, v)
  <2>1. v.low = IF s \in w.stack THEN [w.low EXCEPT ![c] = Least(@, w.low[s])] ELSE w.low
    BY <1>6 DEF l
  <2>2. v.todo = w.todo \ {<<c, s>>}
    BY <1>6 DEF x
  <2> QED BY <1>6, <2>1, <2>2, WalkLooks
<1>9. WalkLeft(N, v) < WalkLeft(N, w)
  <2>1. x \in w.todo
    BY DEF x
  <2> QED BY <1>1, <1>6, <2>1, LessToLook
<1> QED BY <1>7, <1>8, <1>9 DEF v, looked, x

(* A walk whose last call is done, at the root of a component.             *)
LEMMA TakeStep ==
  ASSUME NEW g, NEW N \in SUBSET Nodes, NEW e \in [N -> SUBSET N], NEW root \in N, NEW w \in Walks,
         Walking(g, N, e, root, w),
         NEW c \in w.calls, \A d \in w.calls : w.dfs[d] <= w.dfs[c],
         \A s : <<c, s>> \notin w.todo, w.low[c] = w.dfs[c]
  PROVE  LET v == [Take(g, e, w, c) EXCEPT !.calls = @ \ {c}]
         IN  /\ v \in Walks /\ Walking(g, N, e, root, v) /\ WalkLeft(N, v) < WalkLeft(N, w)
             /\ \A p \in Nodes : w.low[p] <= w.dfs[c] => Lower(v, p, c) = v
<1> DEFINE scc   == Later(w, c)
           child == [leaf |-> Single(e, scc, c), cf_nodes |-> Entered(g, scc)]
           taken == Take(g, e, w, c)
           v     == [taken EXCEPT !.calls = @ \ {c}]
<1>1. Pushed(N, e, root, w)
  BY DEF Walking
<1>2. w.set \in SUBSET Nodes /\ w.calls \in SUBSET Nodes /\ w.stack \in SUBSET Nodes
      /\ w.dfs \in [Nodes -> Nat] /\ w.low \in [Nodes -> Nat]
      /\ w.todo \in SUBSET (Nodes \X Nodes) /\ w.children \in SUBSET Children
  BY WalkIs
<1>3. scc \in SUBSET Nodes
  BY <1>2 DEF Later
<1>4. taken = Parts(w.set, w.calls, w.stack \ scc, w.dfs, w.low, w.todo, w.children \cup {child})
  <2>1. taken = Parts(w.set, w.calls, w.stack \ Later(w, c), w.dfs, w.low, w.todo,
                      w.children \cup {[leaf |-> Single(e, Later(w, c), c), cf_nodes |-> Entered(g, Later(w, c))]})
    BY TakeIs
  <2> QED BY <2>1
<1>5. scc = Later(w, c)
  OBVIOUS
<1> HIDE DEF scc
<1>6. child \in Children
  <2>1. Single(e, scc, c) \in BOOLEAN /\ Entered(g, scc) \in SUBSET Nodes
    BY <1>3 DEF Single, Entered
  <2> QED BY <2>1 DEF Children
<1>7. child = [leaf |-> Single(e, scc, c), cf_nodes |-> Entered(g, scc)]
  OBVIOUS
<1> HIDE DEF child, taken
<1>9. v = Parts(w.set, w.calls \ {c}, w.stack \ scc, w.dfs, w.low, w.todo, w.children \cup {child})
  <2> DEFINE a == w.set
             b == w.calls
             k == w.stack \ scc
             d == w.dfs
             l == w.low
             t == w.todo
             x == w.children \cup {child}
  <2>1. taken = Parts(a, b, k, d, l, t, x)
    BY <1>4
  <2> HIDE DEF a, b, k, d, l, t, x
  <2>2. taken.calls = b
    BY <2>1, PartsAre
  <2> DEFINE W == Parts(a, b, k, d, l, t, x)
             called == b \ {c}
  <2> HIDE DEF called
  <2>5. [W EXCEPT !.calls = called] = Parts(a, called, k, d, l, t, x)
    BY ReturnIs
  <2> HIDE DEF W
  <2>3. [taken EXCEPT !.calls = b \ {c}] = Parts(a, b \ {c}, k, d, l, t, x)
    BY <2>1, <2>5 DEF W, called
  <2>4. v = Parts(a, b \ {c}, k, d, l, t, x)
    BY <2>2, <2>3
  <2> QED BY <2>4 DEF a, b, k, d, l, t, x
<1> HIDE DEF v
<1>10. /\ v.set = w.set /\ v.calls = w.calls \ {c} /\ v.stack = w.stack \ scc /\ v.dfs = w.dfs /\ v.low = w.low
       /\ v.todo = w.todo /\ v.children = w.children \cup {child}
  BY <1>9, PartsAre
<1>11. v \in Walks
  <2>1. w.calls \ {c} \in SUBSET Nodes /\ w.stack \ scc \in SUBSET Nodes /\ w.children \cup {child} \in SUBSET Children
    BY <1>2, <1>6
  <2> QED BY <1>2, <1>9, <2>1, IsWalk
<1>12. Walking(g, N, e, root, v)
  <2>1. v.children = w.children \cup {[leaf |-> Single(e, scc, c), cf_nodes |-> Entered(g, scc)]}
    BY <1>7, <1>10
  <2> QED BY <1>5, <1>10, <2>1, WalkTakes
<1>13. WalkLeft(N, v) < WalkLeft(N, w)
  BY <1>1, <1>10, LessToReturn
<1>14. ASSUME NEW p \in Nodes, w.low[p] <= w.dfs[c] PROVE Lower(v, p, c) = v
  <2>1. w.low[p] \in Nat /\ w.low[c] \in Nat /\ c \in Nodes
    BY <1>2
  <2>2. Least(w.low[p], w.low[c]) = w.low[p]
    BY <1>14, <2>1 DEF Least
  <2>3. [w.low EXCEPT ![p] = Least(@, w.low[c])] = w.low
    BY <1>2, <2>2
  <2>4. Lower(v, p, c) = Parts(w.set, w.calls \ {c}, w.stack \ scc, w.dfs, [w.low EXCEPT ![p] = Least(@, w.low[c])],
                               w.todo, w.children \cup {child})
    BY <1>9, LowerIs
  <2> QED BY <1>9, <2>3, <2>4
<1> QED BY <1>11, <1>12, <1>13, <1>14 DEF v, taken

(* Elsewhere: there is a caller.                                           *)
LEMMA ReturnStep ==
  ASSUME NEW g, NEW N \in SUBSET Nodes, NEW e \in [N -> SUBSET N], NEW root \in N, NEW w \in Walks,
         Walking(g, N, e, root, w),
         NEW c \in w.calls, \A d \in w.calls : w.dfs[d] <= w.dfs[c],
         \A s : <<c, s>> \notin w.todo, w.low[c] # w.dfs[c],
         NEW p \in w.calls \ {c}, \A d \in w.calls \ {c} : w.dfs[d] <= w.dfs[p]
  PROVE  LET v == Lower([w EXCEPT !.calls = @ \ {c}], p, c)
         IN  v \in Walks /\ Walking(g, N, e, root, v) /\ WalkLeft(N, v) < WalkLeft(N, w)
<1> DEFINE back == [w EXCEPT !.calls = @ \ {c}]
           l == [w.low EXCEPT ![p] = Least(@, w.low[c])]
           v == Lower(back, p, c)
<1>1. Pushed(N, e, root, w)
  BY DEF Walking
<1>2. w.set \in SUBSET Nodes /\ w.calls \in SUBSET Nodes /\ w.stack \in SUBSET Nodes
      /\ w.dfs \in [Nodes -> Nat] /\ w.low \in [Nodes -> Nat]
      /\ w.todo \in SUBSET (Nodes \X Nodes) /\ w.children \in SUBSET Children
  BY WalkIs
<1>3. l \in [Nodes -> Nat]
  BY <1>2 DEF Least
<1>4. back = Parts(w.set, w.calls \ {c}, w.stack, w.dfs, w.low, w.todo, w.children)
  BY LookedIs
<1> HIDE DEF back
<1>5. v = Parts(w.set, w.calls \ {c}, w.stack, w.dfs, l, w.todo, w.children)
  BY <1>4, LowerIs
<1> HIDE DEF v
<1>6. /\ v.set = w.set /\ v.calls = w.calls \ {c} /\ v.stack = w.stack /\ v.dfs = w.dfs /\ v.low = l
      /\ v.todo = w.todo /\ v.children = w.children
  BY <1>5, PartsAre
<1>7. v \in Walks
  <2>1. w.calls \ {c} \in SUBSET Nodes
    BY <1>2
  <2> HIDE DEF l
  <2> QED BY <1>2, <1>3, <1>5, <2>1, IsWalk
<1>8. Walking(g, N, e, root, v)
  BY <1>6, WalkReturns, ZenonT(60)
<1>9. WalkLeft(N, v) < WalkLeft(N, w)
  BY <1>1, <1>6, LessToReturn
<1> QED BY <1>7, <1>8, <1>9 DEF v, back

(* A call that is not the root of a component was called.                  *)
LEMMA HasCaller ==
  ASSUME NEW g, NEW N \in SUBSET Nodes, NEW e \in [N -> SUBSET N], NEW root \in N, NEW w \in Walks,
         Walking(g, N, e, root, w),
         NEW c \in w.calls, c = LastOf(w, w.calls), NEW called, called = w.calls \ {c}
  PROVE  /\ w.low[c] # w.dfs[c] => called # {}
         /\ called # {} => /\ LastOf(w, called) \in called
                           /\ \A d \in called : w.dfs[d] <= w.dfs[LastOf(w, called)]
                           /\ w.low[LastOf(w, called)] <= w.dfs[c]
<1>2. Pushed(N, e, root, w)
  BY DEF Walking
<1>0. c \in w.calls /\ \A d \in w.calls : w.dfs[d] <= w.dfs[c]
  BY <1>2, PushedFacts
<1>1. /\ c \in w.stack /\ c \in w.set
      /\ w.dfs[c] \in Nat /\ w.low[c] \in Nat /\ w.low[c] <= w.dfs[c]
      /\ w.calls \subseteq w.stack /\ w.stack \subseteq w.set
      /\ \A n \in w.set : w.dfs[n] \in Nat /\ w.low[n] \in Nat
  <2>1. \A n \in w.set : w.dfs[n] \in Nat /\ w.low[n] \in Nat
    BY <1>2, PushedFacts
  <2>2. w.calls \subseteq w.stack /\ w.stack \subseteq w.set
    BY <1>2 DEF Pushed
  <2>3. c \in w.stack /\ c \in w.set
    BY <2>2
  <2>4. w.low[c] <= w.dfs[c]
    BY <2>3 DEF Walking, Lowered
  <2> QED BY <2>1, <2>2, <2>3, <2>4
<1>3. ASSUME w.low[c] # w.dfs[c] PROVE called # {}
  <2>1. PICK m \in w.stack : w.dfs[m] = w.low[c]
    BY <1>0, <1>1 DEF Walking, Lowered
  <2>2. PICK d \in w.calls : w.dfs[d] <= w.dfs[m]
    BY DEF Walking, Called
  <2>3. w.dfs[d] \in Nat /\ w.dfs[m] \in Nat
    BY <1>1
  <2>4. d # c
    BY <1>0, <1>1, <1>3, <2>1, <2>2, <2>3
  <2> QED BY <2>4
<1>4. ASSUME called # {}
      PROVE  /\ LastOf(w, called) \in called
             /\ \A d \in called : w.dfs[d] <= w.dfs[LastOf(w, called)]
             /\ w.low[LastOf(w, called)] <= w.dfs[c]
  <2>1. Cardinality(w.set) \in Nat
    BY <1>2, PushedFacts
  <2>2. \A d \in called : w.dfs[d] \in Nat /\ w.dfs[d] < Cardinality(w.set)
    BY <1>1, <1>2 DEF Pushed
  <2> DEFINE p == LastOf(w, called)
  <2>3. p \in called /\ \A d \in called : w.dfs[d] <= w.dfs[p]
    BY <1>4, <2>1, <2>2, LastOfFacts
  <2> HIDE DEF p
  <2>4. p \in w.stack /\ p \in w.set /\ p \in w.calls
    BY <1>1, <2>3
  <2>5. w.low[p] <= w.dfs[p]
    BY <2>4 DEF Walking, Lowered
  <2>6. w.low[p] <= w.dfs[c]
    <3>1. w.dfs[p] <= w.dfs[c] /\ w.dfs[p] \in Nat /\ w.low[p] \in Nat
      BY <1>0, <1>1, <2>4
    <3> QED BY <1>1, <2>5, <3>1
  <2> QED BY <2>3, <2>6 DEF p
<1> QED BY <1>3, <1>4

(* A step of a walk.                                                       *)
LEMMA WalkStep ==
  ASSUME NEW g, NEW N \in SUBSET Nodes, NEW e \in [N -> SUBSET N], NEW root \in N, NEW w \in Walks,
         Walking(g, N, e, root, w)
  PROVE  /\ WalkNext(g, e, w) \in Walks /\ Walking(g, N, e, root, WalkNext(g, e, w))
         /\ w.calls = {} => WalkNext(g, e, w) = w
         /\ w.calls # {} => WalkLeft(N, WalkNext(g, e, w)) < WalkLeft(N, w)
<1>1. CASE w.calls = {}
  BY <1>1 DEF WalkNext
<1>2. CASE w.calls # {}
  <2> DEFINE c      == LastOf(w, w.calls)
             succs  == {s \in Nodes : <<c, s>> \in w.todo}
             succ   == CHOOSE s \in succs : TRUE
             looked == [w EXCEPT !.todo = @ \ {<<c, succ>>}]
             taken  == [Take(g, e, w, c) EXCEPT !.calls = @ \ {c}]
             back   == [w EXCEPT !.calls = @ \ {c}]
             called == w.calls \ {c}
             p      == LastOf(w, called)
             v      == WalkNext(g, e, w)
             Onward(u) == u \in Walks /\ Walking(g, N, e, root, u) /\ WalkLeft(N, u) < WalkLeft(N, w)
  <2>1. /\ succs # {} /\ succ \notin w.set => v = Visit(looked, succ)
        /\ succs # {} /\ succ \in w.set \cap w.stack => v = Lower(looked, c, succ)
        /\ succs # {} /\ succ \in w.set \ w.stack => v = looked
    BY <1>2 DEF WalkNext
  <2>2. /\ succs = {} /\ w.low[c] = w.dfs[c] => v = IF called = {} THEN taken ELSE Lower(taken, p, c)
        /\ succs = {} /\ w.low[c] # w.dfs[c] => v = IF called = {} THEN back ELSE Lower(back, p, c)
    BY <1>2 DEF WalkNext
  <2>3. c = LastOf(w, w.calls) /\ called = w.calls \ {c}
    OBVIOUS
  <2>4. w.todo \subseteq Nodes \X Nodes
    BY WalkIs
  <2> HIDE DEF c, v
  <2>5. c \in w.calls /\ (\A d \in w.calls : w.dfs[d] <= w.dfs[c]) /\ w.calls \subseteq w.set
        /\ w.stack \subseteq w.set /\ w.calls \subseteq Nodes
    <3>1. w.calls \subseteq Nodes
      BY WalkIs
    <3>2. Pushed(N, e, root, w)
      BY DEF Walking
    <3>3. c \in w.calls /\ \A d \in w.calls : w.dfs[d] <= w.dfs[c]
      BY <1>2, <2>3, <3>2, PushedFacts
    <3> QED BY <3>1, <3>3, CurFacts
  <2>6. CASE succs # {}
    <3>1. <<c, succ>> \in w.todo
      BY <2>6
    <3> HIDE DEF succ, succs
    <3>2. CASE succ \notin w.set
      <4>1. Onward(Visit(looked, succ))
        BY <2>5, <3>1, <3>2, VisitStep
      <4> HIDE DEF Onward, looked
      <4>2. Onward(v)
        BY <2>1, <2>6, <3>2, <4>1
      <4> QED BY <1>2, <4>2 DEF Onward, v
    <3>3. CASE succ \in w.set
      <4> DEFINE u == IF succ \in w.stack THEN Lower(looked, c, succ) ELSE looked
      <4>1. Onward(u)
        BY <2>5, <3>1, <3>3, LookStep
      <4>2. v = u
        <5> HIDE DEF looked
        <5> QED BY <2>1, <2>5, <2>6, <3>3
      <4> HIDE DEF Onward, u
      <4>3. Onward(v)
        BY <4>1, <4>2
      <4> QED BY <1>2, <4>3 DEF Onward, v
    <3> QED BY <3>2, <3>3
  <2>7. CASE succs = {}
    <3>1. \A s : <<c, s>> \notin w.todo
      BY <2>4, <2>7
    <3> HIDE DEF succs
    <3>2. /\ w.low[c] # w.dfs[c] => called # {}
          /\ called # {} => p \in called /\ (\A d \in called : w.dfs[d] <= w.dfs[p]) /\ w.low[p] <= w.dfs[c]
      <4> HIDE DEF called
      <4> QED BY <1>2, <2>3, <2>5, HasCaller
    <3>3. CASE w.low[c] = w.dfs[c]
      <4>1. Onward(taken) /\ \A q \in Nodes : w.low[q] <= w.dfs[c] => Lower(taken, q, c) = taken
        BY <2>5, <3>1, <3>3, TakeStep, SMTT(30)
      <4> HIDE DEF Onward, taken, p
      <4>2. called # {} => p \in Nodes
        BY <2>5, <3>2
      <4>3. v = taken
        BY <2>2, <2>7, <3>2, <3>3, <4>1, <4>2
      <4>4. Onward(v)
        BY <4>1, <4>3
      <4> QED BY <1>2, <4>4 DEF Onward, v
    <3>4. CASE w.low[c] # w.dfs[c]
      <4>1. p \in w.calls \ {c} /\ \A d \in w.calls \ {c} : w.dfs[d] <= w.dfs[p]
        BY <3>2, <3>4
      <4> HIDE DEF p
      <4>2. Onward(Lower(back, p, c))
        BY <2>5, <3>1, <3>4, <4>1, ReturnStep
      <4>3. v = Lower(back, p, c)
        <5> HIDE DEF back, called
        <5> QED BY <2>2, <2>7, <3>2, <3>4
      <4> HIDE DEF Onward, back
      <4>4. Onward(v)
        BY <4>2, <4>3
      <4> QED BY <1>2, <4>4 DEF Onward, v
    <3> QED BY <3>3, <3>4
  <2> QED BY <2>6, <2>7
<1> QED BY <1>1, <1>2

(* A walk begins with its root.                                            *)
LEMMA WalkStarts ==
  ASSUME NEW g, NEW N \in SUBSET Nodes, NEW e \in [N -> SUBSET N], NEW root \in N,
         NEW none, none = [n \in Nodes |-> 0],
         NEW start, start = [set |-> {}, calls |-> {}, stack |-> {}, dfs |-> none, low |-> none,
                             todo |-> {a \in Nodes \X Nodes : a[1] \in DOMAIN e /\ a[2] \in e[a[1]]},
                             children |-> {}]
  PROVE  /\ Visit(start, root) \in Walks /\ Walking(g, N, e, root, Visit(start, root))
         /\ WalkLeft(N, Visit(start, root)) <= Exit * Exit + 2 * Exit
<1> DEFINE v    == Visit(start, root)
           todo == {a \in Nodes \X Nodes : a[1] \in DOMAIN e /\ a[2] \in e[a[1]]}
<1>1. Cardinality({}) = 0 /\ Cardinality({root}) = 1
  BY FS_EmptySet, FS_Singleton
<1>2. none \in [Nodes -> Nat] /\ root \in Nodes /\ none[root] = 0
  OBVIOUS
<1>3. /\ v.set = {root} /\ v.calls = {root} /\ v.stack = {root} /\ v.dfs = [none EXCEPT ![root] = 0]
      /\ v.low = [none EXCEPT ![root] = 0] /\ v.todo = todo /\ v.children = {}
      /\ v = [set |-> {root}, calls |-> {root}, stack |-> {root}, dfs |-> [none EXCEPT ![root] = 0],
              low |-> [none EXCEPT ![root] = 0], todo |-> todo, children |-> {}]
  <2> HIDE DEF todo
  <2>1. start = [set |-> {}, calls |-> {}, stack |-> {}, dfs |-> none, low |-> none, todo |-> todo, children |-> {}]
    BY DEF todo
  <2>2. {} \cup {root} = {root}
    OBVIOUS
  <2> DEFINE z == {}
  <2>3. start = Parts(z, z, z, none, none, todo, z)
    BY <2>1 DEF Parts
  <2> HIDE DEF z
  <2>4. v = Parts(z \cup {root}, z \cup {root}, z \cup {root}, [none EXCEPT ![root] = Cardinality(z)],
                  [none EXCEPT ![root] = Cardinality(z)], todo, z)
    <3> DEFINE W == Parts(z, z, z, none, none, todo, z)
    <3>1. start = W
      BY <2>3
    <3>2. Visit(W, root) = Parts(z \cup {root}, z \cup {root}, z \cup {root}, [none EXCEPT ![root] = Cardinality(z)],
                                 [none EXCEPT ![root] = Cardinality(z)], todo, z)
      <4> HIDE DEF todo
      <4> QED BY VisitIs
    <3> HIDE DEF W, todo
    <3> QED BY <3>1, <3>2
  <2>5. v = Parts({root}, {root}, {root}, [none EXCEPT ![root] = 0], [none EXCEPT ![root] = 0], todo, {})
    BY <1>1, <2>2, <2>4 DEF z
  <2> HIDE DEF v
  <2> QED BY <2>5, PartsAre DEF Parts
<1>4. [none EXCEPT ![root] = 0] = none
  BY <1>2
<1>5. todo \in SUBSET (Nodes \X Nodes) /\ \A a, b : <<a, b>> \in todo <=> a \in N /\ b \in e[a]
  <2>1. DOMAIN e = N
    OBVIOUS
  <2>2. \A a \in N : \A b \in e[a] : a \in Nodes /\ b \in Nodes
    OBVIOUS
  <2> QED BY <2>1, <2>2
<1> HIDE DEF v, todo
<1>6. v \in Walks
  BY <1>2, <1>3, <1>4, <1>5 DEF Walks
<1>7. root \in From(e, root)
  BY FromFacts
<1>8. Pushed(N, e, root, v)
  BY <1>1, <1>2, <1>3, <1>4, <1>7 DEF Pushed
<1>9. Looked(N, e, v)
  <2>1. \A a, b : <<a, b>> \in v.todo => a \in N /\ b \in e[a] /\ (a \in v.set => a \in v.calls)
    BY <1>3, <1>5
  <2>2. \A a \in N \ v.set, b \in N : b \in e[a] => <<a, b>> \in v.todo
    BY <1>3, <1>5
  <2>3. \A a \in v.set, b \in N : b \in e[a] => <<a, b>> \in v.todo
    BY <1>3, <1>5
  <2>4. v.set \ v.stack = {}
    BY <1>3
  <2> QED BY <2>1, <2>2, <2>3, <2>4 DEF Looked
<1>10. Lowered(e, v)
  BY <1>2, <1>3, <1>4, <1>7 DEF Lowered
<1>11. Called(e, v)
  BY <1>2, <1>3, <1>4, <1>7 DEF Called
<1>12. v.children = {Child(g, e, n) : n \in v.set \ v.stack}
  BY <1>3
<1>13. Walking(g, N, e, root, v)
  BY <1>8, <1>9, <1>10, <1>11, <1>12 DEF Walking
<1>14. WalkLeft(N, v) <= Exit * Exit + 2 * Exit
  <2>1. Cardinality(v.todo) <= Exit * Exit /\ Cardinality(v.todo) \in Nat
    BY <1>6, <1>8, WalkLeftFacts
  <2>2. Cardinality(v.calls) = 1
    BY <1>1, <1>3
  <2>3. Cardinality(N \ v.set) = Cardinality(N) - 1 /\ Cardinality(N) \in Nat /\ Cardinality(N) <= Exit
    BY <1>3, SomeNodes, OneLess
  <2>4. Exit \in Nat
    BY NodesFinite
  <2> DEFINE a == Cardinality(v.todo)
             b == Cardinality(N)
             s == Exit * Exit
  <2>5. WalkLeft(N, v) = a + 2 * (b - 1) + 1
    BY <2>2, <2>3 DEF WalkLeft
  <2>6. s \in Nat /\ a <= s /\ a \in Nat /\ b \in Nat /\ b <= Exit
    BY <2>1, <2>3, <2>4
  <2> HIDE DEF a, b, s
  <2>7. a + 2 * (b - 1) + 1 <= s + 2 * Exit
    BY <2>4, <2>6
  <2> QED BY <2>5, <2>7 DEF s
<1> QED BY <1>6, <1>13, <1>14 DEF v

(* walk_scc finds the components of what its root leads to.                *)
LEMMA WalkFacts ==
  ASSUME NEW g, NEW N \in SUBSET Nodes, NEW e \in [N -> SUBSET N], NEW root \in N
  PROVE  WalkScc(g, e, root) = {Child(g, e, n) : n \in From(e, root)}
<1> DEFINE none    == [n \in Nodes |-> 0]
           start   == [set |-> {}, calls |-> {}, stack |-> {}, dfs |-> none, low |-> none,
                       todo |-> {a \in Nodes \X Nodes : a[1] \in DOMAIN e /\ a[2] \in e[a[1]]},
                       children |-> {}]
           first   == Visit(start, root)
           n       == Exit * Exit + 2 * Exit
           V       == {w \in Walks : Walking(g, N, e, root, w)}
           step    == [w \in Walks |-> WalkNext(g, e, w)]
           measure == [w \in Walks |-> WalkLeft(N, w)]
           Done    == {w \in Walks : w.calls = {}}
           last    == Iterated(step, n, first)
<1>1. WalkScc(g, e, root) = last.children
  BY DEF WalkScc
<1>2. n \in Nat
  BY NodesFinite
<1>3. first \in Walks /\ Walking(g, N, e, root, first) /\ WalkLeft(N, first) <= n
  <2> HIDE DEF start, none
  <2> QED BY WalkStarts DEF start, none
<1>4. /\ \A w \in Walks : step[w] = WalkNext(g, e, w) /\ measure[w] = WalkLeft(N, w)
  OBVIOUS
<1> HIDE DEF step, measure, first, n
<1>5. first \in V /\ measure[first] <= n
  BY <1>3, <1>4 DEF n
<1>6. ASSUME NEW w \in V
      PROVE  /\ step[w] \in V /\ measure[w] \in Nat
             /\ w \in Done => step[w] \in Done
             /\ w \notin Done => measure[step[w]] < measure[w]
  <2>1. w \in Walks /\ Walking(g, N, e, root, w) /\ step[w] = WalkNext(g, e, w)
    BY <1>4
  <2>2. /\ WalkNext(g, e, w) \in Walks /\ Walking(g, N, e, root, WalkNext(g, e, w))
        /\ w.calls = {} => WalkNext(g, e, w) = w
        /\ w.calls # {} => WalkLeft(N, WalkNext(g, e, w)) < WalkLeft(N, w)
    BY <2>1, WalkStep
  <2>3. measure[w] = WalkLeft(N, w) /\ measure[step[w]] = WalkLeft(N, WalkNext(g, e, w))
    BY <1>4, <2>1, <2>2
  <2>4. Pushed(N, e, root, w)
    BY <2>1 DEF Walking
  <2>5. WalkLeft(N, w) \in Nat
    <3>1. Cardinality(w.todo) \in Nat /\ Cardinality(N \ w.set) \in Nat /\ Cardinality(w.calls) \in Nat
      BY <2>1, <2>4, WalkLeftFacts
    <3> QED BY <3>1 DEF WalkLeft
  <2> QED BY <2>1, <2>2, <2>3, <2>5
<1>7. last \in V /\ last \in Done
  <2>1. \A w \in V : step[w] \in V
    BY <1>6
  <2>2. \A w \in V : measure[w] \in Nat
    BY <1>6
  <2>3. \A w \in V : w \in Done => step[w] \in Done
    BY <1>6
  <2>4. \A w \in V : w \notin Done => measure[step[w]] < measure[w]
    BY <1>6
  <2> HIDE DEF V, Done
  <2> QED BY <1>2, <1>5, <2>1, <2>2, <2>3, <2>4, IteratedEnds, Zenon
<1> HIDE DEF last
<1>8. Walking(g, N, e, root, last) /\ last.calls = {}
  BY <1>7
<1>9. last.stack = {}
  BY <1>8 DEF Walking, Called
<1>10. last.set \in SUBSET From(e, root) /\ root \in last.set /\ \A a \in last.set : e[a] \subseteq last.set
  BY <1>8, <1>9 DEF Walking, Pushed, Looked
<1>11. last.set = From(e, root)
  <2> DEFINE T == last.set
  <2>1. root \in T /\ \A m \in T \cap N : e[m] \subseteq T
    BY <1>10
  <2> HIDE DEF T
  <2>2. From(e, root) \subseteq T
    BY <2>1, FromFacts
  <2> QED BY <1>10, <2>2 DEF T
<1>12. last.children = {Child(g, e, x) : x \in last.set \ last.stack}
  BY <1>8 DEF Walking
<1> QED BY <1>1, <1>9, <1>11, <1>12

-----------------------------------------------------------------------------
(* The walks from the heads of a Head.                                     *)

(* The edges to nodes that are not marked.                                 *)
LEMMA OpenFacts ==
  ASSUME NEW N, NEW g, Numbered(g, N), NEW H
  PROVE  /\ N \in SUBSET Nodes /\ g.succs \in [N -> SUBSET N] /\ Open(g, H) \in [N -> SUBSET N]
         /\ \A m \in N : Open(g, H)[m] = g.succs[m] \ H
<1>1. N \in SUBSET Nodes /\ g.succs \in [N -> SUBSET N]
  BY DEF Numbered
<1> QED BY <1>1 DEF Open

(* A set of nodes is entered at the entry and at those that a node outside *)
(* leads to, and somewhere: at the one with the least number.              *)
LEMMA EnteredFacts ==
  ASSUME NEW N, NEW g, Numbered(g, N), NEW C \in SUBSET N
  PROVE  /\ Entered(g, C) \in SUBSET C
         /\ \A t \in C, m \in N \ C : t \in g.succs[m] => t \in Entered(g, C)
         /\ \A t \in C : t = g.entry => t \in Entered(g, C)
         /\ \A t \in C \ Entered(g, C) : t # g.entry /\ \A m \in N : t \in g.succs[m] => m \in C
         /\ C # {} => Entered(g, C) # {}
<1>1. \A t \in N : g.preds[t] = {m \in N : t \in g.succs[m]}
  BY PredFacts
<1>2. \A t \in C : t \in N
  OBVIOUS
<1>3. \A t \in C : t \in Entered(g, C) <=> t = g.entry \/ \E m \in N \ C : t \in g.succs[m]
  BY <1>1, <1>2 DEF Entered
<1>4. ASSUME C # {} PROVE Entered(g, C) # {}
  <2> DEFINE T == {g.index[n] : n \in C}
  <2>1. g.index \in [N -> Nat]
    BY IndexFacts
  <2>2. T \in SUBSET Nat /\ T # {}
    BY <1>4, <2>1
  <2> HIDE DEF T
  <2>3. PICK x \in T : \A y \in T : x <= y
    BY <2>2, LeastNumber
  <2>4. PICK n \in C : g.index[n] = x
    BY <2>3 DEF T
  <2>5. CASE n = g.entry
    BY <1>3, <2>5
  <2>6. CASE n # g.entry
    <3>1. PICK m \in N : n \in g.succs[m] /\ g.index[m] < g.index[n]
      BY <1>2, <2>6 DEF Numbered
    <3>2. m \notin C
      <4>1. m \in C => x <= g.index[m]
        BY <2>3 DEF T
      <4>2. g.index[m] \in Nat /\ g.index[n] \in Nat
        BY <1>2, <2>1
      <4> QED BY <2>4, <3>1, <4>1, <4>2
    <3> QED BY <1>3, <3>1, <3>2
  <2> QED BY <2>5, <2>6
<1>5. Entered(g, C) \in SUBSET C
  BY DEF Entered
<1> QED BY <1>3, <1>4, <1>5

(* Without the edges into a closed set, the rest is as it was.             *)
Beyond(N, e, R, f) == (\A m \in R : e[m] \subseteq R) /\ \A m \in N \ R : f[m] = e[m] \ R

(* So beyond R the same components are found.                              *)
LEMMA AfterReached ==
  ASSUME NEW N \in SUBSET Nodes, NEW e \in [N -> SUBSET N], NEW R \in SUBSET N,
         NEW f \in [N -> SUBSET N], Beyond(N, e, R, f)
  PROVE  \A n \in N \ R : /\ From(f, n) = From(e, n) \ R /\ Component(f, n) = Component(e, n)
                          /\ Component(e, n) \cap R = {}
<1>0. (\A m \in R : e[m] \subseteq R) /\ \A m \in N \ R : f[m] = e[m] \ R
  BY DEF Beyond
<1>1. /\ \A n \in N : From(e, n) \in SUBSET N /\ n \in From(e, n)
      /\ \A n \in N : \A m \in From(e, n) : e[m] \subseteq From(e, n)
      /\ \A n \in N : \A T : n \in T /\ (\A m \in T \cap N : e[m] \subseteq T) => From(e, n) \subseteq T
  BY FromFacts
<1>2. /\ \A n \in N : From(f, n) \in SUBSET N /\ n \in From(f, n)
      /\ \A n \in N : \A m \in From(f, n) : f[m] \subseteq From(f, n)
      /\ \A n \in N : \A T : n \in T /\ (\A m \in T \cap N : f[m] \subseteq T) => From(f, n) \subseteq T
  BY FromFacts
<1>3. ASSUME NEW n \in N \ R PROVE From(f, n) = From(e, n) \ R
  <2>1. From(f, n) \subseteq From(e, n) \ R
    <3> DEFINE T == From(e, n) \ R
    <3>1. n \in T
      BY <1>1
    <3>2. ASSUME NEW m \in T \cap N PROVE f[m] \subseteq T
      BY <1>0, <1>1
    <3> HIDE DEF T
    <3>3. From(f, n) \subseteq T
      BY <1>2, <3>1, <3>2
    <3> QED BY <3>3 DEF T
  <2>2. From(e, n) \subseteq From(f, n) \cup R
    <3> DEFINE T == From(f, n) \cup R
    <3>1. n \in T
      BY <1>2
    <3>2. ASSUME NEW m \in T \cap N PROVE e[m] \subseteq T
      <4>1. CASE m \in R
        BY <1>0, <4>1
      <4>2. CASE m \notin R
        <5>1. f[m] = e[m] \ R /\ f[m] \subseteq From(f, n)
          BY <1>0, <1>2, <3>2, <4>2
        <5> QED BY <5>1
      <4> QED BY <4>1, <4>2
    <3> HIDE DEF T
    <3>3. From(e, n) \subseteq T
      BY <1>1, <3>1, <3>2
    <3> QED BY <3>3 DEF T
  <2> QED BY <2>1, <2>2
<1>4. ASSUME NEW n \in N \ R PROVE Component(e, n) \cap R = {}
  <2> SUFFICES ASSUME NEW m \in Component(e, n), m \in R PROVE FALSE
    OBVIOUS
  <2>1. n \in From(e, m) /\ m \in N
    BY DEF Component
  <2>2. From(e, m) \subseteq R
    BY <1>0, <1>1, <2>1
  <2> QED BY <2>1, <2>2
<1>5. ASSUME NEW n \in N \ R PROVE Component(f, n) = Component(e, n)
  <2>1. \A m \in N \ R : n \in From(f, m) <=> n \in From(e, m)
    BY <1>3
  <2>2. \A m : m \in Component(e, n) <=> m \in From(e, n) /\ n \in From(e, m)
    BY DEF Component
  <2>3. \A m : m \in Component(f, n) <=> m \in From(f, n) /\ n \in From(f, m)
    BY DEF Component
  <2>4. \A m : m \in Component(f, n) <=> m \in Component(e, n)
    BY <1>1, <1>3, <1>4, <2>1, <2>2, <2>3
  <2> QED BY <2>4
<1> QED BY <1>3, <1>4, <1>5

(* What the walks that have reached R mark.                                *)
Marked(g, H, R) == H \cup UNION {Entered(g, Component(Open(g, H), n)) : n \in R}

(* What was reached is closed, and the edges into it are now to heads.     *)
LEMMA MarkedFacts ==
  ASSUME NEW N, NEW g, Numbered(g, N), NEW H \in SUBSET N, NEW R \in SUBSET N,
         NEW e, e = Open(g, H), \A m \in R : e[m] \subseteq R
  PROVE  /\ Marked(g, H, R) \in SUBSET N /\ Marked(g, H, R) \subseteq H \cup R
         /\ \A m \in N \ R : Open(g, Marked(g, H, R))[m] = e[m] \ R
<1>1. /\ N \in SUBSET Nodes /\ g.succs \in [N -> SUBSET N] /\ e \in [N -> SUBSET N]
      /\ \A m \in N : e[m] = g.succs[m] \ H
      /\ \A m \in N : Open(g, Marked(g, H, R))[m] = g.succs[m] \ Marked(g, H, R)
  BY OpenFacts
<1>2. ASSUME NEW n \in R
      PROVE  /\ Component(e, n) \in SUBSET R /\ n \in Component(e, n) /\ Component(e, n) \in SUBSET N
             /\ Entered(g, Component(e, n)) \subseteq R
  <2>1. n \in N
    OBVIOUS
  <2>2. From(e, n) \subseteq R
    BY <1>1, <2>1, FromFacts
  <2>3. Component(e, n) \subseteq From(e, n)
    BY DEF Component
  <2>4. n \in Component(e, n) /\ Component(e, n) \in SUBSET N
    BY <1>1, <2>1, ComponentFacts, SMTT(30)
  <2> QED BY <2>2, <2>3, <2>4, EnteredFacts
<1>3. Marked(g, H, R) \subseteq H \cup R
  BY <1>2 DEF Marked
<1>4. ASSUME NEW m \in N \ R PROVE Open(g, Marked(g, H, R))[m] = e[m] \ R
  <2>1. ASSUME NEW t \in e[m], t \in R PROVE t \in Marked(g, H, R)
    <3>1. t \in g.succs[m] /\ m \notin Component(e, t) /\ t \in Component(e, t) /\ Component(e, t) \in SUBSET N
      BY <1>1, <1>2, <2>1
    <3>2. t \in Entered(g, Component(e, t))
      BY <3>1, EnteredFacts
    <3> QED BY <2>1, <3>2 DEF Marked
  <2>2. ASSUME NEW t \in e[m], t \notin R PROVE t \notin Marked(g, H, R)
    BY <1>1, <1>3, <2>2
  <2>3. H \subseteq Marked(g, H, R)
    BY DEF Marked
  <2>4. \A t : t \in e[m] \ R <=> t \in g.succs[m] \ Marked(g, H, R)
    BY <1>1, <2>1, <2>2, <2>3
  <2> QED BY <1>1, <2>4
<1>5. Marked(g, H, R) \in SUBSET N
  BY <1>3
<1> QED BY <1>3, <1>4, <1>5

(* A walk beyond R finds the components not reached before.                *)
LEMMA WalkBeyond ==
  ASSUME NEW g, NEW N \in SUBSET Nodes, NEW e \in [N -> SUBSET N], NEW R \in SUBSET N,
         NEW f \in [N -> SUBSET N], Beyond(N, e, R, f), NEW h \in N \ R
  PROVE  WalkScc(g, f, h) = {Child(g, e, n) : n \in From(e, h) \ R}
<1>1. \A n \in N \ R : f[n] = e[n] \ R
  BY DEF Beyond
<1>2. \A n \in N \ R : /\ From(f, n) = From(e, n) \ R /\ Component(f, n) = Component(e, n)
                       /\ Component(e, n) \cap R = {}
  BY AfterReached
<1>3. WalkScc(g, f, h) = {Child(g, f, n) : n \in From(f, h)}
  BY WalkFacts
<1>4. From(e, h) \in SUBSET N
  BY FromFacts
<1>5. ASSUME NEW n \in From(e, h) \ R PROVE Child(g, f, n) = Child(g, e, n)
  <2>1. n \in N \ R /\ f[n] = e[n] \ R /\ Component(f, n) = Component(e, n)
    BY <1>1, <1>2, <1>4
  <2>2. Single(f, Component(e, n), n) = Single(e, Component(e, n), n)
    BY <2>1 DEF Single
  <2> QED BY <2>1, <2>2 DEF Child
<1>6. From(f, h) = From(e, h) \ R
  BY <1>2
<1> QED BY <1>3, <1>5, <1>6

(* The walk after those that reached R.                                    *)
LEMMA WalkOne ==
  ASSUME NEW N, NEW g, Numbered(g, N), NEW H \in SUBSET N, NEW R \in SUBSET N,
         \A m \in R : Open(g, H)[m] \subseteq R, NEW h \in N \ R
  PROVE  WalkScc(g, Open(g, Marked(g, H, R)), h) = {Child(g, Open(g, H), n) : n \in From(Open(g, H), h) \ R}
<1> DEFINE e == Open(g, H)
           f == Open(g, Marked(g, H, R))
<1>1. /\ N \in SUBSET Nodes /\ e \in [N -> SUBSET N] /\ f \in [N -> SUBSET N]
  BY OpenFacts
<1>2. \A m \in R : e[m] \subseteq R
  OBVIOUS
<1> HIDE DEF e
<1>3. \A m \in N \ R : f[m] = e[m] \ R
  BY <1>2, MarkedFacts DEF e
<1> HIDE DEF f
<1>4. Beyond(N, e, R, f)
  BY <1>2, <1>3 DEF Beyond
<1>5. WalkScc(g, f, h) = {Child(g, e, n) : n \in From(e, h) \ R}
  BY <1>1, <1>4, WalkBeyond
<1> QED BY <1>5 DEF e, f

(* The walks that have reached R, and the next from h.                     *)
Reaching(g, H, R) == [heads |-> Marked(g, H, R), children |-> {Child(g, Open(g, H), n) : n \in R}]
Headed(g, u, h)   == LET new == WalkScc(g, Open(g, u.heads), h)
                     IN  [heads |-> u.heads \cup UNION {c.cf_nodes : c \in new}, children |-> u.children \cup new]

(* It adds what its head leads to.                                         *)
LEMMA HeadedFacts ==
  ASSUME NEW N, NEW g, Numbered(g, N), NEW H \in SUBSET N, NEW R \in SUBSET N,
         \A m \in R : Open(g, H)[m] \subseteq R, NEW h \in N \ R
  PROVE  Headed(g, Reaching(g, H, R), h) = Reaching(g, H, R \cup From(Open(g, H), h))
<1> DEFINE e   == Open(g, H)
           F   == From(e, h)
           new == WalkScc(g, Open(g, Marked(g, H, R)), h)
<1>1. new = {Child(g, e, n) : n \in F \ R}
  BY WalkOne
<1> HIDE DEF new
<1>2. Headed(g, Reaching(g, H, R), h) =
        [heads    |-> Marked(g, H, R) \cup UNION {c.cf_nodes : c \in new},
         children |-> {Child(g, e, n) : n \in R} \cup new]
  BY DEF Headed, Reaching, new
<1> HIDE DEF F
<1>3. {Child(g, e, n) : n \in R} \cup new = {Child(g, e, n) : n \in R \cup F}
  BY <1>1
<1>4. Marked(g, H, R) \cup UNION {c.cf_nodes : c \in new} = Marked(g, H, R \cup F)
  <2>1. \A n \in N \cup F : Child(g, e, n).cf_nodes = Entered(g, Component(e, n))
    BY DEF Child
  <2>2. UNION {c.cf_nodes : c \in new} = UNION {Entered(g, Component(e, n)) : n \in F \ R}
    BY <1>1, <2>1
  <2> DEFINE M(n) == Entered(g, Component(e, n))
  <2> HIDE DEF M
  <2>3. (UNION {M(n) : n \in R}) \cup (UNION {M(n) : n \in F \ R}) = UNION {M(n) : n \in R \cup F}
    OBVIOUS
  <2> QED BY <2>2, <2>3 DEF Marked, M
<1> QED BY <1>2, <1>3, <1>4 DEF Reaching, F

(* What is led to by the nodes of s up to the i-th.                        *)
Before(e, s, i) == UNION {From(e, s[j]) : j \in 1 .. i}

(* The heads of a Head are marked, or there is only one.                   *)
Apart(N, H, X) == X \in SUBSET N /\ (X \subseteq H \/ \E x \in N : X = {x})

(* What they lead to grows to the closure, a head at a time.               *)
LEMMA BeforeFacts ==
  ASSUME NEW N, NEW g, Numbered(g, N), NEW H \in SUBSET N, NEW X, Apart(N, H, X)
  PROVE  LET e == Open(g, H)
             s == SetToSeq(X)
         IN  /\ \A i \in Nat : i <= Len(s) => /\ Before(e, s, i) \in SUBSET N
                                              /\ \A m \in Before(e, s, i) : e[m] \subseteq Before(e, s, i)
             /\ \A i \in Nat : i < Len(s) => /\ s[i + 1] \in N \ Before(e, s, i)
                                             /\ Before(e, s, i + 1) = Before(e, s, i) \cup From(e, s[i + 1])
             /\ Before(e, s, 0) = {} /\ Before(e, s, Len(s)) = Closure(e, X)
<1> DEFINE e == Open(g, H)
           s == SetToSeq(X)
           n == Len(s)
<1>1. /\ N \in SUBSET Nodes /\ g.succs \in [N -> SUBSET N] /\ e \in [N -> SUBSET N] /\ X \in SUBSET N
      /\ \A m \in N : e[m] = g.succs[m] \ H
  BY OpenFacts DEF Apart
<1>2. IsFiniteSet(X)
  BY <1>1, SomeNodes
<1>3. s \in Seq(X) /\ n \in Nat /\ Range(s) = X /\ \A i, j \in 1 .. n : s[i] = s[j] => i = j
  BY <1>2, SetToSeqFacts
<1>a. \A x \in N : x \in H => \A m \in N : x \notin e[m]
  BY <1>1
<1> HIDE DEF e, s
<1>4. \A i \in 1 .. n : s[i] \in X /\ s[i] \in N
  BY <1>1, <1>3
<1>5. \A x \in X : \E i \in 1 .. n : x = s[i]
  BY <1>3 DEF Range
<1>6. /\ \A x \in N : From(e, x) \in SUBSET N /\ x \in From(e, x)
      /\ \A x \in N : \A m \in From(e, x) : e[m] \subseteq From(e, x)
      /\ \A x \in N : \A T : x \in T /\ (\A m \in T \cap N : e[m] \subseteq T) => From(e, x) \subseteq T
  BY <1>1, FromFacts
<1>7. ASSUME NEW i \in Nat, i <= n
      PROVE  Before(e, s, i) \in SUBSET N /\ \A m \in Before(e, s, i) : e[m] \subseteq Before(e, s, i)
  <2>1. \A j \in 1 .. i : s[j] \in N
    BY <1>3, <1>4, <1>7
  <2> QED BY <1>6, <2>1 DEF Before
<1>8. ASSUME NEW i \in Nat, i < n
      PROVE  Before(e, s, i + 1) = Before(e, s, i) \cup From(e, s[i + 1])
  <2>1. 1 .. i + 1 = (1 .. i) \cup {i + 1}
    OBVIOUS
  <2> QED BY <2>1 DEF Before
<1>9. ASSUME NEW i \in Nat, i < n PROVE s[i + 1] \in N \ Before(e, s, i)
  <2>1. i + 1 \in 1 .. n /\ s[i + 1] \in N /\ s[i + 1] \in X
    BY <1>3, <1>4, <1>9
  <2>2. ASSUME NEW j \in 1 .. i PROVE s[i + 1] \notin From(e, s[j])
    <3>1. j \in 1 .. n /\ j # i + 1
      BY <1>3, <1>9
    <3>2. s[j] # s[i + 1] /\ s[j] \in N /\ s[j] \in X
      BY <1>3, <1>4, <2>1, <3>1
    <3>3. s[i + 1] \in H
      BY <2>1, <3>2 DEF Apart
    <3> DEFINE T == N \ {s[i + 1]}
    <3>4. s[j] \in T /\ \A m \in T \cap N : e[m] \subseteq T
      BY <1>1, <1>a, <2>1, <3>2, <3>3
    <3> HIDE DEF T
    <3>5. From(e, s[j]) \subseteq T
      BY <1>6, <3>2, <3>4
    <3> QED BY <3>5 DEF T
  <2> QED BY <2>1, <2>2 DEF Before
<1>10. Before(e, s, 0) = {}
  BY DEF Before
<1>11. Before(e, s, n) = Closure(e, X)
  <2> DEFINE C == Closure(e, X)
             B == Before(e, s, n)
  <2>1. /\ C \in SUBSET N /\ X \subseteq C /\ \A m \in C : e[m] \subseteq C
        /\ \A T : X \subseteq T /\ (\A m \in T \cap N : e[m] \subseteq T) => C \subseteq T
    BY <1>1, ClosureFacts
  <2> HIDE DEF C
  <2>2. B \subseteq C
    <3>1. ASSUME NEW j \in 1 .. n PROVE From(e, s[j]) \subseteq C
      <4>1. s[j] \in C /\ s[j] \in N
        BY <1>4, <2>1
      <4> QED BY <1>6, <2>1, <4>1
    <3> QED BY <3>1 DEF Before
  <2>3. X \subseteq B
    <3>1. ASSUME NEW x \in X PROVE x \in B
      <4>1. PICK j \in 1 .. n : x = s[j]
        BY <1>5
      <4>2. x \in From(e, s[j])
        BY <1>4, <1>6, <4>1
      <4> QED BY <4>2 DEF Before
    <3> QED BY <3>1
  <2>4. B \in SUBSET N /\ \A m \in B : e[m] \subseteq B
    BY <1>3, <1>7
  <2> HIDE DEF B
  <2>5. C \subseteq B
    BY <2>1, <2>3, <2>4
  <2> QED BY <2>2, <2>5 DEF B, C
<1> QED BY <1>7, <1>8, <1>9, <1>10, <1>11 DEF e, s

(* The walks from the heads of a Head reach what these lead to.            *)
LEMMA HeadsFacts ==
  ASSUME NEW N, NEW g, Numbered(g, N), NEW H \in SUBSET N, NEW X, Apart(N, H, X)
  PROVE  WalkHeads(g, H, X) = Reaching(g, H, Closure(Open(g, H), X))
<1> DEFINE e     == Open(g, H)
           s     == SetToSeq(X)
           step  == [a \in Found \X Nodes |-> Headed(g, a[1], a[2])]
           start == [heads |-> H, children |-> {}]
<1>1. WalkHeads(g, H, X) = Folded(step, start, s)
  BY DEF WalkHeads, Headed
<1>2. N \in SUBSET Nodes /\ e \in [N -> SUBSET N] /\ X \in SUBSET N
  BY OpenFacts DEF Apart
<1>3. IsFiniteSet(X)
  BY <1>2, SomeNodes
<1>4. s \in Seq(X) /\ s \in Seq(N) /\ Len(s) \in Nat
  <2>1. s \in Seq(X) /\ Len(s) \in Nat
    BY <1>3, SetToSeqFacts
  <2> HIDE DEF s
  <2>2. s \in Seq(N)
    BY <1>2, <2>1
  <2> QED BY <2>1, <2>2
<1>5. \A u \in Found, h \in N : step[<<u, h>>] = Headed(g, u, h)
  BY <1>2
<1>6. start \in Found
  BY <1>2 DEF Found
<1>7. ASSUME NEW u \in Found, NEW h \in N PROVE Headed(g, u, h) \in Found
  <2> DEFINE f   == Open(g, u.heads)
             new == WalkScc(g, f, h)
  <2>1. f \in [N -> SUBSET N] /\ u.heads \in SUBSET Nodes /\ u.children \in SUBSET Children
    BY OpenFacts DEF Found
  <2> HIDE DEF f
  <2>2. new = {Child(g, f, n) : n \in From(f, h)} /\ From(f, h) \in SUBSET N
    <3>1. From(f, h) \in SUBSET N
      BY <1>2, <2>1, FromFacts
    <3>2. new = {Child(g, f, n) : n \in From(f, h)}
      BY <1>2, <2>1, WalkFacts
    <3> QED BY <3>1, <3>2
  <2>3. ASSUME NEW n \in N PROVE Child(g, f, n) \in Children
    <3>1. Component(f, n) \in SUBSET N
      BY <1>2, <2>1, ComponentFacts
    <3>2. Entered(g, Component(f, n)) \in SUBSET Nodes
      BY <1>2, <3>1 DEF Entered
    <3>3. Single(f, Component(f, n), n) \in BOOLEAN
      BY DEF Single
    <3> QED BY <3>2, <3>3 DEF Child, Children
  <2>4. new \in SUBSET Children
    BY <2>2, <2>3
  <2>5. Headed(g, u, h) = [heads |-> u.heads \cup UNION {c.cf_nodes : c \in new}, children |-> u.children \cup new]
    BY DEF Headed, f
  <2> HIDE DEF new
  <2>6. \A c \in new : c.cf_nodes \in SUBSET Nodes
    BY <2>4 DEF Children
  <2> QED BY <2>1, <2>4, <2>5, <2>6 DEF Found
<1> HIDE DEF step, start, s
<1>8. \A u \in Found, h \in N : step[<<u, h>>] \in Found
  BY <1>5, <1>7
<1>9. PICK f \in [Nat -> Found] : Folds(f, step, start, s)
  BY <1>4, <1>6, <1>8, FoldedFacts, Zenon
<1>10. /\ f[0] = start
       /\ \A k \in Nat : k < Len(s) => f[k + 1] = step[<<f[k], s[k + 1]>>]
       /\ Folded(step, start, s) = f[Len(s)]
  BY <1>9 DEF Folds
<1>11. /\ \A i \in Nat : i <= Len(s) => /\ Before(e, s, i) \in SUBSET N
                                        /\ \A m \in Before(e, s, i) : e[m] \subseteq Before(e, s, i)
       /\ \A i \in Nat : i < Len(s) => /\ s[i + 1] \in N \ Before(e, s, i)
                                       /\ Before(e, s, i + 1) = Before(e, s, i) \cup From(e, s[i + 1])
       /\ Before(e, s, 0) = {} /\ Before(e, s, Len(s)) = Closure(e, X)
  BY BeforeFacts DEF s
<1> DEFINE T == {i \in Nat : i <= Len(s) => f[i] = Reaching(g, H, Before(e, s, i))}
<1>12. 0 \in T
  <2>1. Marked(g, H, {}) = H
    BY DEF Marked
  <2>2. Reaching(g, H, {}) = start
    BY <2>1 DEF Reaching, start
  <2> QED BY <1>10, <1>11, <2>2
<1>13. ASSUME NEW i \in Nat, i \in T PROVE i + 1 \in T
  <2> SUFFICES ASSUME i + 1 <= Len(s) PROVE f[i + 1] = Reaching(g, H, Before(e, s, i + 1))
    OBVIOUS
  <2> DEFINE R == Before(e, s, i)
             h == s[i + 1]
  <2>1. i < Len(s) /\ i <= Len(s) /\ f[i] = Reaching(g, H, R)
    BY <1>4, <1>13
  <2>2. R \in SUBSET N /\ (\A m \in R : e[m] \subseteq R) /\ h \in N \ R /\ Before(e, s, i + 1) = R \cup From(e, h)
    BY <1>11, <2>1
  <2> HIDE DEF R, h
  <2>3. Headed(g, Reaching(g, H, R), h) = Reaching(g, H, R \cup From(e, h))
    BY <2>2, HeadedFacts
  <2>4. f[i + 1] = step[<<f[i], h>>]
    BY <1>10, <2>1 DEF h
  <2>5. step[<<f[i], h>>] = Headed(g, f[i], h)
    BY <1>5, <1>9, <2>2
  <2> QED BY <2>1, <2>2, <2>3, <2>4, <2>5
<1>14. Nat \subseteq T
  <2> HIDE DEF T
  <2> QED BY <1>12, <1>13, NumberInduction
<1> QED BY <1>1, <1>4, <1>10, <1>11, <1>14

-----------------------------------------------------------------------------
(* What a walk finds in the loops around a node.                           *)

(* A closure does not depend on what is not reached.                       *)
LEMMA ClosureAlike ==
  ASSUME NEW N \in SUBSET Nodes, NEW e \in [N -> SUBSET N], NEW f \in [N -> SUBSET N], NEW S \in SUBSET N,
         \A m \in Closure(e, S) : f[m] = e[m]
  PROVE  Closure(f, S) = Closure(e, S)
<1> DEFINE C == Closure(e, S)
           D == Closure(f, S)
<1>1. /\ C \in SUBSET N /\ S \subseteq C /\ \A n \in C : e[n] \subseteq C
      /\ \A T : S \subseteq T /\ (\A n \in T \cap N : e[n] \subseteq T) => C \subseteq T
  BY ClosureFacts
<1>2. /\ D \in SUBSET N /\ S \subseteq D /\ \A n \in D : f[n] \subseteq D
      /\ \A T : S \subseteq T /\ (\A n \in T \cap N : f[n] \subseteq T) => D \subseteq T
  BY ClosureFacts
<1>3. \A m \in C : f[m] = e[m]
  OBVIOUS
<1> HIDE DEF C, D
<1>4. D \subseteq C
  BY <1>1, <1>2, <1>3
<1>5. C \subseteq C \cap D
  <2> DEFINE T == C \cap D
  <2>1. S \subseteq T /\ \A n \in T \cap N : e[n] \subseteq T
    BY <1>1, <1>2, <1>3
  <2> HIDE DEF T
  <2>2. C \subseteq T
    BY <1>1, <2>1
  <2> QED BY <2>2 DEF T
<1> QED BY <1>4, <1>5 DEF C, D

(* A node by itself, without a loop.                                       *)
Lone(e, n) == Single(e, Component(e, n), n)

(* What n leads to is n and what its successors lead to; n is among these  *)
(* if it is in a loop.                                                     *)
LEMMA AfterFacts ==
  ASSUME NEW N \in SUBSET Nodes, NEW e \in [N -> SUBSET N], NEW n \in N
  PROVE  /\ From(e, n) = Closure(e, e[n]) \cup {n}
         /\ n \in Closure(e, e[n]) <=> ~Lone(e, n)
<1> DEFINE K == Closure(e, e[n])
           A == From(e, n)
<1>0. e[n] \in SUBSET N
  OBVIOUS
<1>1. /\ K \in SUBSET N /\ e[n] \subseteq K /\ \A m \in K : e[m] \subseteq K
      /\ \A T : e[n] \subseteq T /\ (\A m \in T \cap N : e[m] \subseteq T) => K \subseteq T
  BY <1>0, ClosureFacts
<1>2. /\ \A m \in N : From(e, m) \in SUBSET N /\ m \in From(e, m) /\ e[m] \subseteq From(e, m)
      /\ \A m \in N : \A x \in From(e, m) : e[x] \subseteq From(e, m) /\ From(e, x) \subseteq From(e, m)
      /\ \A m \in N : \A T : m \in T /\ (\A x \in T \cap N : e[x] \subseteq T) => From(e, m) \subseteq T
  BY FromFacts
<1> HIDE DEF K
<1>3. K \subseteq A
  BY <1>1, <1>2
<1>4. A \subseteq K \cup {n}
  <2> DEFINE T == K \cup {n}
  <2>1. n \in T /\ \A x \in T \cap N : e[x] \subseteq T
    BY <1>1
  <2> HIDE DEF T
  <2>2. A \subseteq T
    BY <1>2, <2>1
  <2> QED BY <2>2 DEF T
<1>5. A = K \cup {n}
  BY <1>2, <1>3, <1>4
<1>6. n \in Component(e, n) /\ Component(e, n) = {m \in A : n \in From(e, m)}
  BY <1>2 DEF Component
<1>7. ASSUME ~Lone(e, n) PROVE n \in K
  <2>1. CASE n \in e[n]
    BY <1>1, <2>1
  <2>2. CASE n \notin e[n]
    <3>1. Component(e, n) # {n}
      BY <1>7, <2>2 DEF Lone, Single
    <3>2. PICK m \in Component(e, n) : m # n
      BY <1>6, <3>1
    <3>3. m \in K /\ m \in N /\ n \in From(e, m)
      BY <1>1, <1>5, <1>6, <3>2
    <3>4. From(e, m) \subseteq K
      BY <1>1, <1>2, <3>3
    <3> QED BY <3>3, <3>4
  <2> QED BY <2>1, <2>2
<1>8. ASSUME Lone(e, n) PROVE n \notin K
  <2> DEFINE T == {y \in N : n \notin From(e, y)}
  <2>1. Component(e, n) = {n} /\ n \notin e[n]
    BY <1>8 DEF Lone, Single
  <2>2. ASSUME NEW x \in e[n] PROVE x \in T
    <3>1. x \in A /\ x \in N /\ x # n
      BY <1>2, <2>1
    <3>2. n \notin From(e, x)
      BY <1>6, <2>1, <3>1
    <3> QED BY <3>1, <3>2
  <2>3. \A y \in T \cap N : e[y] \subseteq T
    BY <1>2
  <2>4. n \notin T
    BY <1>2
  <2> HIDE DEF T
  <2>5. K \subseteq T
    BY <1>1, <2>2, <2>3
  <2> QED BY <2>4, <2>5
<1> QED BY <1>5, <1>7, <1>8 DEF K

(* A marked node is by itself.                                             *)
LEMMA MarkedAlone ==
  ASSUME NEW N, NEW g, Numbered(g, N), NEW H \in SUBSET N, NEW n \in N, ~Lone(Open(g, H), n)
  PROVE  Component(Open(g, H), n) \cap H = {}
<1> DEFINE e == Open(g, H)
<1>1. N \in SUBSET Nodes /\ e \in [N -> SUBSET N] /\ \A m \in N : e[m] = g.succs[m] \ H
  BY OpenFacts
<1>2. ~Lone(e, n)
  OBVIOUS
<1>3. \A x \in H : \A m \in N : x \notin e[m]
  BY <1>1
<1> HIDE DEF e
<1> SUFFICES ASSUME NEW x \in Component(e, n), x \in H PROVE FALSE
  BY DEF e
<1>4. x \in N /\ Component(e, x) = Component(e, n) /\ n \in Component(e, n)
  BY <1>1, ComponentFacts
<1>5. ASSUME NEW m \in N, x \in From(e, m) PROVE m = x
  <2> SUFFICES ASSUME m # x PROVE FALSE
    OBVIOUS
  <2> DEFINE T == N \ {x}
  <2>1. m \in T /\ \A y \in T \cap N : e[y] \subseteq T
    BY <1>1, <1>3
  <2>2. x \notin T
    OBVIOUS
  <2> HIDE DEF T
  <2>3. From(e, m) \subseteq T
    BY <1>1, <1>5, <2>1, FromFacts
  <2> QED BY <1>5, <2>2, <2>3
<1>6. Component(e, x) \in SUBSET N
  BY <1>1, <1>4, ComponentFacts
<1>7. Component(e, x) \subseteq {x}
  BY <1>5, <1>6 DEF Component
<1>8. n = x /\ Component(e, n) = {n}
  BY <1>4, <1>7
<1>9. n \notin e[n]
  BY <1>3, <1>8
<1> QED BY <1>2, <1>8, <1>9 DEF Lone, Single

(* The edges within L, the loop around n, and the edges within a loop C    *)
(* but to where it is entered.                                             *)
Inside(N, e, L)    == [m \in N |-> IF m \in L THEN e[m] \cap L ELSE {}]
Around(N, e, n)    == {m \in N : m \in Closure(e, e[n]) /\ n \in Closure(e, e[m])}
Inner(N, g, e, C)  == [m \in N |-> IF m \in C THEN (e[m] \cap C) \ Entered(g, C) ELSE {}]

(* The loop around a node is its component.                                *)
LEMMA AroundFacts ==
  ASSUME NEW N \in SUBSET Nodes, NEW e \in [N -> SUBSET N], NEW R \in SUBSET N, NEW n \in R,
         \A m \in R : e[m] \subseteq R
  PROVE  /\ Lone(e, n) => n \notin Around(N, Inside(N, e, R), n)
         /\ ~Lone(e, n) => Around(N, Inside(N, e, R), n) = Component(e, n)
<1> DEFINE w == Inside(N, e, R)
<1>1. w \in [N -> SUBSET N] /\ \A m \in N : w[m] = IF m \in R THEN e[m] \cap R ELSE {}
  BY DEF Inside
<1>2. /\ \A m \in R : m \in N /\ e[m] \in SUBSET N /\ e[m] \subseteq R /\ w[m] = e[m]
      /\ \A m \in N \ R : w[m] = {}
  BY <1>1
<1>0. \A m \in R : e[m] \subseteq R
  OBVIOUS
<1> HIDE DEF w
<1>3. ASSUME NEW m \in R
      PROVE  /\ Closure(w, w[m]) = Closure(e, e[m]) /\ From(e, m) = Closure(e, e[m]) \cup {m}
             /\ Closure(e, e[m]) \subseteq R
             /\ m \in Closure(e, e[m]) <=> ~Lone(e, m)
  <2> DEFINE S == e[m]
  <2>1. S \in SUBSET N /\ S \subseteq R /\ w[m] = S
    BY <1>2
  <2> HIDE DEF S
  <2>2. Closure(e, S) \subseteq R
    BY <1>0, <2>1, ClosureFacts
  <2>3. \A x \in Closure(e, S) : w[x] = e[x]
    BY <1>2, <2>2
  <2>4. Closure(w, S) = Closure(e, S)
    BY <1>1, <2>1, <2>3, ClosureAlike
  <2>5. m \in N /\ From(e, m) = Closure(e, e[m]) \cup {m} /\ (m \in Closure(e, e[m]) <=> ~Lone(e, m))
    BY <1>2, AfterFacts
  <2> QED BY <2>1, <2>2, <2>4, <2>5 DEF S
<1>4. ASSUME NEW m \in N \ R PROVE Closure(w, w[m]) = {}
  <2> DEFINE S == {}
  <2>1. S \in SUBSET N /\ w[m] = S
    BY <1>2
  <2>2. \A T : S \subseteq T /\ (\A x \in T \cap N : w[x] \subseteq T) => Closure(w, S) \subseteq T
    BY <1>1, <2>1, ClosureFacts
  <2>3. S \subseteq {} /\ \A x \in {} \cap N : w[x] \subseteq {}
    OBVIOUS
  <2> HIDE DEF S
  <2>4. Closure(w, S) \subseteq {}
    BY <2>2, <2>3
  <2> QED BY <2>1, <2>4
<1>5. n \in N /\ \A m : m \in Around(N, w, n) <=> m \in R /\ m \in Closure(e, e[n]) /\ n \in Closure(e, e[m])
  BY <1>2, <1>3, <1>4 DEF Around
<1>6. ASSUME Lone(e, n) PROVE n \notin Around(N, w, n)
  BY <1>3, <1>5, <1>6
<1>7. ASSUME ~Lone(e, n) PROVE Around(N, w, n) = Component(e, n)
  <2>1. n \in Closure(e, e[n])
    BY <1>3, <1>7
  <2>2. From(e, n) = Closure(e, e[n]) /\ From(e, n) \subseteq R
    <3> DEFINE K == Closure(e, e[n])
    <3>1. From(e, n) = K \cup {n} /\ K \subseteq R /\ n \in K
      BY <1>3, <2>1
    <3> HIDE DEF K
    <3>2. From(e, n) = K
      BY <3>1
    <3> QED BY <3>1, <3>2 DEF K
  <2>3. \A m \in R : n \in Closure(e, e[m]) <=> n \in From(e, m)
    BY <1>3, <2>1
  <2>4. \A m : m \in Component(e, n) <=> m \in From(e, n) /\ n \in From(e, m)
    BY DEF Component
  <2>5. \A m : m \in Around(N, w, n) <=> m \in Component(e, n)
    BY <1>5, <2>2, <2>3, <2>4
  <2> QED BY <2>5
<1> QED BY <1>6, <1>7 DEF w

(* A node of a component that the others mark: its own were entered at.    *)
LEMMA MarkedWithin ==
  ASSUME NEW N, NEW g, Numbered(g, N), NEW H \in SUBSET N, NEW R \in SUBSET N, NEW n \in R,
         ~Lone(Open(g, H), n)
  PROVE  Marked(g, H, R) \cap Component(Open(g, H), n) = Entered(g, Component(Open(g, H), n))
<1> DEFINE e == Open(g, H)
           C == Component(e, n)
<1>1. N \in SUBSET Nodes /\ e \in [N -> SUBSET N]
  BY OpenFacts
<1>2. C \cap H = {}
  BY MarkedAlone
<1>3. Marked(g, H, R) = H \cup UNION {Entered(g, Component(e, m)) : m \in R}
  BY DEF Marked
<1> HIDE DEF e
<1>4. ASSUME NEW m \in R, NEW x \in C, x \in Entered(g, Component(e, m)) PROVE x \in Entered(g, C)
  <2>1. m \in N /\ n \in N
    OBVIOUS
  <2>2. x \in Component(e, m)
    BY <1>4 DEF Entered
  <2>3. Component(e, x) = Component(e, m) /\ Component(e, x) = C
    BY <1>1, <1>4, <2>1, <2>2, ComponentFacts
  <2> QED BY <1>4, <2>3
<1>5. Entered(g, C) \subseteq C
  BY DEF Entered
<1> HIDE DEF C
<1>6. Entered(g, C) \subseteq Marked(g, H, R)
  BY <1>3 DEF C
<1>7. ASSUME NEW x \in C, x \in Marked(g, H, R) PROVE x \in Entered(g, C)
  <2>1. x \notin H
    BY <1>2
  <2>2. PICK m \in R : x \in Entered(g, Component(e, m))
    BY <1>3, <1>7, <2>1
  <2> QED BY <1>4, <2>2
<1> QED BY <1>5, <1>6, <1>7 DEF C, e

(* A Head below is reached again from where it is entered, and in it are   *)
(* the edges that remain.                                                  *)
LEMMA LoopBelow ==
  ASSUME NEW N, NEW g, Numbered(g, N), NEW H \in SUBSET N, NEW R \in SUBSET N, NEW n \in R,
         \A m \in R : Open(g, H)[m] \subseteq R, ~Lone(Open(g, H), n)
  PROVE  LET e == Open(g, H)
             f == Open(g, Marked(g, H, R))
             C == Component(e, n)
         IN  /\ C \in SUBSET R /\ n \in C /\ Entered(g, C) # {} /\ Entered(g, C) \in SUBSET C
             /\ Entered(g, C) \subseteq Marked(g, H, R)
             /\ Closure(f, Entered(g, C)) = C
             /\ Inside(N, f, C) = Inner(N, g, Inside(N, e, R), C)
<1> DEFINE M == Marked(g, H, R)
           e == Open(g, H)
           f == Open(g, M)
           C == Component(e, n)
           E == Entered(g, C)
           K == Closure(f, E)
<1>1. /\ N \in SUBSET Nodes /\ e \in [N -> SUBSET N] /\ f \in [N -> SUBSET N]
      /\ \A m \in N : e[m] = g.succs[m] \ H
      /\ \A m \in N : f[m] = g.succs[m] \ M
  BY OpenFacts
<1>2. \A m \in R : e[m] \subseteq R
  OBVIOUS
<1>3. M \cap C = E /\ C \cap H = {}
  BY MarkedWithin, MarkedAlone
<1>4. H \subseteq M /\ \A m \in R : Entered(g, Component(e, m)) \subseteq M
  BY DEF Marked
<1> HIDE DEF M, e, f
<1>5. n \in N /\ n \in C /\ C \in SUBSET N
  BY <1>1, ComponentFacts
<1>6. C \in SUBSET R
  <2>1. From(e, n) \subseteq R
    BY <1>1, <1>2, <1>5, FromFacts
  <2> QED BY <2>1 DEF Component
<1>7. \A m \in R : /\ m \in Component(e, m) /\ Component(e, m) \in SUBSET N
                   /\ \A x \in Component(e, m) : Component(e, x) = Component(e, m)
  BY <1>1, ComponentFacts
<1>a. \A x \in C : Component(e, x) = C
  BY <1>7
<1>8. /\ E \in SUBSET C /\ E # {} /\ \A t \in C \ E : t # g.entry /\ \A m \in N : t \in g.succs[m] => m \in C
  <2>1. C # {}
    BY <1>5
  <2> HIDE DEF C
  <2> QED BY <1>5, <2>1, EnteredFacts DEF C
<1>9. ASSUME NEW m \in C, NEW x \in f[m] PROVE x \in C
  <2> SUFFICES ASSUME x \notin C PROVE FALSE
    OBVIOUS
  <2>1. x \in g.succs[m] /\ x \notin M /\ m \in N /\ m \in R
    BY <1>1, <1>5, <1>6
  <2>2. x \in R
    BY <1>1, <1>2, <1>4, <2>1
  <2> DEFINE D == Component(e, x)
  <2>3. x \in D /\ D \in SUBSET N /\ \A y \in D : Component(e, y) = D
    BY <1>7, <2>2
  <2>4. m \notin D
    BY <1>a, <2>3
  <2>5. x \in Entered(g, D)
    <3> HIDE DEF D
    <3> QED BY <2>1, <2>3, <2>4, EnteredFacts
  <2> QED BY <1>4, <2>1, <2>2, <2>5
<1> HIDE DEF C, E
<1>10. /\ E \subseteq K /\ \A m \in K : f[m] \subseteq K
       /\ \A T : E \subseteq T /\ (\A m \in T \cap N : f[m] \subseteq T) => K \subseteq T
  <2>1. E \in SUBSET N
    BY <1>5, <1>8
  <2> QED BY <1>1, <2>1, ClosureFacts, SMTT(30)
<1>11. K \subseteq C
  BY <1>8, <1>9, <1>10
<1> HIDE DEF K
<1>12. C \subseteq K
  <2> DEFINE S == {y \in N : y \in C => y \in K}
             rank == g.index
  <2>1. rank \in [N -> Nat]
    BY IndexFacts
  <2>2. ASSUME NEW y \in N, \A m \in N : rank[m] < rank[y] => m \in S PROVE y \in S
    <3> SUFFICES ASSUME y \in C, y \notin E PROVE y \in K
      BY <1>10
    <3>1. y # g.entry /\ \A m \in N : y \in g.succs[m] => m \in C
      BY <1>8
    <3>2. PICK m \in N : y \in g.succs[m] /\ g.index[m] < g.index[y]
      BY <3>1 DEF Numbered
    <3>3. m \in K
      BY <2>2, <3>1, <3>2
    <3>4. y \notin M
      BY <1>3
    <3>5. y \in f[m]
      BY <1>1, <3>2, <3>4
    <3> QED BY <1>10, <3>3, <3>5
  <2> HIDE DEF S, rank
  <2>3. N \subseteq S
    BY <2>1, <2>2, RankInduction
  <2> QED BY <1>5, <2>3 DEF S
<1>13. Inside(N, f, C) = Inner(N, g, Inside(N, e, R), C)
  <2> DEFINE w == Inside(N, e, R)
  <2>1. \A m \in N : w[m] = IF m \in R THEN e[m] \cap R ELSE {}
    BY DEF Inside
  <2> HIDE DEF w
  <2>2. ASSUME NEW m \in C PROVE f[m] \cap C = (w[m] \cap C) \ E
    <3>1. m \in N /\ w[m] = e[m] \cap R /\ e[m] = g.succs[m] \ H /\ f[m] = g.succs[m] \ M
      BY <1>1, <1>5, <1>6, <2>1
    <3> QED BY <1>3, <1>6, <3>1
  <2>3. Inside(N, f, C) = [m \in N |-> IF m \in C THEN f[m] \cap C ELSE {}]
    BY DEF Inside
  <2>4. Inner(N, g, w, C) = [m \in N |-> IF m \in C THEN (w[m] \cap C) \ E ELSE {}]
    BY DEF Inner, E
  <2>5. \A m \in N : (IF m \in C THEN f[m] \cap C ELSE {}) = (IF m \in C THEN (w[m] \cap C) \ E ELSE {})
    BY <2>2
  <2>6. Inside(N, f, C) = Inner(N, g, w, C)
    BY <2>3, <2>4, <2>5
  <2> QED BY <2>6 DEF w
<1>14. Closure(f, E) = C
  BY <1>11, <1>12 DEF K
<1>15. E \subseteq M
  BY <1>3
<1> QED BY <1>5, <1>6, <1>8, <1>13, <1>14, <1>15 DEF M, e, f, C, E

-----------------------------------------------------------------------------
(* The loop tree.                                                          *)

(* F[n][s] is how deep n is in the loops of s.                             *)
Nests(N, g, F) ==
  /\ F \in [N -> [[N -> SUBSET N] -> Nat]]
  /\ \A n \in N : \A s \in [N -> SUBSET N] :
       F[n][s] = IF n \notin Around(N, s, n) THEN 1 ELSE 1 + F[n][Inner(N, g, s, Around(N, s, n))]

(* What is still looked into below a Head, what it makes of the nodes      *)
(* there, and what is left of the tree.                                    *)
Region(g, H, l)  == Closure(Open(g, H), l.cf_nodes)
Leaf(g, F, n)    == [depth |-> F[n][g.succs], cf_nodes |-> {n}]
Under(g, e, l, n) == [depth |-> l.depth + 1, cf_nodes |-> Entered(g, Component(e, n))]
Alone(l, n)      == [depth |-> l.depth, cf_nodes |-> {n}]
Loners(e, R)     == {n \in R : Lone(e, n)}
After(g, t, l) ==
  LET R == Region(g, t.heads, l)
      e == Open(g, t.heads)
  IN  [heads  |-> Marked(g, t.heads, R),
       leaves |-> t.leaves \cup {Alone(l, n) : n \in Loners(e, R)},
       todo   |-> (t.todo \ {l}) \cup {Under(g, e, l, n) : n \in R \ Loners(e, R)}]

(* A Head is below as many as there are loops around its nodes.            *)
Below(N, g, F, H, l) ==
  /\ l.depth \in Nat /\ l.cf_nodes \in SUBSET N /\ l.cf_nodes # {}
  /\ l.cf_nodes \subseteq H \/ l.cf_nodes = {g.entry}
  /\ \A n \in Region(g, H, l) :
       F[n][g.succs] + 1 = l.depth + F[n][Inside(N, Open(g, H), Region(g, H, l))]

Disjoint(g, t) == \A k, l \in t.todo : k = l \/ Region(g, t.heads, k) \cap Region(g, t.heads, l) = {}
Complete(N, g, F, t) ==
  \A n \in N : (\E l \in t.todo : n \in Region(g, t.heads, l)) \/ Leaf(g, F, n) \in t.leaves
Nested(N, g, F, t) ==
  /\ t.heads \in SUBSET N /\ IsFiniteSet(t.todo)
  /\ \A l \in t.todo : Below(N, g, F, t.heads, l)
  /\ Disjoint(g, t) /\ Complete(N, g, F, t)
  /\ \A c \in t.leaves : \E n \in N : c = Leaf(g, F, n)

(* A finite set of numbers has a greatest one.                             *)
LEMMA GreatestNumber ==
  ASSUME NEW S \in SUBSET Nat, IsFiniteSet(S), S # {}
  PROVE  \E x \in S : \A y \in S : y <= x
<1> DEFINE Most(A) == \E x \in A : \A y \in A : y <= x
           T == {n \in Nat : \A A \in SUBSET Nat : IsFiniteSet(A) /\ A # {} /\ Cardinality(A) = n => Most(A)}
<1>1. 0 \in T
  BY FS_EmptySet
<1>2. ASSUME NEW n \in Nat, n \in T PROVE n + 1 \in T
  <2> SUFFICES ASSUME NEW A \in SUBSET Nat, IsFiniteSet(A), A # {}, Cardinality(A) = n + 1 PROVE Most(A)
    OBVIOUS
  <2>1. PICK x \in A : TRUE
    OBVIOUS
  <2> DEFINE B == A \ {x}
  <2>2. IsFiniteSet(B) /\ Cardinality(B) = n
    <3>1. IsFiniteSet(A \ {x}) /\ Cardinality(A \ {x}) = Cardinality(A) - 1
      BY <2>1, FS_RemoveElement
    <3> QED BY <3>1
  <2>3. B \in SUBSET Nat /\ A = B \cup {x} /\ x \in Nat
    BY <2>1
  <2> HIDE DEF B
  <2>4. CASE B = {}
    BY <2>3, <2>4
  <2>5. CASE B # {}
    <3>1. Most(B)
      BY <1>2, <2>2, <2>3, <2>5
    <3>2. PICK z \in B : \A y \in B : y <= z
      BY <3>1
    <3>3. z \in Nat /\ B \subseteq Nat
      BY <2>3, <3>2
    <3>4. CASE x <= z
      BY <2>3, <3>2, <3>3, <3>4
    <3>5. CASE z <= x
      BY <2>3, <3>2, <3>3, <3>5
    <3> QED BY <2>3, <3>3, <3>4, <3>5
  <2> QED BY <2>4, <2>5
<1>3. Nat \subseteq T
  <2> HIDE DEF T
  <2> QED BY <1>1, <1>2, NumberInduction
<1>4. Cardinality(S) \in Nat
  BY FS_CardinalityType
<1>5. Most(S)
  BY <1>3, <1>4
<1> QED BY <1>5

(* The values of a function on a finite set are finitely many.             *)
LEMMA FiniteImage ==
  ASSUME NEW S, IsFiniteSet(S), NEW f
  PROVE  IsFiniteSet({f[x] : x \in S})
<1> DEFINE T == {f[x] : x \in S}
           h == [x \in S |-> f[x]]
<1>1. h \in [S -> T] /\ \A y \in T : \E x \in S : h[x] = y
  OBVIOUS
<1>2. h \in Surjection(S, T)
  BY <1>1 DEF Surjection
<1> HIDE DEF h, T
<1>3. IsFiniteSet(T)
  BY <1>2, FS_Surjection
<1> QED BY <1>3 DEF T

(* One of the Heads is the deepest.                                        *)
LEMMA DeepestExists ==
  ASSUME NEW S, IsFiniteSet(S), S # {}, \A l \in S : l.depth \in Nat
  PROVE  \E l \in S : \A k \in S : k.depth <= l.depth
<1> DEFINE T == {l.depth : l \in S}
<1>1. T \in SUBSET Nat /\ T # {}
  OBVIOUS
<1>2. IsFiniteSet(T)
  <2> DEFINE f == [l \in S |-> l.depth]
  <2>1. IsFiniteSet({f[l] : l \in S})
    BY FiniteImage
  <2>2. T = {f[l] : l \in S}
    OBVIOUS
  <2> QED BY <2>1, <2>2
<1> HIDE DEF T
<1>3. PICK x \in T : \A y \in T : y <= x
  BY <1>1, <1>2, GreatestNumber
<1>4. PICK l \in S : l.depth = x
  BY <1>3 DEF T
<1>5. \A k \in S : k.depth \in T
  BY DEF T
<1> QED BY <1>3, <1>4, <1>5

(* What is below a Head is closed and has its nodes.                       *)
LEMMA RegionFacts ==
  ASSUME NEW N, NEW g, Numbered(g, N), NEW H \in SUBSET N, NEW l, l.cf_nodes \in SUBSET N
  PROVE  /\ Region(g, H, l) \in SUBSET N /\ l.cf_nodes \subseteq Region(g, H, l)
         /\ \A m \in Region(g, H, l) : Open(g, H)[m] \subseteq Region(g, H, l)
<1>1. N \in SUBSET Nodes /\ Open(g, H) \in [N -> SUBSET N]
  BY OpenFacts
<1> DEFINE e == Open(g, H)
<1> HIDE DEF e
<1>2. e \in [N -> SUBSET N]
  BY <1>1 DEF e
<1>3. /\ Closure(e, l.cf_nodes) \in SUBSET N /\ l.cf_nodes \subseteq Closure(e, l.cf_nodes)
      /\ \A m \in Closure(e, l.cf_nodes) : e[m] \subseteq Closure(e, l.cf_nodes)
  BY <1>1, <1>2, ClosureFacts
<1> QED BY <1>3 DEF Region, e

(* The children that are leaves or those that are not.                     *)
Which(kids, b, x)    == {[depth |-> x, cf_nodes |-> c.cf_nodes] : c \in {d \in kids : d.leaf = b}}
Made(g, e, R, b, x)  == {[depth |-> x, cf_nodes |-> Entered(g, Component(e, n))] : n \in {m \in R : Lone(e, m) = b}}

(* They are those of the nodes that are by themselves or are not.          *)
LEMMA ChildrenAre ==
  ASSUME NEW g, NEW e, NEW R, NEW x, NEW b \in BOOLEAN
  PROVE  Which({Child(g, e, n) : n \in R}, b, x) = Made(g, e, R, b, x)
<1> DEFINE E(n) == Entered(g, Component(e, n))
           kids == {Child(g, e, n) : n \in R}
           L == {[depth |-> x, cf_nodes |-> c.cf_nodes] : c \in {d \in kids : d.leaf = b}}
           M == {[depth |-> x, cf_nodes |-> E(n)] : n \in {m \in R : Lone(e, m) = b}}
<1>1. \A n : Child(g, e, n).leaf = Lone(e, n) /\ Child(g, e, n).cf_nodes = E(n)
  BY DEF Child, Lone
<1>2. \A d \in kids : \E n \in R : d = Child(g, e, n)
  OBVIOUS
<1>3. \A n \in R : Child(g, e, n) \in kids
  OBVIOUS
<1> HIDE DEF E, kids
<1>4. ASSUME NEW z \in L PROVE z \in M
  <2>1. PICK d \in kids : d.leaf = b /\ z = [depth |-> x, cf_nodes |-> d.cf_nodes]
    OBVIOUS
  <2>2. PICK n \in R : d = Child(g, e, n)
    BY <1>2
  <2>3. Lone(e, n) = b /\ z = [depth |-> x, cf_nodes |-> E(n)]
    BY <1>1, <2>1, <2>2
  <2> QED BY <2>3
<1>5. ASSUME NEW z \in M PROVE z \in L
  <2>1. PICK n \in R : Lone(e, n) = b /\ z = [depth |-> x, cf_nodes |-> E(n)]
    OBVIOUS
  <2> DEFINE d == Child(g, e, n)
  <2>2. d \in kids /\ d.leaf = Lone(e, n) /\ d.cf_nodes = E(n)
    BY <1>1, <1>3
  <2> HIDE DEF d
  <2>3. d.leaf = b /\ z = [depth |-> x, cf_nodes |-> d.cf_nodes]
    BY <2>1, <2>2
  <2> QED BY <2>2, <2>3
<1>6. L = M
  BY <1>4, <1>5
<1> QED BY <1>6 DEF E, kids, Which, Made

(* A step looks into one of the Heads.                                     *)
LEMMA RecurseIs ==
  ASSUME NEW N, NEW g, Numbered(g, N), NEW F, NEW t, Nested(N, g, F, t), t.todo # {}
  PROVE  \E l \in t.todo : Recurse(g, t) = After(g, t, l)
<1> DEFINE l     == CHOOSE k \in t.todo : \A j \in t.todo : j.depth <= k.depth
           e     == Open(g, t.heads)
           R     == Region(g, t.heads, l)
           found == WalkHeads(g, t.heads, l.cf_nodes)
           below(leaf, depth) == {[depth |-> depth, cf_nodes |-> c.cf_nodes] : c \in {d \in found.children : d.leaf = leaf}}
<1>1. t.heads \in SUBSET N /\ IsFiniteSet(t.todo) /\ \A k \in t.todo : Below(N, g, F, t.heads, k)
  BY DEF Nested
<1>2. \A k \in t.todo : k.depth \in Nat
  BY <1>1 DEF Below
<1>3. \E k \in t.todo : \A j \in t.todo : j.depth <= k.depth
  BY <1>1, <1>2, DeepestExists
<1>4. l \in t.todo
  BY <1>3
<1>5. Recurse(g, t) = [heads |-> found.heads, leaves |-> t.leaves \cup below(TRUE, l.depth),
                       todo |-> (t.todo \ {l}) \cup below(FALSE, l.depth + 1)]
  BY DEF Recurse
<1> HIDE DEF l
<1>6. Apart(N, t.heads, l.cf_nodes)
  <2>1. l.cf_nodes \in SUBSET N /\ (l.cf_nodes \subseteq t.heads \/ l.cf_nodes = {g.entry}) /\ g.entry \in N
    BY <1>1, <1>4 DEF Below, Numbered
  <2> QED BY <2>1 DEF Apart
<1>7. found = Reaching(g, t.heads, R)
  BY <1>1, <1>6, HeadsFacts DEF Region
<1> HIDE DEF found
<1>8. found.heads = Marked(g, t.heads, R) /\ found.children = {Child(g, e, n) : n \in R}
  BY <1>7 DEF Reaching
<1> HIDE DEF R, e
<1>9. \A n \in R : Lone(e, n) \in BOOLEAN
  BY DEF Lone, Single
<1>a. \A b \in BOOLEAN : \A x : below(b, x) = Made(g, e, R, b, x)
  <2>1. \A b, x : below(b, x) = Which(found.children, b, x)
    BY DEF Which
  <2>2. \A b \in BOOLEAN : \A x : Which(found.children, b, x) = Made(g, e, R, b, x)
    BY <1>8, ChildrenAre
  <2> QED BY <2>1, <2>2
<1> HIDE DEF below
<1>10. below(TRUE, l.depth) = {Alone(l, n) : n \in Loners(e, R)}
  <2>1. below(TRUE, l.depth) =
          {[depth |-> l.depth, cf_nodes |-> Entered(g, Component(e, n))] : n \in {m \in R : Lone(e, m) = TRUE}}
    BY <1>a DEF Made
  <2>2. {m \in R : Lone(e, m) = TRUE} = Loners(e, R)
    BY <1>9 DEF Loners
  <2>3. ASSUME NEW n \in Loners(e, R) PROVE Entered(g, Component(e, n)) = {n}
    <3>1. Component(e, n) = {n} /\ n \in R
      BY DEF Loners, Lone, Single
    <3>2. n \in N
      BY <1>1, <1>4, <3>1, RegionFacts DEF Below, R
    <3>3. {n} \in SUBSET N /\ {n} # {}
      BY <3>2
    <3>4. Entered(g, {n}) \in SUBSET {n} /\ Entered(g, {n}) # {}
      <4> DEFINE C == {n}
      <4> HIDE DEF C
      <4>1. Entered(g, C) \in SUBSET C /\ Entered(g, C) # {}
        BY <3>3, EnteredFacts DEF C
      <4> QED BY <4>1 DEF C
    <3> QED BY <3>1, <3>4
  <2> QED BY <2>1, <2>2, <2>3 DEF Alone
<1>11. below(FALSE, l.depth + 1) = {Under(g, e, l, n) : n \in R \ Loners(e, R)}
  <2>1. below(FALSE, l.depth + 1) =
          {[depth |-> l.depth + 1, cf_nodes |-> Entered(g, Component(e, n))] : n \in {m \in R : Lone(e, m) = FALSE}}
    BY <1>a DEF Made
  <2>2. {m \in R : Lone(e, m) = FALSE} = R \ Loners(e, R)
    BY <1>9 DEF Loners
  <2> QED BY <2>1, <2>2 DEF Under
<1>12. Recurse(g, t) = After(g, t, l)
  BY <1>5, <1>8, <1>10, <1>11 DEF After, R, e
<1> QED BY <1>4, <1>12

(* The other Heads are left as they were.                                  *)
LEMMA OthersStay ==
  ASSUME NEW N, NEW g, Numbered(g, N), NEW H \in SUBSET N, NEW R \in SUBSET N,
         \A m \in R : Open(g, H)[m] \subseteq R,
         NEW F, NEW k, Below(N, g, F, H, k), Region(g, H, k) \cap R = {}
  PROVE  Region(g, Marked(g, H, R), k) = Region(g, H, k) /\ Below(N, g, F, Marked(g, H, R), k)
<1> DEFINE M == Marked(g, H, R)
           e == Open(g, H)
           f == Open(g, M)
           S == Region(g, H, k)
<1>1. /\ N \in SUBSET Nodes /\ e \in [N -> SUBSET N] /\ f \in [N -> SUBSET N]
  BY OpenFacts
<1>2. /\ k.depth \in Nat /\ k.cf_nodes \in SUBSET N /\ k.cf_nodes # {}
      /\ k.cf_nodes \subseteq H \/ k.cf_nodes = {g.entry}
      /\ \A n \in S : F[n][g.succs] + 1 = k.depth + F[n][Inside(N, e, S)]
  BY DEF Below
<1>3. S \in SUBSET N /\ \A m \in S : e[m] \subseteq S
  BY <1>2, RegionFacts
<1>4. \A m \in N \ R : f[m] = e[m] \ R
  BY MarkedFacts
<1>5. H \subseteq M
  BY DEF Marked
<1>6. S = Closure(e, k.cf_nodes) /\ Region(g, M, k) = Closure(f, k.cf_nodes) /\ S \cap R = {}
  BY DEF Region
<1> HIDE DEF S, e, f
<1>7. \A m \in S : f[m] = e[m]
  BY <1>3, <1>4, <1>6
<1>8. Closure(f, k.cf_nodes) = Closure(e, k.cf_nodes)
  <2>1. \A m \in Closure(e, k.cf_nodes) : f[m] = e[m]
    BY <1>6, <1>7
  <2> QED BY <1>1, <1>2, <2>1, ClosureAlike
<1>9. Inside(N, f, S) = Inside(N, e, S)
  BY <1>7 DEF Inside
<1>10. Region(g, M, k) = S
  BY <1>6, <1>8
<1> HIDE DEF M
<1>11. Below(N, g, F, M, k)
  <2>1. \A n \in Region(g, M, k) : F[n][g.succs] + 1 = k.depth + F[n][Inside(N, f, Region(g, M, k))]
    BY <1>2, <1>9, <1>10
  <2>2. k.cf_nodes \subseteq M \/ k.cf_nodes = {g.entry}
    BY <1>2, <1>5
  <2> QED BY <1>2, <2>1, <2>2 DEF Below, f
<1> QED BY <1>10, <1>11 DEF M, S

(* A Head that is found is its loop, one deeper.                           *)
LEMMA UnderFacts ==
  ASSUME NEW N, NEW g, Numbered(g, N), NEW F, Nests(N, g, F), NEW H \in SUBSET N,
         NEW l, Below(N, g, F, H, l), NEW n \in Region(g, H, l), ~Lone(Open(g, H), n)
  PROVE  LET M == Marked(g, H, Region(g, H, l))
             k == Under(g, Open(g, H), l, n)
         IN  /\ Region(g, M, k) = Component(Open(g, H), n)
             /\ Component(Open(g, H), n) \subseteq Region(g, H, l)
             /\ Below(N, g, F, M, k)
<1> DEFINE R == Region(g, H, l)
           M == Marked(g, H, R)
           e == Open(g, H)
           f == Open(g, M)
           k == Under(g, e, l, n)
           C == Component(e, n)
<1>1. /\ N \in SUBSET Nodes /\ e \in [N -> SUBSET N] /\ f \in [N -> SUBSET N] /\ g.succs \in [N -> SUBSET N]
  BY OpenFacts
<1>2. /\ l.depth \in Nat /\ l.cf_nodes \in SUBSET N
      /\ \A m \in R : F[m][g.succs] + 1 = l.depth + F[m][Inside(N, e, R)]
  BY DEF Below
<1>3. R \in SUBSET N /\ n \in R /\ (\A m \in R : e[m] \subseteq R) /\ ~Lone(e, n)
  BY <1>2, RegionFacts
<1> HIDE DEF R
<1>4. /\ C \in SUBSET R /\ n \in C /\ Entered(g, C) # {} /\ Entered(g, C) \in SUBSET C
      /\ Entered(g, C) \subseteq M
      /\ Closure(f, Entered(g, C)) = C
      /\ Inside(N, f, C) = Inner(N, g, Inside(N, e, R), C)
  BY <1>3, LoopBelow
<1>a. \A m \in R : m \in N /\ (~Lone(e, m) => Around(N, Inside(N, e, R), m) = Component(e, m))
  BY <1>1, <1>3, AroundFacts
<1> HIDE DEF M, e, f
<1>b. \A m \in C : Component(e, m) = C
  BY <1>1, <1>3, ComponentFacts
<1>5. k.depth = l.depth + 1 /\ k.cf_nodes = Entered(g, C)
  BY DEF Under
<1> HIDE DEF k
<1>6. Region(g, M, k) = C
  BY <1>4, <1>5 DEF Region, f
<1>7. ASSUME NEW m \in C PROVE F[m][g.succs] + 1 = k.depth + F[m][Inside(N, f, C)]
  <2> DEFINE w == Inside(N, e, R)
  <2>1. w \in [N -> SUBSET N]
    BY <1>1 DEF Inside
  <2>2. m \in R /\ m \in N /\ m \in Component(e, m) /\ Component(e, m) = C
    BY <1>3, <1>4, <1>b
  <2>3. ~Lone(e, m)
    <3> SUFFICES ASSUME Lone(e, m) PROVE FALSE
      OBVIOUS
    <3>1. C = {m} /\ m \notin e[m]
      BY <2>2 DEF Lone, Single
    <3>2. n = m
      BY <1>4, <3>1
    <3> QED BY <1>3, <3>2
  <2>4. Around(N, w, m) = C
    BY <1>a, <2>2, <2>3
  <2>5. Inner(N, g, w, C) \in [N -> SUBSET N]
    <3> HIDE DEF w
    <3> QED BY <2>1 DEF Inner
  <2> HIDE DEF w
  <2>6. F[m][w] = 1 + F[m][Inner(N, g, w, C)]
    BY <2>1, <2>2, <2>4 DEF Nests
  <2>7. F[m][g.succs] \in Nat /\ F[m][w] \in Nat /\ F[m][Inner(N, g, w, C)] \in Nat
    <3>1. F[m] \in [[N -> SUBSET N] -> Nat]
      BY <2>2 DEF Nests
    <3> QED BY <1>1, <2>1, <2>5, <3>1
  <2>8. F[m][g.succs] + 1 = l.depth + F[m][w]
    BY <1>2, <2>2 DEF w
  <2>9. Inside(N, f, C) = Inner(N, g, w, C)
    BY <1>4 DEF w
  <2> QED BY <1>2, <1>5, <2>6, <2>7, <2>8, <2>9
<1>8. Below(N, g, F, M, k)
  <2>1. k.depth \in Nat /\ k.cf_nodes \in SUBSET N /\ k.cf_nodes # {} /\ k.cf_nodes \subseteq M
    BY <1>2, <1>3, <1>4, <1>5
  <2> QED BY <1>6, <1>7, <2>1 DEF Below, f
<1> QED BY <1>4, <1>6, <1>8 DEF M, R, e, k

(* What is below the Heads after a step.                                   *)
LEMMA TodoFacts ==
  ASSUME NEW N, NEW g, Numbered(g, N), NEW F, Nests(N, g, F), NEW t, Nested(N, g, F, t), NEW l \in t.todo,
         NEW k \in After(g, t, l).todo
  PROVE  LET R == Region(g, t.heads, l)
             e == Open(g, t.heads)
             M == Marked(g, t.heads, R)
         IN  /\ Below(N, g, F, M, k)
             /\ \/ k \in t.todo \ {l} /\ Region(g, M, k) = Region(g, t.heads, k) /\ Region(g, M, k) \cap R = {}
                \/ \E n \in R \ Loners(e, R) :
                     k = Under(g, e, l, n) /\ Region(g, M, k) = Component(e, n) /\ Component(e, n) \subseteq R
<1> DEFINE H == t.heads
           R == Region(g, H, l)
           e == Open(g, H)
           M == Marked(g, H, R)
<1>1. H \in SUBSET N /\ (\A j \in t.todo : Below(N, g, F, H, j)) /\ Disjoint(g, t)
  BY DEF Nested
<1>2. R \in SUBSET N /\ \A m \in R : e[m] \subseteq R
  <2>1. l.cf_nodes \in SUBSET N
    BY <1>1 DEF Below
  <2> QED BY <1>1, <2>1, RegionFacts
<1>3. k \in t.todo \ {l} \/ \E n \in R \ Loners(e, R) : k = Under(g, e, l, n)
  BY DEF After
<1>4. CASE k \in t.todo \ {l}
  <2>1. Below(N, g, F, H, k) /\ Region(g, H, k) \cap R = {}
    BY <1>1, <1>4 DEF Disjoint
  <2> HIDE DEF R, H
  <2>2. Region(g, M, k) = Region(g, H, k) /\ Below(N, g, F, M, k)
    BY <1>1, <1>2, <2>1, OthersStay
  <2> QED BY <1>4, <2>1, <2>2 DEF R, H
<1>5. CASE \E n \in R \ Loners(e, R) : k = Under(g, e, l, n)
  <2>1. PICK n \in R \ Loners(e, R) : k = Under(g, e, l, n)
    BY <1>5
  <2>2. n \in R /\ ~Lone(e, n) /\ Below(N, g, F, H, l)
    BY <1>1, <2>1 DEF Loners
  <2>3. Region(g, M, k) = Component(e, n) /\ Component(e, n) \subseteq R /\ Below(N, g, F, M, k)
    <3> HIDE DEF H
    <3> QED BY <1>1, <2>1, <2>2, UnderFacts
  <2> QED BY <2>1, <2>3
<1> QED BY <1>3, <1>4, <1>5

(* A node without a loop is a leaf below its Head.                         *)
LEMMA AloneFacts ==
  ASSUME NEW N, NEW g, Numbered(g, N), NEW F, Nests(N, g, F), NEW H \in SUBSET N,
         NEW l, Below(N, g, F, H, l), NEW n \in Loners(Open(g, H), Region(g, H, l))
  PROVE  n \in N /\ Alone(l, n) = Leaf(g, F, n)
<1> DEFINE R == Region(g, H, l)
           e == Open(g, H)
           w == Inside(N, e, R)
<1>1. N \in SUBSET Nodes /\ e \in [N -> SUBSET N] /\ g.succs \in [N -> SUBSET N]
  BY OpenFacts
<1>2. l.depth \in Nat /\ l.cf_nodes \in SUBSET N /\ \A m \in R : F[m][g.succs] + 1 = l.depth + F[m][w]
  BY DEF Below
<1>3. R \in SUBSET N /\ (\A m \in R : e[m] \subseteq R)
  BY <1>2, RegionFacts
<1>4. n \in R /\ Lone(e, n)
  BY DEF Loners
<1> HIDE DEF R, e
<1>5. n \notin Around(N, w, n)
  BY <1>1, <1>3, <1>4, AroundFacts
<1>6. w \in [N -> SUBSET N]
  BY <1>1 DEF Inside
<1> HIDE DEF w
<1>7. n \in N /\ F[n][w] = 1 /\ F[n][g.succs] \in Nat
  BY <1>1, <1>3, <1>4, <1>5, <1>6 DEF Nests
<1>8. F[n][g.succs] + 1 = l.depth + F[n][w]
  BY <1>2, <1>4
<1>9. F[n][g.succs] = l.depth
  BY <1>2, <1>7, <1>8
<1> QED BY <1>7, <1>9 DEF Alone, Leaf

(* A step keeps the tree as it has to be.                                  *)
LEMMA AfterNested ==
  ASSUME NEW N, NEW g, Numbered(g, N), NEW F, Nests(N, g, F), NEW t, Nested(N, g, F, t), NEW l \in t.todo
  PROVE  Nested(N, g, F, After(g, t, l))
<1> DEFINE H == t.heads
           R == Region(g, H, l)
           e == Open(g, H)
           M == Marked(g, H, R)
           T == After(g, t, l)
           L == Loners(e, R)
           Old(k) == k \in t.todo \ {l} /\ Region(g, M, k) = Region(g, H, k) /\ Region(g, M, k) \cap R = {}
           New(k) == \E n \in R \ L :
                       k = Under(g, e, l, n) /\ Region(g, M, k) = Component(e, n) /\ Component(e, n) \subseteq R
<1>1. /\ H \in SUBSET N /\ IsFiniteSet(t.todo) /\ (\A j \in t.todo : Below(N, g, F, H, j))
      /\ Disjoint(g, t) /\ Complete(N, g, F, t)
      /\ \A c \in t.leaves : \E n \in N : c = Leaf(g, F, n)
  BY DEF Nested
<1>2. R \in SUBSET N /\ \A m \in R : e[m] \subseteq R
  <2>1. l.cf_nodes \in SUBSET N
    BY <1>1 DEF Below
  <2> QED BY <1>1, <2>1, RegionFacts
<1>3. /\ T.heads = M /\ T.leaves = t.leaves \cup {Alone(l, n) : n \in L}
      /\ T.todo = (t.todo \ {l}) \cup {Under(g, e, l, n) : n \in R \ L}
  BY DEF After
<1>4. N \in SUBSET Nodes /\ e \in [N -> SUBSET N]
  BY OpenFacts
<1>5. M \in SUBSET N
  BY <1>1, <1>2, MarkedFacts
<1>6. \A k \in T.todo : Below(N, g, F, M, k) /\ (Old(k) \/ New(k))
  BY TodoFacts
<1>7. \A n \in L : n \in N /\ Alone(l, n) = Leaf(g, F, n)
  BY <1>1, AloneFacts
<1> HIDE DEF H, R, e, M, T, L
<1>8. IsFiniteSet(T.todo)
  <2> DEFINE f == [n \in R \ L |-> Under(g, e, l, n)]
             S == {f[n] : n \in R \ L}
  <2>1. IsFiniteSet(R \ L)
    <3>1. R \ L \in SUBSET Nodes
      BY <1>2, <1>4
    <3> QED BY <3>1, SomeNodes
  <2>2. {Under(g, e, l, n) : n \in R \ L} = S
    OBVIOUS
  <2> HIDE DEF f
  <2>3. IsFiniteSet(S)
    BY <2>1, FiniteImage
  <2> HIDE DEF S
  <2>4. IsFiniteSet(t.todo \ {l})
    BY <1>1, FS_Subset
  <2> DEFINE A == t.todo \ {l}
  <2>5. T.todo = A \cup S
    BY <1>3, <2>2
  <2> HIDE DEF A
  <2>6. IsFiniteSet(A \cup S)
    BY <2>3, <2>4, FS_Union DEF A
  <2> QED BY <2>5, <2>6
<1>9. ASSUME NEW j \in T.todo, NEW k \in T.todo, j # k PROVE Region(g, M, j) \cap Region(g, M, k) = {}
  <2>1. CASE Old(j) /\ Old(k)
    <3>1. Region(g, H, j) \cap Region(g, H, k) = {}
      BY <1>1, <1>9, <2>1 DEF Disjoint, H
    <3> QED BY <2>1, <3>1
  <2>2. CASE Old(j) /\ New(k)
    BY <2>2
  <2>3. CASE New(j) /\ Old(k)
    BY <2>3
  <2>4. CASE New(j) /\ New(k)
    <3>1. PICK m \in R \ L : j = Under(g, e, l, m) /\ Region(g, M, j) = Component(e, m)
      BY <2>4
    <3>2. PICK n \in R \ L : k = Under(g, e, l, n) /\ Region(g, M, k) = Component(e, n)
      BY <2>4
    <3>3. Component(e, m) # Component(e, n)
      BY <1>9, <3>1, <3>2 DEF Under
    <3>4. m \in N /\ n \in N
      BY <1>2
    <3>5. /\ \A x \in Component(e, m) : Component(e, x) = Component(e, m)
          /\ \A x \in Component(e, n) : Component(e, x) = Component(e, n)
      BY <1>4, <3>4, ComponentFacts, SMTT(30)
    <3> QED BY <3>1, <3>2, <3>3, <3>5
  <2> QED BY <1>6, <2>1, <2>2, <2>3, <2>4
<1>10. ASSUME NEW n \in N, Leaf(g, F, n) \notin T.leaves PROVE \E k \in T.todo : n \in Region(g, M, k)
  <2>1. Leaf(g, F, n) \notin t.leaves
    BY <1>3, <1>10
  <2>2. PICK j \in t.todo : n \in Region(g, H, j)
    BY <1>1, <2>1 DEF Complete, H
  <2>3. CASE j = l
    <3>1. n \in R
      BY <2>2, <2>3 DEF R
    <3>2. n \notin L
      BY <1>3, <1>7, <1>10
    <3> DEFINE k == Under(g, e, l, n)
    <3>3. k \in T.todo
      BY <1>3, <3>1, <3>2
    <3>4. n \in Component(e, n)
      BY <1>4, ComponentFacts
    <3>5. ~Lone(e, n)
      BY <3>1, <3>2 DEF L, Loners
    <3>6. Region(g, M, k) = Component(e, n)
      <4>1. Below(N, g, F, t.heads, l) /\ n \in Region(g, t.heads, l) /\ ~Lone(Open(g, t.heads), n)
             /\ t.heads \in SUBSET N
        BY <1>1, <3>1, <3>5 DEF R, H, e
      <4> QED BY <4>1, UnderFacts DEF M, R, H, e
    <3> QED BY <3>3, <3>4, <3>6
  <2>4. CASE j # l
    <3>1. j \in T.todo
      BY <1>3, <2>4
    <3>2. Region(g, H, j) \cap R = {}
      BY <1>1, <2>4 DEF Disjoint, H, R
    <3>3. Region(g, M, j) = Region(g, H, j)
      <4>1. Below(N, g, F, H, j)
        BY <1>1
      <4>2. H \in SUBSET N /\ R \in SUBSET N /\ (\A m \in R : Open(g, H)[m] \subseteq R)
        BY <1>1, <1>2 DEF e
      <4> QED BY <3>2, <4>1, <4>2, OthersStay DEF M
    <3> QED BY <2>2, <3>1, <3>3
  <2> QED BY <2>3, <2>4
<1>11. \A c \in T.leaves : \E n \in N : c = Leaf(g, F, n)
  BY <1>1, <1>3, <1>7
<1>12. Disjoint(g, T)
  BY <1>3, <1>9 DEF Disjoint
<1>13. Complete(N, g, F, T)
  BY <1>3, <1>10 DEF Complete
<1>14. Nested(N, g, F, T)
  BY <1>3, <1>5, <1>6, <1>8, <1>11, <1>12, <1>13 DEF Nested
<1> QED BY <1>14 DEF T

-----------------------------------------------------------------------------
(* Every step marks a node or leaves one behind.                           *)
Live(g, t)    == UNION {Region(g, t.heads, k) : k \in t.todo}
TreeLeft(g, t) == Cardinality(Live(g, t)) + Cardinality(Live(g, t) \ t.heads)

(* What is left of the tree is a number, at most twice the nodes.          *)
LEMMA TreeLeftFacts ==
  ASSUME NEW N, NEW g, Numbered(g, N), NEW F, NEW t, Nested(N, g, F, t)
  PROVE  Live(g, t) \in SUBSET N /\ TreeLeft(g, t) \in Nat /\ TreeLeft(g, t) <= 2 * Exit
<1>1. /\ t.heads \in SUBSET N /\ \A k \in t.todo : k.cf_nodes \in SUBSET N
  BY DEF Nested, Below
<1>2. \A k \in t.todo : Region(g, t.heads, k) \in SUBSET N
  BY <1>1, RegionFacts
<1>3. Live(g, t) \in SUBSET N
  BY <1>2 DEF Live
<1>4. N \in SUBSET Nodes /\ Exit \in Nat
  BY NodesFinite DEF Numbered
<1> DEFINE A == Live(g, t)
           B == A \ t.heads
<1>5. A \in SUBSET Nodes /\ B \in SUBSET Nodes
  BY <1>3, <1>4
<1> HIDE DEF A, B
<1>6. Cardinality(A) \in Nat /\ Cardinality(A) <= Exit /\ Cardinality(B) \in Nat /\ Cardinality(B) <= Exit
  BY <1>5, SomeNodes
<1>7. TreeLeft(g, t) = Cardinality(A) + Cardinality(B)
  BY DEF TreeLeft, A, B
<1> QED BY <1>3, <1>4, <1>6, <1>7

(* A set that lost an element, or has one more of it marked, counts less.  *)
LEMMA FewerLeft ==
  ASSUME NEW N \in SUBSET Nodes, NEW A \in SUBSET N, NEW B \in SUBSET A, NEW H, NEW M, H \subseteq M,
         NEW x \in A, x \notin B \/ (x \notin H /\ x \in M)
  PROVE  Cardinality(B) + Cardinality(B \ M) < Cardinality(A) + Cardinality(A \ H)
<1> DEFINE C == A \ H
           D == B \ M
<1>1. A \in SUBSET Nodes /\ B \in SUBSET A /\ C \in SUBSET Nodes /\ D \in SUBSET C /\ D \in SUBSET Nodes
      /\ B \in SUBSET Nodes
  OBVIOUS
<1>2. A # B \/ C # D
  OBVIOUS
<1> HIDE DEF C, D
<1>3. /\ IsFiniteSet(A) /\ Cardinality(A) \in Nat /\ IsFiniteSet(C) /\ Cardinality(C) \in Nat
      /\ Cardinality(B) \in Nat /\ Cardinality(D) \in Nat
  BY <1>1, SomeNodes
<1>4. Cardinality(B) <= Cardinality(A) /\ (Cardinality(A) = Cardinality(B) => A = B)
  BY <1>1, <1>3, FS_Subset
<1>5. Cardinality(D) <= Cardinality(C) /\ (Cardinality(C) = Cardinality(D) => C = D)
  BY <1>1, <1>3, FS_Subset
<1>6. Cardinality(B) + Cardinality(D) < Cardinality(A) + Cardinality(C)
  <2> DEFINE a == Cardinality(A)
             b == Cardinality(B)
             c == Cardinality(C)
             d == Cardinality(D)
  <2>1. a \in Nat /\ b \in Nat /\ c \in Nat /\ d \in Nat /\ b <= a /\ d <= c
    BY <1>3, <1>4, <1>5
  <2>2. b # a \/ d # c
    BY <1>2, <1>4, <1>5
  <2> HIDE DEF a, b, c, d
  <2>3. b + d < a + c
    BY <2>1, <2>2
  <2> QED BY <2>3 DEF a, b, c, d
<1> QED BY <1>6 DEF C, D

(* Looking into a Head leaves less of the tree to be done.                 *)
LEMMA AfterLess ==
  ASSUME NEW N, NEW g, Numbered(g, N), NEW F, Nests(N, g, F), NEW t, Nested(N, g, F, t), NEW l \in t.todo
  PROVE  TreeLeft(g, After(g, t, l)) < TreeLeft(g, t)
<1> DEFINE H == t.heads
           R == Region(g, H, l)
           e == Open(g, H)
           M == Marked(g, H, R)
           T == After(g, t, l)
           L == Loners(e, R)
           A == Live(g, t)
           B == Live(g, T)
           Old(k) == k \in t.todo \ {l} /\ Region(g, M, k) = Region(g, H, k) /\ Region(g, M, k) \cap R = {}
           New(k) == \E n \in R \ L :
                       k = Under(g, e, l, n) /\ Region(g, M, k) = Component(e, n) /\ Component(e, n) \subseteq R
<1>1. Nested(N, g, F, T)
  BY AfterNested
<1>2. H \in SUBSET N /\ (\A j \in t.todo : Below(N, g, F, H, j)) /\ T.heads = M
  BY DEF Nested, After
<1>3. /\ R \in SUBSET N /\ l.cf_nodes \subseteq R /\ l.cf_nodes # {} /\ R \subseteq A
      /\ l.cf_nodes \subseteq H \/ l.cf_nodes = {g.entry}
  <2>1. /\ l.cf_nodes \in SUBSET N /\ l.cf_nodes # {}
        /\ l.cf_nodes \subseteq H \/ l.cf_nodes = {g.entry}
    BY <1>2 DEF Below
  <2>2. R \in SUBSET N /\ l.cf_nodes \subseteq R
    BY <1>2, <2>1, RegionFacts
  <2> QED BY <2>1, <2>2 DEF Live
<1>4. N \in SUBSET Nodes /\ e \in [N -> SUBSET N] /\ H \subseteq M
  BY OpenFacts DEF Marked
<1>5. \A k \in T.todo : Old(k) \/ New(k)
  BY TodoFacts
<1>6. A \in SUBSET N /\ B \in SUBSET N
  BY <1>1, TreeLeftFacts
<1>7. TreeLeft(g, t) = Cardinality(A) + Cardinality(A \ H) /\ TreeLeft(g, T) = Cardinality(B) + Cardinality(B \ M)
  BY <1>2 DEF TreeLeft
<1>8. /\ \A x \in A : \E k \in t.todo : x \in Region(g, H, k)
      /\ \A k \in t.todo : Region(g, H, k) \subseteq A
      /\ \A x \in B : \E k \in T.todo : x \in Region(g, M, k)
  BY <1>2 DEF Live
<1>e. \A n \in R : n \in L <=> Lone(e, n)
  BY DEF Loners, Lone, Single
<1>m. \A n \in R : ~Lone(e, n) => Component(e, n) \cap H = {}
  BY <1>2, <1>3, MarkedAlone
<1>n. \A n \in R : Entered(g, Component(e, n)) \subseteq M
  BY DEF Marked
<1> HIDE DEF H, R, e, M, T, L, A, B
<1>9. B \subseteq A
  BY <1>3, <1>5, <1>8
<1>10. PICK x \in l.cf_nodes : TRUE
  BY <1>3
<1>11. x \in R /\ x \in A /\ x \in N
  BY <1>3, <1>10
<1>12. x \in Component(e, x) /\ Component(e, x) \in SUBSET N
  BY <1>4, <1>11, ComponentFacts
<1>a. x \notin B \/ (x \notin H /\ x \in M) => TreeLeft(g, T) < TreeLeft(g, t)
  <2> SUFFICES ASSUME x \notin B \/ (x \notin H /\ x \in M)
               PROVE  Cardinality(B) + Cardinality(B \ M) < Cardinality(A) + Cardinality(A \ H)
    BY <1>7
  <2>1. B \in SUBSET A
    BY <1>9
  <2> QED BY <1>4, <1>6, <1>11, <2>1, FewerLeft
<1>13. CASE Lone(e, x)
  <2>1. x \notin B
    <3> SUFFICES ASSUME x \in B PROVE FALSE
      OBVIOUS
    <3>1. PICK k \in T.todo : x \in Region(g, M, k)
      BY <1>8
    <3>2. ~Old(k)
      BY <1>11, <3>1
    <3>3. PICK n \in R \ L : x \in Component(e, n)
      BY <1>5, <3>1, <3>2
    <3>4. n \in N /\ ~Lone(e, n)
      BY <1>3, <1>e
    <3>5. Component(e, x) = Component(e, n) /\ n \in Component(e, n)
      BY <1>4, <3>3, <3>4, ComponentFacts
    <3>6. Component(e, x) = {x}
      BY <1>13 DEF Lone, Single
    <3>7. n = x
      BY <3>5, <3>6
    <3> QED BY <1>13, <3>4, <3>7
  <2>2. x \notin B \/ (x \notin H /\ x \in M)
    BY <2>1
  <2> QED BY <1>a, <2>2 DEF T
<1>14. CASE ~Lone(e, x)
  <2>1. x \notin H
    BY <1>m, <1>11, <1>12, <1>14
  <2>2. x = g.entry
    BY <1>3, <1>10, <2>1
  <2> DEFINE C == Component(e, x)
  <2>3. x \in Entered(g, C)
    BY <1>12, <2>2 DEF Entered
  <2>4. x \in M
    BY <1>11, <1>n, <2>3
  <2>5. x \notin B \/ (x \notin H /\ x \in M)
    BY <2>1, <2>4
  <2> QED BY <1>a, <2>5 DEF T
<1> QED BY <1>13, <1>14 DEF T

(* The tree has records for nodes.                                         *)
LEMMA AfterTyped ==
  ASSUME NEW N, NEW g, Numbered(g, N), NEW F, NEW t \in LoopTrees, Nested(N, g, F, t), NEW l \in t.todo
  PROVE  After(g, t, l) \in LoopTrees
<1> DEFINE R == Region(g, t.heads, l)
           e == Open(g, t.heads)
<1>1. /\ t.heads \in SUBSET N /\ t.leaves \in SUBSET LoopNodes /\ t.todo \in SUBSET LoopNodes
      /\ l.depth \in Nat /\ l.cf_nodes \in SUBSET N
  BY DEF Nested, Below, LoopTrees
<1>2. R \in SUBSET N /\ \A m \in R : e[m] \subseteq R
  BY <1>1, RegionFacts
<1>3. N \in SUBSET Nodes /\ e \in [N -> SUBSET N]
  BY OpenFacts
<1>4. Marked(g, t.heads, R) \in SUBSET N
  BY <1>1, <1>2, MarkedFacts
<1>5. /\ After(g, t, l).heads = Marked(g, t.heads, R)
      /\ After(g, t, l).leaves = t.leaves \cup {Alone(l, n) : n \in Loners(e, R)}
      /\ After(g, t, l).todo = (t.todo \ {l}) \cup {Under(g, e, l, n) : n \in R \ Loners(e, R)}
      /\ After(g, t, l) = [heads |-> After(g, t, l).heads, leaves |-> After(g, t, l).leaves,
                            todo |-> After(g, t, l).todo]
  BY DEF After
<1> HIDE DEF R, e
<1>6. ASSUME NEW n \in R PROVE Alone(l, n) \in LoopNodes /\ Under(g, e, l, n) \in LoopNodes
  <2>1. n \in N /\ n \in Nodes
    BY <1>2, <1>3
  <2>2. Component(e, n) \in SUBSET N
    BY <1>3, <2>1, ComponentFacts
  <2>3. Entered(g, Component(e, n)) \in SUBSET Nodes
    BY <1>3, <2>2 DEF Entered
  <2>4. Alone(l, n) \in LoopNodes
    BY <1>1, <2>1 DEF Alone, LoopNodes
  <2>5. Under(g, e, l, n) \in LoopNodes
    BY <1>1, <2>3 DEF Under, LoopNodes
  <2> QED BY <2>4, <2>5
<1>7. \A n \in Loners(e, R) : n \in R
  BY DEF Loners
<1>8. /\ After(g, t, l).leaves \in SUBSET LoopNodes /\ After(g, t, l).todo \in SUBSET LoopNodes
      /\ After(g, t, l).heads \in SUBSET Nodes
  BY <1>1, <1>3, <1>4, <1>5, <1>6, <1>7
<1> DEFINE u == After(g, t, l)
<1> HIDE DEF u
<1>9. /\ u = [heads |-> u.heads, leaves |-> u.leaves, todo |-> u.todo]
      /\ u.leaves \in SUBSET LoopNodes /\ u.todo \in SUBSET LoopNodes /\ u.heads \in SUBSET Nodes
  BY <1>5, <1>8 DEF u
<1>10. u \in LoopTrees
  BY <1>9 DEF LoopTrees
<1> QED BY <1>10 DEF u

(* At first all nodes are below one Head: that of the entry.               *)
LEMMA TreeStarts ==
  ASSUME NEW N, NEW g, Numbered(g, N), NEW F, Nests(N, g, F)
  PROVE  LET start == [heads |-> {}, leaves |-> {}, todo |-> {[depth |-> 1, cf_nodes |-> {g.entry}]}]
         IN  start \in LoopTrees /\ Nested(N, g, F, start)
<1> DEFINE l     == [depth |-> 1, cf_nodes |-> {g.entry}]
           start == [heads |-> {}, leaves |-> {}, todo |-> {l}]
           e     == Open(g, {})
           K     == Closure(e, {g.entry})
<1>1. N \in SUBSET Nodes /\ g.succs \in [N -> SUBSET N] /\ g.entry \in N /\ {g.entry} \in SUBSET N
  BY DEF Numbered
<1>2. e \in [N -> SUBSET N] /\ e = g.succs
  BY <1>1 DEF Open
<1>3. Region(g, {}, l) = K
  BY DEF Region
<1> HIDE DEF e
<1>4. K \in SUBSET N /\ g.entry \in K /\ \A m \in K : e[m] \subseteq K
  <2> DEFINE S == {g.entry}
  <2>1. S \in SUBSET N /\ g.entry \in S
    BY <1>1
  <2> HIDE DEF S
  <2>2. Closure(e, S) \in SUBSET N /\ S \subseteq Closure(e, S) /\ \A m \in Closure(e, S) : e[m] \subseteq Closure(e, S)
    BY <1>1, <1>2, <2>1, ClosureFacts
  <2> QED BY <2>1, <2>2 DEF S
<1> HIDE DEF K
<1>5. N \subseteq K
  <2> DEFINE rank == g.index
  <2>1. rank \in [N -> Nat]
    BY IndexFacts
  <2>2. ASSUME NEW y \in N, \A m \in N : rank[m] < rank[y] => m \in K PROVE y \in K
    <3> SUFFICES ASSUME y # g.entry PROVE y \in K
      BY <1>4
    <3>1. PICK m \in N : y \in g.succs[m] /\ g.index[m] < g.index[y]
      BY DEF Numbered
    <3>2. m \in K
      BY <2>2, <3>1
    <3> QED BY <1>2, <1>4, <3>1, <3>2
  <2> HIDE DEF rank
  <2> QED BY <2>1, <2>2, RankInduction
<1>6. K = N
  BY <1>4, <1>5
<1>7. Inside(N, e, K) = g.succs
  BY <1>1, <1>2, <1>6 DEF Inside
<1>8. Below(N, g, F, {}, l)
  <2>1. \A n \in N : F[n][g.succs] \in Nat
    BY <1>1 DEF Nests
  <2>2. l.depth = 1 /\ l.cf_nodes = {g.entry}
    OBVIOUS
  <2> HIDE DEF l
  <2>3. \A n \in Region(g, {}, l) : F[n][g.succs] + 1 = l.depth + F[n][Inside(N, e, Region(g, {}, l))]
    BY <1>3, <1>6, <1>7, <2>1, <2>2
  <2> QED BY <1>1, <2>2, <2>3 DEF Below, e
<1>9. start \in LoopTrees
  <2>1. l \in LoopNodes
    BY <1>1 DEF LoopNodes
  <2> HIDE DEF l
  <2> QED BY <2>1 DEF LoopTrees
<1> HIDE DEF l
<1>10. /\ start.heads = {} /\ start.leaves = {} /\ start.todo = {l}
  OBVIOUS
<1> HIDE DEF start
<1>11. Disjoint(g, start)
  BY <1>10 DEF Disjoint
<1>12. Complete(N, g, F, start)
  BY <1>3, <1>6, <1>10 DEF Complete
<1>13. IsFiniteSet({l})
  BY FS_Singleton
<1>14. Nested(N, g, F, start)
  BY <1>8, <1>10, <1>11, <1>12, <1>13 DEF Nested
<1> QED BY <1>9, <1>14 DEF start, l

(* Every node ends up as a leaf, below as many Heads as there are loops    *)
(* around it.                                                              *)
LEMMA LoopTreeFacts ==
  ASSUME NEW N, NEW g, Numbered(g, N), NEW F, Nests(N, g, F)
  PROVE  LoopTree(g) = [n \in N |-> Leaf(g, F, n)]
<1> DEFINE start   == [heads |-> {}, leaves |-> {}, todo |-> {[depth |-> 1, cf_nodes |-> {g.entry}]}]
           n       == 2 * Exit
           V       == {t \in LoopTrees : Nested(N, g, F, t)}
           step    == [t \in LoopTrees |-> Recurse(g, t)]
           measure == [t \in LoopTrees |-> TreeLeft(g, t)]
           Done    == {t \in LoopTrees : t.todo = {}}
           last    == Iterated(step, n, start)
           tree    == [m \in UNION {c.cf_nodes : c \in last.leaves} |-> CHOOSE c \in last.leaves : m \in c.cf_nodes]
<1>1. LoopTree(g) = tree
  BY DEF LoopTree
<1>2. n \in Nat
  BY NodesFinite
<1>3. \A t \in LoopTrees : step[t] = Recurse(g, t) /\ measure[t] = TreeLeft(g, t)
  OBVIOUS
<1> HIDE DEF step, measure
<1>4. start \in V
  BY TreeStarts
<1> HIDE DEF start
<1>5. \A t \in V : t \in LoopTrees /\ Nested(N, g, F, t)
  OBVIOUS
<1>6. \A t \in V : measure[t] \in Nat /\ measure[t] <= n
  BY <1>3, <1>5, TreeLeftFacts
<1>7. ASSUME NEW t \in V
      PROVE  /\ step[t] \in V
             /\ t \in Done => step[t] \in Done
             /\ t \notin Done => measure[step[t]] < measure[t]
  <2>1. t \in LoopTrees /\ Nested(N, g, F, t) /\ step[t] = Recurse(g, t) /\ measure[t] = TreeLeft(g, t)
    BY <1>3, <1>5
  <2>2. CASE t.todo = {}
    <3>1. Recurse(g, t) = t
      BY <2>2 DEF Recurse
    <3> QED BY <2>1, <2>2, <3>1
  <2>3. CASE t.todo # {}
    <3>1. PICK l \in t.todo : Recurse(g, t) = After(g, t, l)
      BY <2>1, <2>3, RecurseIs
    <3>2. After(g, t, l) \in LoopTrees
      BY <2>1, AfterTyped
    <3>3. Nested(N, g, F, After(g, t, l))
      BY <2>1, AfterNested
    <3>4. TreeLeft(g, After(g, t, l)) < TreeLeft(g, t)
      BY <2>1, AfterLess
    <3>5. measure[After(g, t, l)] = TreeLeft(g, After(g, t, l))
      BY <1>3, <3>2
    <3> QED BY <2>1, <2>3, <3>1, <3>2, <3>3, <3>4, <3>5
  <2> QED BY <2>2, <2>3
<1>8. last \in V /\ last \in Done
  <2>1. \A t \in V : step[t] \in V
    BY <1>7
  <2>2. \A t \in V : measure[t] \in Nat
    BY <1>6
  <2>3. \A t \in V : t \in Done => step[t] \in Done
    BY <1>7
  <2>4. \A t \in V : t \notin Done => measure[step[t]] < measure[t]
    BY <1>7
  <2>5. measure[start] <= n
    BY <1>4, <1>6
  <2> HIDE DEF V, Done, n
  <2> QED BY <1>2, <1>4, <2>1, <2>2, <2>3, <2>4, <2>5, IteratedEnds, Zenon
<1> HIDE DEF last
<1>9. Nested(N, g, F, last) /\ last.todo = {}
  BY <1>5, <1>8
<1>10. /\ \A m \in N : Leaf(g, F, m) \in last.leaves
       /\ \A c \in last.leaves : \E m \in N : c = Leaf(g, F, m)
  BY <1>9 DEF Nested, Complete
<1>11. \A m \in N : Leaf(g, F, m).cf_nodes = {m}
  BY DEF Leaf
<1>12. UNION {c.cf_nodes : c \in last.leaves} = N
  <2>1. \A c \in last.leaves : c.cf_nodes \subseteq N
    BY <1>10, <1>11
  <2>2. \A m \in N : \E c \in last.leaves : m \in c.cf_nodes
    BY <1>10, <1>11
  <2> QED BY <2>1, <2>2
<1>13. ASSUME NEW m \in N PROVE (CHOOSE c \in last.leaves : m \in c.cf_nodes) = Leaf(g, F, m)
  <2> DEFINE x == CHOOSE c \in last.leaves : m \in c.cf_nodes
  <2>1. \E c \in last.leaves : m \in c.cf_nodes
    BY <1>10, <1>11
  <2>2. x \in last.leaves /\ m \in x.cf_nodes
    BY <2>1
  <2> HIDE DEF x
  <2>3. PICK k \in N : x = Leaf(g, F, k)
    BY <1>10, <2>2
  <2>4. m = k
    BY <1>11, <2>2, <2>3
  <2> QED BY <2>3, <2>4 DEF x
<1>14. tree = [m \in N |-> Leaf(g, F, m)]
  BY <1>12, <1>13
<1> QED BY <1>1, <1>14

-----------------------------------------------------------------------------
(* How deep a node is in the loops of a graph.                             *)
Deeper(N, g, n, h) ==
  [s \in [N -> SUBSET N] |-> IF n \notin Around(N, s, n) THEN 1 ELSE 1 + h[Inner(N, g, s, Around(N, s, n))]]
Deep(N, g, n)      == CHOOSE h : h = Deeper(N, g, n, h)

Edges(N, s) == {a \in N \X N : a[2] \in s[a[1]]}

(* The loop around a node has an edge to where it is entered.              *)
LEMMA InnerLess ==
  ASSUME NEW N, NEW g, Numbered(g, N), NEW n \in N, NEW s \in [N -> SUBSET N], n \in Around(N, s, n)
  PROVE  /\ Inner(N, g, s, Around(N, s, n)) \in [N -> SUBSET N]
         /\ Cardinality(Edges(N, Inner(N, g, s, Around(N, s, n)))) < Cardinality(Edges(N, s))
<1> DEFINE L == Around(N, s, n)
           u == Inner(N, g, s, L)
           A == Edges(N, s)
           B == Edges(N, u)
<1>1. N \in SUBSET Nodes /\ n \in L /\ L \in SUBSET N
  BY DEF Numbered, Around
<1>2. \A m \in L : m \in Closure(s, s[n])
  BY DEF Around
<1> HIDE DEF L
<1>3. u \in [N -> SUBSET N] /\ \A m \in N : u[m] = IF m \in L THEN (s[m] \cap L) \ Entered(g, L) ELSE {}
  BY <1>1 DEF Inner
<1> HIDE DEF u
<1>4. PICK h \in L : h \in Entered(g, L)
  <2>1. L # {}
    BY <1>1
  <2>2. Entered(g, L) \in SUBSET L /\ Entered(g, L) # {}
    BY <1>1, <2>1, EnteredFacts
  <2> QED BY <2>2
<1>5. \E m \in N : h \in s[m]
  <2> DEFINE T == {y \in N : \E m \in N : y \in s[m]}
             S == s[n]
  <2>1. S \subseteq T /\ S \in SUBSET N /\ \A y \in T \cap N : s[y] \subseteq T
    OBVIOUS
  <2>2. h \in Closure(s, S)
    BY <1>2
  <2>3. h \in T => \E m \in N : h \in s[m]
    OBVIOUS
  <2> HIDE DEF T, S
  <2>4. Closure(s, S) \subseteq T
    BY <1>1, <2>1, ClosureFacts
  <2> QED BY <2>2, <2>3, <2>4
<1>6. PICK m \in N : h \in s[m]
  BY <1>5
<1>7. IsFiniteSet(A) /\ B \in SUBSET A /\ A # B
  <2>1. IsFiniteSet(N \X N)
    BY <1>1, SomeNodes, FS_Product
  <2>2. A \in SUBSET (N \X N)
    BY DEF Edges
  <2>3. IsFiniteSet(A)
    BY <2>1, <2>2, FS_Subset
  <2>4. B \subseteq A
    BY <1>3 DEF Edges
  <2>5. <<m, h>> \in A /\ <<m, h>> \notin B
    BY <1>1, <1>3, <1>4, <1>6 DEF Edges
  <2> QED BY <2>3, <2>4, <2>5
<1> HIDE DEF A, B
<1>8. Cardinality(B) < Cardinality(A)
  <2>1. IsFiniteSet(B) /\ Cardinality(B) <= Cardinality(A) /\ Cardinality(A) # Cardinality(B)
    BY <1>7, FS_Subset
  <2>2. Cardinality(A) \in Nat /\ Cardinality(B) \in Nat
    BY <1>7, <2>1, FS_CardinalityType
  <2> QED BY <2>1, <2>2
<1> QED BY <1>3, <1>8 DEF L, u, A, B

(* So the depth is a number, and as said.                                  *)
LEMMA DeepFacts ==
  ASSUME NEW N, NEW g, Numbered(g, N), NEW n \in N
  PROVE  Deep(N, g, n) \in [[N -> SUBSET N] -> Nat] /\ Deep(N, g, n) = Deeper(N, g, n, Deep(N, g, n))
<1> DEFINE D == [N -> SUBSET N]
           rank == [s \in D |-> Cardinality(Edges(N, s))]
           in(s) == n \in Around(N, s, n)
           next(s) == Inner(N, g, s, Around(N, s, n))
           step == [a \in D \X [D -> Nat] |-> IF in(a[1]) THEN 1 + a[2][next(a[1])] ELSE 1]
           Loop(h) == Deeper(N, g, n, h)
           h == Deep(N, g, n)
<1>1. rank \in [D -> Nat]
  <2>1. ASSUME NEW s \in D PROVE Cardinality(Edges(N, s)) \in Nat
    <3>1. IsFiniteSet(N \X N)
      BY SomeNodes, FS_Product DEF Numbered
    <3>2. Edges(N, s) \in SUBSET (N \X N)
      BY DEF Edges
    <3>3. IsFiniteSet(Edges(N, s))
      BY <3>1, <3>2, FS_Subset
    <3> QED BY <3>3, FS_CardinalityType
  <2> QED BY <2>1
<1>2. \A s \in D : rank[s] = Cardinality(Edges(N, s))
  OBVIOUS
<1>3. ASSUME NEW s \in D, in(s) PROVE next(s) \in D /\ rank[next(s)] < rank[s]
  <2>1. next(s) \in D /\ Cardinality(Edges(N, next(s))) < Cardinality(Edges(N, s))
    BY <1>3, InnerLess
  <2> QED BY <1>2, <2>1
<1>4. \A e : Loop(e) = [s \in D |-> IF in(s) THEN 1 + e[next(s)] ELSE 1]
  BY DEF Deeper
<1>5. h = CHOOSE e : e = Loop(e)
  BY DEF Deep
<1>6. \A s \in D, c \in [D -> Nat] : step[<<s, c>>] = IF in(s) THEN 1 + c[next(s)] ELSE 1
  OBVIOUS
<1> HIDE DEF rank, in, next, step, Loop, h, D
<1>7. ASSUME NEW s \in D, NEW c \in [D -> Nat] PROVE step[<<s, c>>] \in Nat
  <2>1. CASE in(s)
    <3>1. next(s) \in D
      BY <1>3, <2>1
    <3>2. c[next(s)] \in Nat
      BY <3>1
    <3>3. step[<<s, c>>] = 1 + c[next(s)]
      BY <1>6, <2>1
    <3> QED BY <3>2, <3>3
  <2>2. CASE ~in(s)
    <3>1. step[<<s, c>>] = 1
      BY <1>6, <2>2
    <3> QED BY <3>1
  <2> QED BY <2>1, <2>2
<1>8. \A s \in D, c, e \in [D -> Nat] :
        (\A q \in D : rank[q] < rank[s] => c[q] = e[q]) => step[<<s, c>>] = step[<<s, e>>]
  BY <1>3, <1>6
<1>9. PICK c \in [D -> Nat] : Recursive(c, D, step)
  <2> DEFINE V == Nat
  <2>1. V # {}
    OBVIOUS
  <2> HIDE DEF V
  <2>2. rank \in [D -> Nat] /\ (\A s \in D, c \in [D -> V] : step[<<s, c>>] \in V)
        /\ \A s \in D, c, e \in [D -> V] :
             (\A q \in D : rank[q] < rank[s] => c[q] = e[q]) => step[<<s, c>>] = step[<<s, e>>]
    BY <1>1, <1>7, <1>8 DEF V
  <2>3. \E c \in [D -> V] : Recursive(c, D, step)
    BY <2>1, <2>2, RecursionExists, Zenon
  <2> QED BY <2>3 DEF V
<1>10. c = Loop(c)
  <2>1. \A s \in D : c[s] = IF in(s) THEN 1 + c[next(s)] ELSE 1
    BY <1>6, <1>9 DEF Recursive
  <2> QED BY <1>4, <2>1
<1>11. h = Loop(h)
  BY <1>5, <1>10
<1> DEFINE T == {s \in D : h[s] \in Nat}
<1>12. \A s \in D : h[s] = IF in(s) THEN 1 + h[next(s)] ELSE 1
  <2>1. h = [s \in D |-> IF in(s) THEN 1 + h[next(s)] ELSE 1]
    BY <1>4, <1>11
  <2> QED BY <2>1
<1>13. ASSUME NEW s \in D, \A q \in D : rank[q] < rank[s] => q \in T PROVE s \in T
  BY <1>3, <1>12, <1>13
<1>14. D \subseteq T
  <2> HIDE DEF T
  <2> QED BY <1>1, <1>13, RankInduction
<1>15. h \in [D -> Nat]
  <2>1. h = [s \in D |-> h[s]]
    BY <1>4, <1>11
  <2> QED BY <1>14, <2>1
<1> QED BY <1>11, <1>15 DEF h, Loop, D

(* It is how deep the nodes are.                                           *)
LEMMA NestsExists ==
  ASSUME NEW N, NEW g, Numbered(g, N)
  PROVE  Nests(N, g, [n \in N |-> Deep(N, g, n)])
<1> DEFINE F == [n \in N |-> Deep(N, g, n)]
<1>1. \A n \in N : F[n] \in [[N -> SUBSET N] -> Nat] /\ F[n] = Deeper(N, g, n, F[n])
  BY DeepFacts
<1>2. F \in [N -> [[N -> SUBSET N] -> Nat]]
  BY <1>1
<1> HIDE DEF F
<1>3. ASSUME NEW n \in N, NEW s \in [N -> SUBSET N]
      PROVE  F[n][s] = IF n \notin Around(N, s, n) THEN 1 ELSE 1 + F[n][Inner(N, g, s, Around(N, s, n))]
  <2>1. F[n] = [v \in [N -> SUBSET N] |->
                  IF n \notin Around(N, v, n) THEN 1 ELSE 1 + F[n][Inner(N, g, v, Around(N, v, n))]]
    BY <1>1 DEF Deeper
  <2> QED BY <2>1
<1> QED BY <1>2, <1>3 DEF Nests, F

-----------------------------------------------------------------------------
(* The analyses as they are built.                                         *)

(* Definitions that depend on earlier ones and on parameters of the blocks *)
(* of N, and are used by those that depend on them and perhaps in blocks.  *)
Ordered(p, N) ==
  /\ DOMAIN p.operands = Defs /\ DOMAIN p.users = Defs
  /\ \A d \in Defs : Range(p.operands[d]) \subseteq (N \cap Blocks) \cup {o \in Defs : o < d}
  /\ \A d \in Defs : p.users[d] # {} /\ p.users[d] \subseteq (N \cap Blocks) \cup {u \in Defs : d < u}
  /\ \A d, o \in Defs : o \in Range(p.operands[d]) => d \in p.users[o]

(* An analysis that is there was computed from those that are there.       *)
AInv ==
  /\ jumps \in [Blocks -> SUBSET Blocks] /\ forward \in BOOLEAN
  /\ cfa # None => cfa = LinkToExit(Linked(jumps))
  /\ cfg # None => cfa # None /\ cfg = CFG(cfa, forward)
  /\ idom # None => cfg # None /\ idom = Idoms(cfg)
  /\ frontier # None => idom # None /\ frontier = <<Frontier(cfg, idom)>>
  /\ leaves # None => frontier # None /\ leaves = LoopTree(cfg)
  /\ placed # None =>
       leaves # None /\ forward /\ Ordered(placed, DOMAIN cfa) /\ Bound(placed.operands, placed.users)

LEMMA DefsFacts ==
  /\ Defs \in SUBSET Nat /\ Defs \cap Blocks = {} /\ Exit + NumDefs \in Nat
  /\ \A d \in Defs : d <= Exit + NumDefs
  /\ IsFiniteSet(Defs \cup Blocks)
<1>1. Exit \in Nat /\ MaxBlocks \in Nat /\ NumDefs \in Nat
  BY MaxBlocksAssumption, NumDefsAssumption DEF Exit
<1>2. IsFiniteSet(Exit + 1 .. Exit + NumDefs) /\ IsFiniteSet(1 .. MaxBlocks)
  BY <1>1, FS_Interval
<1>3. IsFiniteSet(Defs \cup Blocks)
  BY <1>2, FS_Union DEF Defs, Blocks
<1> QED BY <1>1, <1>3 DEF Defs, Blocks, Exit

(* The programs of Schedule are such: each definition takes the one before.*)
LEMMA ProgramsOrdered ==
  ASSUME DOMAIN cfa \subseteq Nodes, NEW p \in Programs
  PROVE  Ordered(p, DOMAIN cfa)
<1> DEFINE conts == DOMAIN cfa \ {Exit}
           before(d) == IF d = Exit + 1 THEN << >> ELSE <<d - 1>>
           some == {U \in SUBSET conts : Cardinality(U) <= 2}
           none == {{}} \cup {{b} : b \in conts}
<1> DEFINE pairs(f) == Cardinality({c \in Defs \X conts : c[2] \in f[c[1]]})
           program(v, q) == [operands |-> [d \in Defs |-> before(d) \o SetToSeq(q[d])],
                             users    |-> [d \in Defs |-> v[d] \cup (Defs \cap {d + 1})]]
           uses == {v \in [Defs -> some] : v[Exit + NumDefs] # {} /\ pairs(v) <= MaxUses}
           params(v) == {r \in [Defs -> none] : pairs(r) + pairs(v) <= MaxUses}
<1>0. Programs = UNION {{program(v, q) : q \in params(v)} : v \in uses}
  BY DEF Programs
<1>1. PICK v \in [Defs -> some], q \in [Defs -> none] : v[Exit + NumDefs] # {} /\ p = program(v, q)
  <2>1. \A v \in uses : v \in [Defs -> some] /\ v[Exit + NumDefs] # {}
    OBVIOUS
  <2>2. \A v : \A q \in params(v) : q \in [Defs -> none]
    OBVIOUS
  <2> HIDE DEF uses, params, program, some, none
  <2>3. PICK v \in uses : p \in {program(v, q) : q \in params(v)}
    BY <1>0
  <2>4. PICK q \in params(v) : p = program(v, q)
    BY <2>3
  <2> QED BY <2>1, <2>2, <2>4
<1>2. conts \subseteq DOMAIN cfa \cap Blocks
  BY DEF Nodes
<1>3. Exit \in Nat /\ NumDefs \in Nat /\ Defs = Exit + 1 .. Exit + NumDefs
  BY NodesFinite, NumDefsAssumption DEF Defs
<1>4. \A d \in Defs : v[d] \subseteq conts /\ q[d] \in none
  OBVIOUS
<1> HIDE DEF conts
<1>5. \A d \in Defs : p.operands[d] = before(d) \o SetToSeq(q[d]) /\ p.users[d] = v[d] \cup (Defs \cap {d + 1})
  BY <1>1
<1>6. DOMAIN p.operands = Defs /\ DOMAIN p.users = Defs
  BY <1>1
<1>7. ASSUME NEW d \in Defs
      PROVE  Range(p.operands[d]) \subseteq conts \cup (Defs \cap {d - 1})
  <2> DEFINE s == SetToSeq(q[d])
             t == before(d)
  <2>1. IsFiniteSet(q[d]) /\ q[d] \subseteq conts
    <3>1. q[d] = {} \/ \E b \in conts : q[d] = {b}
      BY <1>4
    <3>2. \A b \in conts : IsFiniteSet({b}) /\ {b} \subseteq conts
      BY FS_Singleton
    <3>3. IsFiniteSet({})
      BY FS_EmptySet
    <3> QED BY <3>1, <3>2, <3>3
  <2>2. s \in Seq(conts)
    BY <2>1, SetToSeqFacts, SeqMonotonic
  <2>3. t \in Seq(Defs \cap {d - 1})
    <3>1. CASE d = Exit + 1
      BY <3>1
    <3>2. CASE d # Exit + 1
      <4>1. d - 1 \in Defs \cap {d - 1}
        BY <1>3, <3>2
      <4>2. t = <<d - 1>>
        BY <3>2
      <4> HIDE DEF t
      <4> QED BY <4>1, <4>2
    <3> QED BY <3>1, <3>2
  <2>4. p.operands[d] = t \o s
    BY <1>5
  <2> HIDE DEF s, t
  <2>5. t \o s \in Seq(conts \cup (Defs \cap {d - 1}))
    BY <2>2, <2>3
  <2> QED BY <2>4, <2>5 DEF Range
<1> HIDE DEF before, none
<1>8. ASSUME NEW d \in Defs
      PROVE  /\ Range(p.operands[d]) \subseteq (DOMAIN cfa \cap Blocks) \cup {o \in Defs : o < d}
             /\ p.users[d] # {} /\ p.users[d] \subseteq (DOMAIN cfa \cap Blocks) \cup {u \in Defs : d < u}
  <2>1. d \in Nat /\ (d # Exit + NumDefs => d + 1 \in Defs)
    BY <1>3
  <2>2. p.users[d] # {}
    BY <1>1, <1>5, <2>1
  <2> QED BY <1>2, <1>4, <1>5, <1>7, <2>1, <2>2
<1>9. ASSUME NEW d \in Defs, NEW o \in Defs, o \in Range(p.operands[d]) PROVE d \in p.users[o]
  <2>1. o = d - 1 /\ d \in Nat
    BY <1>2, <1>3, <1>7, <1>9, DefsFacts
  <2>2. d = o + 1
    BY <1>3, <2>1
  <2> QED BY <1>5, <2>2
<1> QED BY <1>6, <1>8, <1>9 DEF Ordered

LEMMA InitAInv == Init => AInv
BY DEF Init, AInv

LEMMA NextAInv == AInv /\ [Next]_vars => AInv'
<1> SUFFICES ASSUME AInv, [Next]_vars PROVE AInv'
  OBVIOUS
<1>0. /\ cfa' = cfa => \A p : Ordered(p, DOMAIN cfa') <=> Ordered(p, DOMAIN cfa)
      /\ cfg' = cfg /\ placed' = placed =>
           (Bound(placed.operands, placed.users) <=> Bound(placed.operands, placed.users)')
  <2>1. cfg' = cfg => \A d, n : Dominates(d, n) <=> Dominates(d, n)'
    BY Zenon DEF Dominates
  <2> QED BY <2>1 DEF Bound
<1>1. CASE BuildCFA
  BY <1>1 DEF AInv, BuildCFA
<1>2. CASE BuildCFG
  BY <1>2 DEF AInv, BuildCFG
<1>3. CASE BuildDomTree
  BY <1>3 DEF AInv, BuildDomTree
<1>4. CASE BuildDomFrontier
  BY <1>4 DEF AInv, BuildDomFrontier
<1>5. CASE BuildLoopTree
  BY <1>5 DEF AInv, BuildLoopTree
<1>6. CASE Schedule
  <2>1. Ordered(placed', DOMAIN cfa') /\ Bound(placed.operands, placed.users)'
    <3>1. PICK p \in Programs : Bound(p.operands, p.users) /\ placed' = p
      BY <1>6 DEF Schedule
    <3>2. Bound(placed.operands, placed.users)'
      BY <1>6, <3>1 DEF Schedule, Bound, Dominates
    <3>3. DOMAIN cfa \subseteq Nodes
      BY <1>6, CFAFacts DEF AInv, Schedule, Linkable
    <3>4. Ordered(p, DOMAIN cfa)
      BY <3>3, ProgramsOrdered
    <3> QED BY <1>6, <3>1, <3>2, <3>4 DEF Schedule
  <2> QED BY <1>6, <2>1 DEF AInv, Schedule
<1>7. CASE UNCHANGED vars
  BY <1>0, <1>7 DEF AInv, vars
<1> QED BY <1>1, <1>2, <1>3, <1>4, <1>5, <1>6, <1>7 DEF Next

(* The analyses are never out of date.                                     *)
THEOREM AnalysesConsistent == Spec => []AInv
BY InitAInv, NextAInv, PTL DEF Spec

(* A graph that is there is numbered, and Dominates speaks of its paths.   *)
LEMMA CfgNumbered ==
  ASSUME AInv, cfg # None
  PROVE  Numbered(cfg, DOMAIN cfa)
<1>1. /\ cfa = LinkToExit(Linked(jumps)) /\ cfg = CFG(cfa, forward)
      /\ jumps \in [Blocks -> SUBSET Blocks] /\ forward \in BOOLEAN
  BY DEF AInv
<1>2. Linkable(DOMAIN cfa, cfa)
  BY <1>1, CFAFacts
<1>3. ASSUME NEW c, Linkable(DOMAIN c, c) PROVE Numbered(CFG(c, forward), DOMAIN c)
  BY <1>1, <1>3, CFGFacts
<1> QED BY <1>1, <1>2, <1>3

LEMMA DominatesIsDom ==
  ASSUME NEW N, Numbered(cfg, N)
  PROVE  \A d, n \in N : Dominates(d, n) <=> Dom(cfg, d, n)
<1> QED BY DomOrder, ZenonT(60) DEF Dominates, Dom, Reach, Avoiding

LEMMA IdomIsTree ==
  ASSUME AInv, idom # None
  PROVE  cfg # None /\ Numbered(cfg, DOMAIN cfa) /\ IdomTree(cfg, DOMAIN cfa, idom)
<1>1. cfg # None /\ idom = Idoms(cfg)
  BY DEF AInv
<1> QED BY <1>1, CfgNumbered, IdomsFacts

-----------------------------------------------------------------------------
(* link_to_exit and post_order_visit together leave no node without a      *)
(* number, forwards or backwards: the assertion in CFG's constructor.      *)
THEOREM NodesNumbered == Spec => []AllNumbered
<1>1. AInv => AllNumbered
  BY CfgNumbered DEF AllNumbered, Numbered
<1> QED BY <1>1, AnalysesConsistent, PTL

(* DomTreeBase::create ends with the immediate dominators, those that      *)
(* paths define.                                                           *)
THEOREM DomTreeCorrect == Spec => []IdomsNearest
<1>1. ASSUME AInv, idom # None, NEW n \in DOMAIN idom
      PROVE  LET above == {d \in DOMAIN cfa : d # n /\ Dominates(d, n)}
             IN  idom[n] \in above /\ \A d \in above : Dominates(d, idom[n])
  <2> DEFINE N == DOMAIN cfa
  <2>1. Numbered(cfg, N) /\ IdomTree(cfg, N, idom)
    BY <1>1, IdomIsTree
  <2> HIDE DEF N
  <2>2. n \in N \ {cfg.entry}
    BY <1>1, <2>1 DEF IdomTree
  <2>3. /\ idom[n] \in N /\ idom[n] # n
        /\ \A m \in N : Dom(cfg, m, n) <=> m = n \/ Dom(cfg, m, idom[n])
    BY <2>1, <2>2, DomTree
  <2>4. \A d, m \in N : Dominates(d, m) <=> Dom(cfg, d, m)
    BY <2>1, DominatesIsDom
  <2>5. Dom(cfg, idom[n], idom[n])
    BY <2>1, <2>3, DomOrder
  <2> QED BY <2>2, <2>3, <2>4, <2>5 DEF N
<1>2. AInv => IdomsNearest
  BY <1>1 DEF IdomsNearest
<1> QED BY <1>2, AnalysesConsistent, PTL

(* DomFrontierBase::create links each node to those whose joins it must    *)
(* feed: the frontier that paths define.                                   *)
THEOREM DomFrontierCorrect == Spec => []FrontierExact
<1>1. ASSUME AInv, frontier # None
      PROVE  frontier[1] = {e \in (DOMAIN cfa) \X (DOMAIN idom) :
                              /\ e[1] = e[2] \/ ~Dominates(e[1], e[2])
                              /\ \E p \in cfg.preds[e[2]] : Dominates(e[1], p)}
  <2> DEFINE N == DOMAIN cfa
             M == DOMAIN idom
  <2>1. idom # None /\ frontier[1] = Frontier(cfg, idom)
    BY <1>1 DEF AInv
  <2>2. Numbered(cfg, N) /\ IdomTree(cfg, N, idom)
    BY <1>1, <2>1, IdomIsTree
  <2> HIDE DEF N
  <2>3. M = N \ {cfg.entry}
    BY <2>2 DEF IdomTree
  <2> HIDE DEF M
  <2>4. \A d, m \in N : Dominates(d, m) <=> Dom(cfg, d, m)
    BY <2>2, DominatesIsDom
  <2>5. \A n \in N : cfg.preds[n] \subseteq N
    BY <2>2, PredFacts
  <2>6. Frontier(cfg, idom) = {e \in N \X M : /\ e[1] = e[2] \/ ~Dom(cfg, e[1], e[2])
                                              /\ \E p \in cfg.preds[e[2]] : Dom(cfg, e[1], p)}
    BY <2>2, <2>3, FrontierFacts
  <2>7. frontier[1] = {e \in N \X M : /\ e[1] = e[2] \/ ~Dominates(e[1], e[2])
                                      /\ \E p \in cfg.preds[e[2]] : Dominates(e[1], p)}
    BY <2>1, <2>3, <2>4, <2>5, <2>6
  <2> QED BY <2>7 DEF M, N
<1>2. AInv => FrontierExact
  BY <1>1 DEF FrontierExact
<1> QED BY <1>2, AnalysesConsistent, PTL

-----------------------------------------------------------------------------
(* Where definitions are placed.                                           *)

(* least_common_ancestor of many nodes: their nearest common dominator.    *)
LEMMA CommonFacts ==
  ASSUME NEW N, NEW g, Numbered(g, N), NEW f, IdomTree(g, N, f), NEW s \in Seq(N), Len(s) > 0
  PROVE  /\ CommonAncestor(g, f, s) \in N
         /\ \A i \in 1 .. Len(s) : Dom(g, CommonAncestor(g, f, s), s[i])
         /\ \A d \in N : (\A i \in 1 .. Len(s) : Dom(g, d, s[i])) => Dom(g, d, CommonAncestor(g, f, s))
<1>0. DOMAIN g.succs = N /\ Exit \in Nat
  BY NodesFinite DEF Numbered
<1>1. \A d, n \in N : DomWithin(g, Exit, d, n) <=> Dom(g, d, n)
  BY LevelsOfFacts DEF DomWithin, Dom
<1>2. f \in GoodTrees(g, N, Exit)
  <2>1. ASSUME NEW n \in N \ {g.entry} PROVE Good(g, Exit, n, f[n])
    BY <1>0, <1>1 DEF IdomTree, Good
  <2> QED BY <2>1 DEF IdomTree, GoodTrees
<1>3. Common(g, Exit, s, CommonAncestor(g, f, s))
  BY <1>0, <1>2, AllMeet
<1> DEFINE v == CommonAncestor(g, f, s)
<1> HIDE DEF v
<1>4. Common(g, Exit, s, v)
  BY <1>3 DEF v
<1>5. v \in N /\ \A i \in 1 .. Len(s) : s[i] \in N
  BY <1>0, <1>4 DEF Common
<1>6. v \in N /\ (\A i \in 1 .. Len(s) : Dom(g, v, s[i]))
        /\ \A d \in N : (\A i \in 1 .. Len(s) : Dom(g, d, s[i])) => Dom(g, d, v)
  BY <1>0, <1>1, <1>4, <1>5 DEF Common
<1> QED BY <1>6 DEF v

(* Two dominators of a node: one of them dominates the other.              *)
LEMMA DomChain ==
  ASSUME NEW N, NEW g, Numbered(g, N), NEW f, IdomTree(g, N, f), NEW a \in N, NEW b \in N
  PROVE  \A n \in N : Dom(g, a, n) /\ Dom(g, b, n) => Dom(g, a, b) \/ Dom(g, b, a)
<1> DEFINE S == {n \in N : Dom(g, a, n) /\ Dom(g, b, n) => Dom(g, a, b) \/ Dom(g, b, a)}
<1>0. g.index \in [N -> Nat]
  BY IndexFacts
<1>1. ASSUME NEW n \in N, \A m \in N : g.index[m] < g.index[n] => m \in S PROVE n \in S
  <2> SUFFICES ASSUME Dom(g, a, n), Dom(g, b, n) PROVE Dom(g, a, b) \/ Dom(g, b, a)
    OBVIOUS
  <2>1. CASE n = g.entry
    BY <2>1, AboveEntry
  <2>2. CASE n # g.entry
    <3>1. /\ f[n] \in N /\ g.index[f[n]] < g.index[n]
          /\ \A m \in N : Dom(g, m, n) <=> m = n \/ Dom(g, m, f[n])
      BY <2>2, DomTree
    <3>2. f[n] \in S
      BY <1>1, <3>1
    <3> QED BY <3>1, <3>2
  <2> QED BY <2>1, <2>2
<1> HIDE DEF S
<1>2. N \subseteq S
  BY <1>0, <1>1, RankInduction
<1> QED BY <1>2 DEF S

(* Nodes that dominate each other are one.                                 *)
LEMMA DomAntisymmetric ==
  ASSUME NEW N, NEW g, Numbered(g, N), NEW a \in N, NEW b \in N, Dom(g, a, b), Dom(g, b, a)
  PROVE  a = b
<1>1. g.index[a] \in Nat /\ g.index[b] \in Nat
  BY IndexFacts
<1>2. a # b => g.index[a] < g.index[b] /\ g.index[b] < g.index[a]
  BY DomIndex
<1> QED BY <1>1, <1>2

(* The depth of a node in the dominator tree counts its dominators, so that*)
(* it is greater than that of the others.                                  *)
LEMMA DepthFacts ==
  ASSUME NEW N, NEW g, Numbered(g, N), NEW f, IdomTree(g, N, f)
  PROVE  /\ \A n \in N : Depth(g, f, n) \in Nat /\ Depth(g, f, n) <= Exit
         /\ \A a, b \in N : Dom(g, a, b) /\ a # b => Depth(g, f, a) < Depth(g, f, b)
<1> DEFINE S(n) == {m \in N : Dom(g, m, n) /\ ~Dom(g, m, g.entry)}
<1>0. N \in SUBSET Nodes /\ g.entry \in N
  BY DEF Numbered
<1>1. \A n \in N : Depth(g, f, n) = Cardinality(S(n))
  <2>1. \A n \in N : Dom(g, g.entry, n)
    BY DomOrder
  <2>2. \A n \in N : Above(g, f, n, g.entry) = S(n)
    BY <1>0, <2>1, AboveFacts
  <2> QED BY <2>2 DEF Depth
<1>2. \A n \in N : S(n) \in SUBSET Nodes
  BY <1>0
<1>3. ASSUME NEW a \in N, NEW b \in N, Dom(g, a, b), a # b
      PROVE  S(a) \subseteq S(b) /\ S(a) # S(b)
  <2>1. S(a) \subseteq S(b)
    BY <1>3, DomOrder
  <2>2. b # g.entry
    BY <1>3, AboveEntry
  <2>3. b \in S(b)
    BY <2>2, AboveEntry, DomOrder
  <2>4. b \notin S(a)
    BY <1>3, DomAntisymmetric
  <2> QED BY <2>1, <2>3, <2>4
<1> HIDE DEF S
<1>4. \A n \in N : IsFiniteSet(S(n)) /\ Cardinality(S(n)) \in Nat /\ Cardinality(S(n)) <= Exit
  BY <1>2, SomeNodes
<1>5. ASSUME NEW a \in N, NEW b \in N, Dom(g, a, b), a # b PROVE Cardinality(S(a)) < Cardinality(S(b))
  <2>1. Cardinality(S(a)) <= Cardinality(S(b)) /\ Cardinality(S(a)) # Cardinality(S(b))
    BY <1>3, <1>4, <1>5, FS_Subset
  <2> QED BY <1>4, <2>1
<1> QED BY <1>1, <1>4, <1>5

(* The deepest of a set of nodes is one of them; if they dominate one node,*)
(* all of them dominate the deepest.                                       *)
LEMMA DeepestFacts ==
  ASSUME NEW N, NEW p, Numbered(p.g, N), IdomTree(p.g, N, p.idom),
         NEW S \in SUBSET N, S # {}
  PROVE  /\ Deepest(p, S) \in S
         /\ \A n \in N : (\A b \in S : Dom(p.g, b, n)) => \A c \in S : Dom(p.g, c, Deepest(p, S))
<1> DEFINE depth(b) == Depth(p.g, p.idom, b)
           above == {Exit - depth(b) : b \in S}
<1>1. /\ \A b \in N : depth(b) \in Nat /\ depth(b) <= Exit
      /\ \A a, b \in N : Dom(p.g, a, b) /\ a # b => depth(a) < depth(b)
  BY DepthFacts
<1> HIDE DEF depth
<1>2. Exit \in Nat
  BY NodesFinite
<1>3. above \in SUBSET Nat /\ above # {}
  BY <1>1, <1>2
<1>4. PICK x \in above : \A y \in above : x <= y
  BY <1>3, LeastNumber
<1>5. PICK b \in S : x = Exit - depth(b)
  OBVIOUS
<1>6. ASSUME NEW c \in S PROVE depth(c) <= depth(b)
  <2>1. Exit - depth(b) <= Exit - depth(c)
    BY <1>4, <1>5
  <2>2. depth(b) \in Nat /\ depth(c) \in Nat
    BY <1>1
  <2> QED BY <1>2, <2>1, <2>2
<1>7. Deepest(p, S) = CHOOSE d \in S : \A c \in S : depth(c) <= depth(d)
  BY DEF Deepest, depth
<1>8. Deepest(p, S) \in S /\ \A c \in S : depth(c) <= depth(Deepest(p, S))
  BY <1>6, <1>7
<1>9. ASSUME NEW n \in N, \A m \in S : Dom(p.g, m, n), NEW c \in S PROVE Dom(p.g, c, Deepest(p, S))
  <2> DEFINE d == Deepest(p, S)
  <2>1. d \in N /\ c \in N /\ depth(c) <= depth(d) /\ depth(c) \in Nat /\ depth(d) \in Nat
    BY <1>1, <1>8
  <2>2. Dom(p.g, d, n) /\ Dom(p.g, c, n)
    BY <1>8, <1>9
  <2> HIDE DEF d
  <2>3. Dom(p.g, c, d) \/ Dom(p.g, d, c)
    BY <2>1, <2>2, DomChain
  <2>4. Dom(p.g, d, c) => c = d
    BY <1>1, <2>1
  <2>5. Dom(p.g, c, d)
    BY <2>1, <2>3, <2>4
  <2> QED BY <2>5 DEF d
<1> QED BY <1>8, <1>9

(* Definitions that can be placed: the parameters they depend on are bound *)
(* wherever they are used.                                                 *)
Placeable(p, N) ==
  /\ Numbered(p.g, N) /\ IdomTree(p.g, N, p.idom) /\ p.g.entry = Entry /\ Ordered(p, N)
  /\ \A d, e \in Defs : d <= e =>
       \A b \in Range(p.operands[d]) \cap Blocks, u \in p.users[e] \cap Blocks : Dom(p.g, b, u)

(* Where an operand or user is: a block stands for itself.                 *)
At(u, place) == IF u \in Blocks THEN u ELSE place[u]

(* schedule_late: the nearest common dominator of the users.               *)
NearestOfUsers(p, N, d, v, late) ==
  /\ v \in N
  /\ \A u \in p.users[d] : Dom(p.g, v, At(u, late))
  /\ \A m \in N : (\A u \in p.users[d] : Dom(p.g, m, At(u, late))) => Dom(p.g, m, v)

LEMMA LateStep ==
  ASSUME NEW N, NEW p, Placeable(p, N), NEW d \in Defs, NEW late,
         \A u \in Defs : d < u => late[u] \in N
  PROVE  LET uses == SetToSeq(p.users[d])
         IN  NearestOfUsers(p, N, d, CommonAncestor(p.g, p.idom, [i \in DOMAIN uses |-> At(uses[i], late)]), late)
<1> DEFINE uses == SetToSeq(p.users[d])
           s == [i \in DOMAIN uses |-> At(uses[i], late)]
           v == CommonAncestor(p.g, p.idom, s)
<1>1. p.users[d] # {} /\ p.users[d] \subseteq (N \cap Blocks) \cup {u \in Defs : d < u}
  BY DEF Placeable, Ordered
<1>2. IsFiniteSet(p.users[d])
  BY <1>1, DefsFacts, FS_Subset
<1>3. uses \in Seq(p.users[d]) /\ Range(uses) = p.users[d]
  BY <1>2, SetToSeqFacts
<1>4. ASSUME NEW u \in p.users[d] PROVE At(u, late) \in N
  BY <1>1, <1>4, DefsFacts DEF At
<1> HIDE DEF uses
<1>5. s \in Seq(N) /\ Len(s) > 0 /\ Len(s) = Len(uses) /\ \A i \in 1 .. Len(s) : s[i] = At(uses[i], late)
  <2>1. DOMAIN uses = 1 .. Len(uses) /\ Len(uses) \in Nat /\ uses # << >>
    BY <1>1, <1>3 DEF Range
  <2>2. \A i \in 1 .. Len(uses) : uses[i] \in p.users[d]
    BY <1>3
  <2>3. s \in [1 .. Len(uses) -> N]
    BY <1>4, <2>1, <2>2
  <2> QED BY <1>3, <2>1, <2>3
<1> HIDE DEF s
<1>6. /\ v \in N /\ \A i \in 1 .. Len(s) : Dom(p.g, v, s[i])
      /\ \A m \in N : (\A i \in 1 .. Len(s) : Dom(p.g, m, s[i])) => Dom(p.g, m, v)
  BY <1>5, CommonFacts DEF Placeable, Ordered
<1> HIDE DEF v
<1>7. \A u \in p.users[d] : \E i \in 1 .. Len(s) : s[i] = At(u, late)
  BY <1>3, <1>5 DEF Range
<1>8. \A i \in 1 .. Len(s) : \E u \in p.users[d] : s[i] = At(u, late)
  BY <1>3, <1>5
<1>9. NearestOfUsers(p, N, d, v, late)
  BY <1>6, <1>7, <1>8 DEF NearestOfUsers
<1> QED BY <1>9 DEF v, s, uses

LEMMA LateFacts ==
  ASSUME NEW N, NEW p, Placeable(p, N)
  PROVE  \A d \in Defs : NearestOfUsers(p, N, d, Late(p, d), [u \in Defs |-> Late(p, u)])
<1> DEFINE uses(d) == SetToSeq(p.users[d])
           Body(h, d) == CommonAncestor(p.g, p.idom, [i \in DOMAIN uses(d) |-> At(uses(d)[i], h)])
           step == [a \in Defs \X [Defs -> N] |-> Body(a[2], a[1])]
           rank == [d \in Defs |-> (Exit + NumDefs) - d]
           Loop(h) == [d \in Defs |-> Body(h, d)]
           h == CHOOSE e : e = Loop(e)
<1>0. DOMAIN p.users = Defs /\ N # {}
  BY DEF Placeable, Ordered, Numbered
<1>1. rank \in [Defs -> Nat] /\ \A d, u \in Defs : d < u <=> rank[u] < rank[d]
  <2> DEFINE last == Exit + NumDefs
  <2>1. last \in Nat /\ \A d \in Defs : d \in Nat /\ d <= last
    BY DefsFacts
  <2>2. rank = [d \in Defs |-> last - d]
    OBVIOUS
  <2> HIDE DEF last, rank
  <2>3. \A d \in Defs : rank[d] = last - d
    BY <2>2
  <2>4. rank \in [Defs -> Nat]
    BY <2>1, <2>2
  <2> QED BY <2>1, <2>3, <2>4
<1> HIDE DEF rank
<1>2. ASSUME NEW d \in Defs, NEW e, \A u \in Defs : d < u => e[u] \in N
      PROVE  NearestOfUsers(p, N, d, Body(e, d), e)
  BY <1>2, LateStep
<1>3. ASSUME NEW d \in Defs, NEW b, NEW e, \A u \in Defs : d < u => b[u] = e[u]
      PROVE  Body(b, d) = Body(e, d)
  <2>1. p.users[d] \subseteq (N \cap Blocks) \cup {u \in Defs : d < u}
    BY DEF Placeable, Ordered
  <2>2. IsFiniteSet(p.users[d])
    BY <2>1, DefsFacts, FS_Subset
  <2>3. uses(d) \in Seq(p.users[d])
    BY <2>2, SetToSeqFacts
  <2> DEFINE s == uses(d)
  <2> HIDE DEF uses
  <2>4. \A i \in DOMAIN s : s[i] \in p.users[d]
    BY <2>3
  <2> HIDE DEF s
  <2>5. \A i \in DOMAIN s : At(s[i], b) = At(s[i], e)
    BY <1>3, <2>1, <2>4 DEF At
  <2>6. [i \in DOMAIN s |-> At(s[i], b)] = [i \in DOMAIN s |-> At(s[i], e)]
    BY <2>5
  <2>7. CommonAncestor(p.g, p.idom, [i \in DOMAIN s |-> At(s[i], b)])
          = CommonAncestor(p.g, p.idom, [i \in DOMAIN s |-> At(s[i], e)])
    BY <2>6
  <2> QED BY <2>7 DEF s
<1>4. \A d \in Defs, e \in [Defs -> N] : step[<<d, e>>] = Body(e, d)
  OBVIOUS
<1>5. \A d \in Defs : Late(p, d) = h[d]
  BY <1>0 DEF Late, At
<1> HIDE DEF Body, step
<1>6. PICK c \in [Defs -> N] : Recursive(c, Defs, step)
  <2> DEFINE D == Defs
  <2>1. rank \in [D -> Nat]
    BY <1>1
  <2>2. \A d \in D, e \in [D -> N] : step[<<d, e>>] \in N
    BY <1>2, <1>4 DEF NearestOfUsers
  <2>3. \A d \in D, b, e \in [D -> N] :
          (\A u \in D : rank[u] < rank[d] => b[u] = e[u]) => step[<<d, b>>] = step[<<d, e>>]
    BY <1>1, <1>3, <1>4
  <2> HIDE DEF D
  <2>4. \E c \in [D -> N] : Recursive(c, D, step)
    BY <1>0, <2>1, <2>2, <2>3, RecursionExists, Zenon
  <2> QED BY <2>4 DEF D
<1>7. c = Loop(c)
  BY <1>4, <1>6 DEF Recursive
<1>8. h = Loop(h)
  BY <1>7
<1> HIDE DEF h
<1>9. \A d \in Defs : h[d] = Body(h, d)
  BY <1>8
<1> DEFINE T == {d \in Defs : NearestOfUsers(p, N, d, h[d], h)}
<1>10. ASSUME NEW d \in Defs, \A u \in Defs : rank[u] < rank[d] => u \in T PROVE d \in T
  <2>1. \A u \in Defs : d < u => h[u] \in N
    BY <1>1, <1>10 DEF NearestOfUsers
  <2> QED BY <1>2, <1>9, <2>1
<1> HIDE DEF T
<1>11. Defs \subseteq T
  BY <1>1, <1>10, RankInduction
<1>12. ASSUME NEW d \in Defs PROVE NearestOfUsers(p, N, d, Late(p, d), [u \in Defs |-> Late(p, u)])
  <2> DEFINE late == [u \in Defs |-> Late(p, u)]
  <2>1. \A u \in p.users[d] : At(u, late) = At(u, h)
    BY <1>5, DefsFacts DEF Placeable, Ordered, At
  <2> HIDE DEF late
  <2>2. NearestOfUsers(p, N, d, h[d], h)
    BY <1>11 DEF T
  <2>3. NearestOfUsers(p, N, d, h[d], late)
    BY <2>1, <2>2 DEF NearestOfUsers
  <2> QED BY <1>5, <2>3 DEF late
<1> QED BY <1>12

(* A definition has no dependence if its operands are such.                *)
LEMMA NoDepFacts ==
  ASSUME NEW N, NEW p, Placeable(p, N)
  PROVE  \A d \in Defs : NoDep(p, d) <=> \A o \in Range(p.operands[d]) : o \notin Blocks /\ NoDep(p, o)
<1> DEFINE Body(h, d) == \A o \in Range(p.operands[d]) : o \notin Blocks /\ h[o]
           step == [a \in Defs \X [Defs -> BOOLEAN] |-> Body(a[2], a[1])]
           rank == [d \in Defs |-> d]
           Loop(h) == [d \in Defs |-> Body(h, d)]
           h == CHOOSE e : e = Loop(e)
<1>0. /\ DOMAIN p.operands = Defs
      /\ \A d \in Defs : Range(p.operands[d]) \subseteq Blocks \cup {o \in Defs : o < d}
  BY DEF Placeable, Ordered
<1>1. rank \in [Defs -> Nat] /\ \A d \in Defs : rank[d] = d
  BY DefsFacts
<1>2. ASSUME NEW d \in Defs, NEW b, NEW e, \A o \in Defs : o < d => b[o] = e[o]
      PROVE  Body(b, d) = Body(e, d)
  BY <1>0, <1>2
<1>3. \A d \in Defs, e \in [Defs -> BOOLEAN] : step[<<d, e>>] = Body(e, d) /\ Body(e, d) \in BOOLEAN
  OBVIOUS
<1>4. \A d : NoDep(p, d) = h[d]
  BY <1>0 DEF NoDep
<1> HIDE DEF Body, step, rank
<1>5. PICK c \in [Defs -> BOOLEAN] : Recursive(c, Defs, step)
  <2> DEFINE D == Defs
             V == BOOLEAN
  <2>1. rank \in [D -> Nat] /\ V # {}
    BY <1>1
  <2>2. \A d \in D, e \in [D -> V] : step[<<d, e>>] \in V
    BY <1>3
  <2>3. \A d \in D, b, e \in [D -> V] :
          (\A u \in D : rank[u] < rank[d] => b[u] = e[u]) => step[<<d, b>>] = step[<<d, e>>]
    BY <1>1, <1>2, <1>3
  <2> HIDE DEF D, V
  <2>4. \E c \in [D -> V] : Recursive(c, D, step)
    BY <2>1, <2>2, <2>3, RecursionExists, Zenon
  <2> QED BY <2>4 DEF D, V
<1>6. c = Loop(c)
  BY <1>3, <1>5 DEF Recursive
<1>7. h = Loop(h)
  BY <1>6
<1> HIDE DEF h
<1>8. \A d \in Defs : h[d] = Body(h, d)
  BY <1>7
<1>9. ASSUME NEW d \in Defs
      PROVE  NoDep(p, d) <=> \A o \in Range(p.operands[d]) : o \notin Blocks /\ NoDep(p, o)
  BY <1>4, <1>8 DEF Body
<1> QED BY <1>9

(* The entry, and the blocks whose parameters a definition depends on:     *)
(* they dominate every place where it or a later one is used.              *)
Needed(p, d) == {Entry} \cup {b \in Blocks : \E o \in Defs : o <= d /\ b \in Range(p.operands[o])}

LEMMA NeededFacts ==
  ASSUME NEW N, NEW p, Placeable(p, N), NEW d \in Defs
  PROVE  /\ Needed(p, d) \subseteq N /\ Entry \in N
         /\ \A e \in Defs : d <= e => \A b \in Needed(p, d) : Dom(p.g, b, Late(p, e))
<1> DEFINE rank == [e \in Defs |-> (Exit + NumDefs) - e]
           late == [u \in Defs |-> Late(p, u)]
           T == {e \in Defs : d <= e => \A b \in Needed(p, d) : Dom(p.g, b, Late(p, e))}
<1>1. rank \in [Defs -> Nat] /\ \A e, u \in Defs : e < u => rank[u] < rank[e]
  <2> DEFINE last == Exit + NumDefs
  <2>1. last \in Nat /\ \A e \in Defs : e \in Nat /\ e <= last
    BY DefsFacts
  <2>2. rank = [e \in Defs |-> last - e]
    OBVIOUS
  <2> HIDE DEF last, rank
  <2>3. \A e \in Defs : rank[e] = last - e
    BY <2>2
  <2>4. rank \in [Defs -> Nat]
    BY <2>1, <2>2
  <2> QED BY <2>1, <2>3, <2>4
<1> HIDE DEF rank
<1>2. Entry \in N /\ Needed(p, d) \subseteq N
  <2>1. Entry \in N
    BY DEF Placeable, Ordered, Numbered
  <2>2. \A o \in Defs : Range(p.operands[o]) \cap Blocks \subseteq N
    BY DefsFacts DEF Placeable, Ordered
  <2> QED BY <2>1, <2>2 DEF Needed
<1>3. ASSUME NEW e \in Defs, \A u \in Defs : rank[u] < rank[e] => u \in T PROVE e \in T
  <2> SUFFICES ASSUME d <= e, NEW b \in Needed(p, d) PROVE Dom(p.g, b, Late(p, e))
    OBVIOUS
  <2>1. NearestOfUsers(p, N, e, Late(p, e), late)
    BY LateFacts
  <2>2. ASSUME NEW u \in p.users[e] PROVE Dom(p.g, b, At(u, late))
    <3>1. u \in N \cap Blocks \/ (u \in Defs /\ e < u)
      BY DEF Placeable, Ordered
    <3>2. CASE u \in N \cap Blocks
      <4>1. b = Entry => Dom(p.g, b, u)
        BY <3>2, DomOrder DEF Placeable, Ordered
      <4>2. ASSUME NEW o \in Defs, o <= d, b \in Range(p.operands[o]), b \in Blocks PROVE Dom(p.g, b, u)
        <5>1. o <= e
          BY <4>2, DefsFacts
        <5> QED BY <3>2, <4>2, <5>1 DEF Placeable, Ordered
      <4> QED BY <3>2, <4>1, <4>2 DEF Needed, At
    <3>3. CASE u \in Defs /\ e < u
      <4>1. u \notin Blocks /\ d <= u /\ rank[u] < rank[e]
        BY <1>1, <3>3, DefsFacts
      <4>2. Dom(p.g, b, Late(p, u))
        BY <1>3, <3>3, <4>1
      <4> QED BY <3>3, <4>1, <4>2 DEF At
    <3> QED BY <3>1, <3>2, <3>3
  <2> HIDE DEF late
  <2> QED BY <1>2, <2>1, <2>2 DEF NearestOfUsers
<1> HIDE DEF T
<1>4. Defs \subseteq T
  BY <1>1, <1>3, RankInduction
<1> QED BY <1>2, <1>4 DEF T

(* schedule_early: one of the blocks needed, which those of the operands   *)
(* dominate.                                                               *)
Candidates(p, d, early) ==
  {Entry} \cup {At(o, early) : o \in {q \in Range(p.operands[d]) : q \in Blocks \/ ~NoDep(p, q)}}

LEMMA CandidatesFacts ==
  ASSUME NEW N, NEW p, Placeable(p, N), NEW d \in Defs, NEW early
  PROVE  /\ (\A o \in Defs : o < d => early[o] \in N) => Candidates(p, d, early) \in SUBSET N
         /\ (\A o \in Defs : o < d => early[o] \in Needed(p, o))
              => Candidates(p, d, early) \subseteq Needed(p, d)
<1>1. Range(p.operands[d]) \subseteq (N \cap Blocks) \cup {o \in Defs : o < d} /\ Entry \in N
  BY NeededFacts DEF Placeable, Ordered
<1>2. ASSUME \A o \in Defs : o < d => early[o] \in N PROVE Candidates(p, d, early) \in SUBSET N
  BY <1>1, <1>2, DefsFacts DEF Candidates, At
<1>3. ASSUME \A o \in Defs : o < d => early[o] \in Needed(p, o),
             NEW o \in Range(p.operands[d])
      PROVE  At(o, early) \in Needed(p, d)
  <2>1. CASE o \in Blocks
    <3>1. d <= d
      BY DefsFacts
    <3> QED BY <2>1, <3>1 DEF At, Needed
  <2>2. CASE o \notin Blocks
    <3>1. o \in Defs /\ o < d /\ early[o] \in Needed(p, o)
      BY <1>1, <1>3, <2>2
    <3>2. \A q \in Defs : q <= o => q <= d
      BY <3>1, DefsFacts
    <3> QED BY <2>2, <3>1, <3>2 DEF At, Needed
  <2> QED BY <2>1, <2>2
<1> QED BY <1>2, <1>3 DEF Candidates, Needed

LEMMA EarlyFacts ==
  ASSUME NEW N, NEW p, Placeable(p, N)
  PROVE  \A d \in Defs :
           /\ Early(p, d) \in Needed(p, d)
           /\ \A c \in Candidates(p, d, [o \in Defs |-> Early(p, o)]) : Dom(p.g, c, Early(p, d))
<1> DEFINE Body(h, d) == Deepest(p, Candidates(p, d, h))
           step == [a \in Defs \X [Defs -> N] |-> Body(a[2], a[1])]
           rank == [d \in Defs |-> d]
           Loop(h) == [d \in Defs |-> Body(h, d)]
           h == CHOOSE e : e = Loop(e)
<1>0. /\ DOMAIN p.operands = Defs /\ N # {}
      /\ \A d \in Defs : Range(p.operands[d]) \subseteq (N \cap Blocks) \cup {o \in Defs : o < d}
  BY DEF Placeable, Ordered, Numbered
<1>1. rank \in [Defs -> Nat] /\ \A d \in Defs : rank[d] = d
  BY DefsFacts
<1>2. ASSUME NEW d \in Defs, NEW b, NEW e, \A o \in Defs : o < d => b[o] = e[o]
      PROVE  Candidates(p, d, b) = Candidates(p, d, e)
  <2>1. \A o \in Range(p.operands[d]) : At(o, b) = At(o, e)
    BY <1>0, <1>2 DEF At
  <2> QED BY <2>1 DEF Candidates
<1>3. ASSUME NEW d \in Defs, NEW e \in [Defs -> N] PROVE Body(e, d) \in N
  <2> DEFINE S == Candidates(p, d, e)
  <2>1. S \in SUBSET N
    BY CandidatesFacts
  <2>2. S # {}
    BY DEF Candidates
  <2> HIDE DEF S
  <2>3. Deepest(p, S) \in S
    BY <2>1, <2>2, DeepestFacts DEF Placeable, Ordered
  <2> QED BY <2>1, <2>3 DEF S
<1>4. ASSUME NEW d \in Defs, NEW e, \A o \in Defs : o < d => e[o] \in Needed(p, o)
      PROVE  /\ Body(e, d) \in Needed(p, d)
             /\ \A c \in Candidates(p, d, e) : Dom(p.g, c, Body(e, d))
  <2> DEFINE S == Candidates(p, d, e)
  <2>1. S \subseteq Needed(p, d)
    BY <1>4, CandidatesFacts
  <2>2. S # {}
    BY DEF Candidates
  <2>3. Needed(p, d) \subseteq N /\ Late(p, d) \in N /\ \A b \in Needed(p, d) : Dom(p.g, b, Late(p, d))
    <3>1. d <= d
      BY DefsFacts
    <3>2. Late(p, d) \in N
      BY LateFacts DEF NearestOfUsers
    <3> QED BY <3>1, <3>2, NeededFacts
  <2> HIDE DEF S
  <2>4. S \in SUBSET N /\ \A b \in S : Dom(p.g, b, Late(p, d))
    BY <2>1, <2>3
  <2>5. Deepest(p, S) \in S /\ \A c \in S : Dom(p.g, c, Deepest(p, S))
    BY <2>2, <2>3, <2>4, DeepestFacts DEF Placeable, Ordered
  <2> QED BY <2>1, <2>5 DEF S
<1>5. \A d \in Defs, e \in [Defs -> N] : step[<<d, e>>] = Body(e, d)
  OBVIOUS
<1>6. \A d : Early(p, d) = h[d]
  BY <1>0 DEF Early, Candidates, At
<1>7. \A d \in Defs : \A b, e : Candidates(p, d, b) = Candidates(p, d, e) => Body(b, d) = Body(e, d)
  OBVIOUS
<1> HIDE DEF Body, step, rank
<1>8. PICK c \in [Defs -> N] : Recursive(c, Defs, step)
  <2> DEFINE D == Defs
  <2>1. rank \in [D -> Nat]
    BY <1>1
  <2>2. \A d \in D, e \in [D -> N] : step[<<d, e>>] \in N
    BY <1>3, <1>5
  <2>3. \A d \in D, b, e \in [D -> N] :
          (\A u \in D : rank[u] < rank[d] => b[u] = e[u]) => step[<<d, b>>] = step[<<d, e>>]
    BY <1>1, <1>2, <1>5, <1>7
  <2> HIDE DEF D
  <2>4. \E c \in [D -> N] : Recursive(c, D, step)
    BY <1>0, <2>1, <2>2, <2>3, RecursionExists, Zenon
  <2> QED BY <2>4 DEF D
<1>9. c = Loop(c)
  BY <1>5, <1>8 DEF Recursive
<1>10. h = Loop(h)
  BY <1>9
<1> HIDE DEF h
<1>11. \A d \in Defs : h[d] = Body(h, d)
  BY <1>10
<1> DEFINE T == {d \in Defs : h[d] \in Needed(p, d)}
<1>12. ASSUME NEW d \in Defs, \A o \in Defs : rank[o] < rank[d] => o \in T PROVE d \in T
  BY <1>1, <1>4, <1>11, <1>12
<1> HIDE DEF T
<1>13. Defs \subseteq T
  BY <1>1, <1>12, RankInduction
<1>14. ASSUME NEW d \in Defs
       PROVE  /\ Early(p, d) \in Needed(p, d)
              /\ \A m \in Candidates(p, d, [o \in Defs |-> Early(p, o)]) : Dom(p.g, m, Early(p, d))
  <2> DEFINE early == [o \in Defs |-> Early(p, o)]
  <2>1. \A o \in Defs : early[o] = h[o] /\ h[o] \in Needed(p, o)
    BY <1>6, <1>13 DEF T
  <2> HIDE DEF early
  <2>2. Candidates(p, d, early) = Candidates(p, d, h)
    BY <1>2, <2>1
  <2>3. /\ h[d] \in Needed(p, d)
        /\ \A m \in Candidates(p, d, h) : Dom(p.g, m, h[d])
    BY <1>4, <1>11, <2>1
  <2> QED BY <1>6, <2>2, <2>3 DEF early
<1> QED BY <1>14

(* schedule_smart: of the blocks between the two, the lowest of those in   *)
(* the fewest loops, as far as the loop tree tells.                        *)
Better(p, v, m) ==
  \/ p.leaves[v].depth < p.leaves[m].depth
  \/ p.leaves[v].depth = p.leaves[m].depth /\ Dom(p.g, m, v)

LEMMA HoistFacts ==
  ASSUME NEW N, NEW p, Numbered(p.g, N), IdomTree(p.g, N, p.idom),
         \A n \in N : p.leaves[n].depth \in Nat,
         NEW early \in N, NEW late \in N, Dom(p.g, early, late)
  PROVE  LET v == Hoist(p, late, early)
         IN  /\ v \in N /\ Dom(p.g, early, v) /\ Dom(p.g, v, late)
             /\ \A m \in N : Dom(p.g, early, m) /\ Dom(p.g, m, late) => Better(p, v, m)
<1> DEFINE g == p.g
           f == p.idom
           depth(n) == p.leaves[n].depth
           D == N \X N
           ends(a) == a[1] \in {early, g.entry}
           last(a) == IF a[1] = early THEN a[2] ELSE late
           up(a) == f[a[1]]
           next(a) == <<up(a), IF depth(up(a)) < depth(a[2]) THEN up(a) ELSE a[2]>>
           rank == [a \in D |-> g.index[a[1]]]
           step == [a \in D \X [D -> N] |-> IF ends(a[1]) THEN last(a[1]) ELSE a[2][next(a[1])]]
           Loop(h) == [a \in D |-> IF ends(a) THEN last(a) ELSE h[next(a)]]
           h == CHOOSE e : e = Loop(e)
           Pre(a) == Dom(g, early, a[1]) /\ Dom(g, a[1], a[2]) /\ depth(a[2]) <= depth(a[1])
           Post(a, v) == /\ v \in N /\ Dom(g, early, v) /\ Dom(g, v, a[2])
                         /\ v = a[2] \/ depth(v) < depth(a[2])
                         /\ \A m \in N : Dom(g, early, m) /\ Dom(g, m, a[1]) => Better(p, v, m)
<1>0. N # {} /\ Range(g.rpo) = N
  BY DEF Numbered
<1>1. g.index \in [N -> Nat] /\ Numbered(g, N) /\ IdomTree(g, N, f)
  BY IndexFacts
<1>2. \A n \in N : depth(n) \in Nat
  OBVIOUS
<1>3. \A v, m : Better(p, v, m) <=> depth(v) < depth(m) \/ (depth(v) = depth(m) /\ Dom(g, m, v))
  BY DEF Better
<1>4. Hoist(p, late, early) = h[<<late, late>>]
  BY <1>0 DEF Hoist
<1> HIDE DEF g, f, depth
<1>5. rank \in [D -> Nat] /\ \A a \in D : rank[a] = g.index[a[1]]
  BY <1>1
<1>6. ASSUME NEW a \in D, ~ends(a) PROVE next(a) \in D /\ rank[next(a)] < rank[a]
  <2>1. a[1] \in N \ {g.entry} /\ a[2] \in N
    BY <1>6
  <2>2. f[a[1]] \in N /\ g.index[f[a[1]]] < g.index[a[1]]
    BY <1>1, <2>1, DomTree
  <2>3. next(a) \in D /\ next(a)[1] = f[a[1]]
    BY <2>1, <2>2
  <2> HIDE DEF rank, next
  <2> QED BY <1>5, <2>2, <2>3
<1>7. \A a \in D, e \in [D -> N] : step[<<a, e>>] = IF ends(a) THEN last(a) ELSE e[next(a)]
  OBVIOUS
<1> HIDE DEF rank, step, next
<1>8. PICK c \in [D -> N] : Recursive(c, D, step)
  <2>1. rank \in [D -> Nat]
    BY <1>5
  <2>2. \A a \in D, e \in [D -> N] : step[<<a, e>>] \in N
    BY <1>6, <1>7
  <2>3. \A a \in D, b, e \in [D -> N] :
          (\A u \in D : rank[u] < rank[a] => b[u] = e[u]) => step[<<a, b>>] = step[<<a, e>>]
    BY <1>6, <1>7
  <2>4. N # {}
    BY <1>0
  <2> HIDE DEF D
  <2> QED BY <2>1, <2>2, <2>3, <2>4, RecursionExists, Zenon
<1>9. c = Loop(c)
  <2>1. \A a \in D : c[a] = IF ends(a) THEN last(a) ELSE c[next(a)]
    BY <1>7, <1>8 DEF Recursive
  <2> HIDE DEF ends, last
  <2> QED BY <2>1
<1>10. h = Loop(h)
  BY <1>9
<1> HIDE DEF h
<1>11. \A a \in D : h[a] = IF ends(a) THEN last(a) ELSE h[next(a)]
  BY <1>10
<1> DEFINE T == {a \in D : Pre(a) => Post(a, h[a])}
<1>12. ASSUME NEW a \in D, \A b \in D : rank[b] < rank[a] => b \in T PROVE a \in T
  <2> SUFFICES ASSUME Pre(a) PROVE Post(a, h[a])
    OBVIOUS
  <2> DEFINE n == a[1]
             b == a[2]
  <2>0. n \in N /\ b \in N /\ Dom(g, early, n) /\ Dom(g, n, b) /\ depth(b) <= depth(n)
        /\ depth(b) \in Nat /\ depth(n) \in Nat
    BY <1>2
  <2>1. CASE n = early
    <3>1. h[a] = b
      BY <1>11, <2>1
    <3>2. \A m \in N : Dom(g, early, m) /\ Dom(g, m, n) => m = n
      BY <1>1, <2>0, <2>1, DomAntisymmetric
    <3>3. Better(p, b, n)
      BY <1>3, <2>0
    <3>4. Dom(g, b, b)
      BY <1>1, <2>0, DomOrder
    <3>5. Post(a, b)
      BY <2>0, <2>1, <3>2, <3>3, <3>4
    <3> QED BY <3>1, <3>5
  <2>2. CASE n # early
    <3> DEFINE u == f[n]
               d == IF depth(u) < depth(b) THEN u ELSE b
               v == h[a]
    <3>1. n # g.entry
      BY <1>1, <2>0, <2>2, AboveEntry
    <3>2. /\ u \in N
          /\ \A m \in N : Dom(g, m, n) <=> m = n \/ Dom(g, m, u)
      BY <1>1, <2>0, <3>1, DomTree
    <3>3. next(a) = <<u, d>>
      BY DEF next
    <3>4. next(a) \in D /\ rank[next(a)] < rank[a] /\ v = h[<<u, d>>]
      BY <1>6, <1>11, <2>2, <3>1, <3>3
    <3> HIDE DEF v
    <3>5. Dom(g, early, u) /\ Dom(g, u, u) /\ Dom(g, u, b) /\ Dom(g, b, b)
      BY <1>1, <2>0, <2>2, <3>2, DomOrder
    <3> HIDE DEF u
    <3>6. d \in N /\ depth(u) \in Nat /\ Dom(g, u, d) /\ Dom(g, d, b) /\ depth(d) <= depth(u)
          /\ (d = b \/ depth(d) < depth(b))
      BY <1>2, <2>0, <3>2, <3>5
    <3> HIDE DEF d
    <3>7. Post(<<u, d>>, v)
      <4>1. <<u, d>> \in T
        BY <1>12, <3>3, <3>4
      <4>2. Pre(<<u, d>>)
        BY <3>5, <3>6
      <4>3. Post(<<u, d>>, h[<<u, d>>])
        <5> HIDE DEF Pre, Post
        <5> QED BY <4>1, <4>2
      <4> HIDE DEF Post
      <4> QED BY <3>4, <4>3
    <3>8. /\ v \in N /\ Dom(g, early, v) /\ Dom(g, v, d)
          /\ v = d \/ depth(v) < depth(d)
          /\ \A m \in N : Dom(g, early, m) /\ Dom(g, m, u) => Better(p, v, m)
      BY <3>7
    <3>9. Dom(g, v, b)
      <4>1. Dom(g, v, d) /\ Dom(g, d, b) /\ v \in N /\ d \in N /\ b \in N
        BY <2>0, <3>6, <3>8
      <4> QED BY <1>1, <4>1, DomOrder
    <3>10. v = b \/ depth(v) < depth(b)
      <4>1. depth(v) \in Nat /\ depth(d) \in Nat
        BY <1>2, <3>6, <3>8
      <4>2. (v = d \/ depth(v) < depth(d)) /\ (d = b \/ depth(d) < depth(b)) /\ depth(b) \in Nat
        BY <2>0, <3>6, <3>8
      <4> HIDE DEF b
      <4> QED BY <4>1, <4>2
    <3>11. Better(p, v, n)
      <4>1. depth(v) \in Nat
        BY <1>2, <3>8
      <4> QED BY <1>3, <2>0, <3>10, <4>1
    <3>12. \A m \in N : Dom(g, early, m) /\ Dom(g, m, n) => Better(p, v, m)
      BY <3>2, <3>8, <3>11
    <3>13. Post(a, v)
      BY <3>8, <3>9, <3>10, <3>12
    <3> QED BY <3>13 DEF v
  <2> QED BY <2>1, <2>2
<1> HIDE DEF T
<1>13. D \subseteq T
  <2>1. rank \in [D -> Nat]
    BY <1>5
  <2> HIDE DEF D
  <2> QED BY <1>12, <2>1, RankInduction
<1>14. Post(<<late, late>>, h[<<late, late>>])
  <2>1. <<late, late>> \in T
    BY <1>13
  <2>2. depth(late) \in Nat /\ Dom(g, late, late) /\ Dom(g, early, late)
    BY <1>1, <1>2, DomOrder DEF g
  <2>3. Pre(<<late, late>>)
    BY <2>2
  <2> QED BY <2>1, <2>3 DEF T
<1> QED BY <1>4, <1>14 DEF g

(* A place is between early and late, and the best there.                  *)
LEMMA SmartFacts ==
  ASSUME NEW N, NEW p, Placeable(p, N), \A n \in N : p.leaves[n].depth \in Nat, NEW d \in Defs
  PROVE  /\ Early(p, d) \in N /\ Late(p, d) \in N /\ Smart(p, d) \in N
         /\ Dom(p.g, Early(p, d), Smart(p, d)) /\ Dom(p.g, Smart(p, d), Late(p, d))
         /\ \A m \in N : Dom(p.g, Early(p, d), m) /\ Dom(p.g, m, Late(p, d)) => Better(p, Smart(p, d), m)
<1>1. Late(p, d) \in N
  BY LateFacts DEF NearestOfUsers
<1>2. d <= d
  BY DefsFacts
<1>3. Early(p, d) \in Needed(p, d)
  BY EarlyFacts
<1>4. Early(p, d) \in N /\ Dom(p.g, Early(p, d), Late(p, d))
  BY <1>2, <1>3, NeededFacts
<1>5. Numbered(p.g, N) /\ IdomTree(p.g, N, p.idom)
  BY DEF Placeable, Ordered
<1> DEFINE v == Hoist(p, Late(p, d), Early(p, d))
<1>6. /\ v \in N /\ Dom(p.g, Early(p, d), v) /\ Dom(p.g, v, Late(p, d))
      /\ \A m \in N : Dom(p.g, Early(p, d), m) /\ Dom(p.g, m, Late(p, d)) => Better(p, v, m)
  BY <1>1, <1>4, <1>5, HoistFacts
<1>7. Smart(p, d) = v
  BY DEF Smart
<1> HIDE DEF v
<1> QED BY <1>1, <1>4, <1>6, <1>7

(* Whatever depths the loop tree gives the nodes, a definition is placed   *)
(* after its operands, and before its uses.                                *)
LEMMA PlaceFacts ==
  ASSUME NEW N, NEW p, Placeable(p, N), \A n \in N : p.leaves[n].depth \in Nat, NEW d \in Defs
  PROVE  /\ Place(p, d) \in N
         /\ \A o \in Range(p.operands[d]) :
              (IF o \in Blocks THEN o ELSE Place(p, o)) \in N
              /\ Dom(p.g, IF o \in Blocks THEN o ELSE Place(p, o), Place(p, d))
         /\ \A u \in p.users[d] \cap Blocks : u \in N /\ Dom(p.g, Place(p, d), u)
<1> DEFINE early == [o \in Defs |-> Early(p, o)]
           late == [u \in Defs |-> Late(p, u)]
<1>0. Numbered(p.g, N) /\ p.g.entry = Entry /\ Entry \in N
  BY NeededFacts DEF Placeable, Ordered
<1>1. \A n \in N : Dom(p.g, Entry, n) /\ Dom(p.g, n, n)
  BY <1>0, DomOrder
<1>2. \A a, b, c \in N : Dom(p.g, a, b) /\ Dom(p.g, b, c) => Dom(p.g, a, c)
  BY <1>0, DomOrder
<1>3. \A e \in Defs :
         /\ Early(p, e) \in N /\ Late(p, e) \in N /\ Smart(p, e) \in N
         /\ Dom(p.g, Early(p, e), Smart(p, e)) /\ Dom(p.g, Smart(p, e), Late(p, e))
         /\ \A m \in N : Dom(p.g, Early(p, e), m) /\ Dom(p.g, m, Late(p, e)) => Better(p, Smart(p, e), m)
  BY SmartFacts
<1>4. \A e \in Defs : Place(p, e) = IF NoDep(p, e) THEN Entry ELSE Smart(p, e)
  BY DEF Place
<1>5. \A e \in Defs : Place(p, e) \in N
  BY <1>0, <1>3, <1>4
<1>6. \A o \in Range(p.operands[d]) : o \in N \cap Blocks \/ (o \in Defs /\ o \notin Blocks /\ d \in p.users[o])
  BY DefsFacts DEF Placeable, Ordered
<1>7. \A u \in p.users[d] \cap Blocks : u \in N /\ Dom(p.g, Late(p, d), u)
  <2>1. NearestOfUsers(p, N, d, Late(p, d), late)
    BY LateFacts
  <2>2. p.users[d] \subseteq (N \cap Blocks) \cup Defs
    BY DEF Placeable, Ordered
  <2> HIDE DEF late
  <2> QED BY <2>1, <2>2, DefsFacts DEF NearestOfUsers, At
<1>8. ASSUME NEW u \in p.users[d] \cap Blocks PROVE Dom(p.g, Place(p, d), u)
  <2>1. u \in N /\ Dom(p.g, Smart(p, d), u)
    BY <1>2, <1>3, <1>7
  <2> QED BY <1>1, <1>4, <2>1
<1>9. ASSUME NEW o \in Range(p.operands[d]), o \in Blocks PROVE Dom(p.g, o, Place(p, d))
  <2>1. ~NoDep(p, d)
    BY <1>9, NoDepFacts
  <2>2. At(o, early) \in Candidates(p, d, early) /\ At(o, early) = o /\ o \in N
    BY <1>6, <1>9, DefsFacts DEF Candidates, At
  <2>3. Dom(p.g, o, Early(p, d))
    BY <2>2, EarlyFacts
  <2>4. Dom(p.g, o, Smart(p, d))
    BY <1>2, <1>3, <2>2, <2>3
  <2> QED BY <1>4, <2>1, <2>4
<1>10. ASSUME NEW o \in Range(p.operands[d]), o \notin Blocks PROVE Dom(p.g, Place(p, o), Place(p, d))
  <2>0. o \in Defs /\ d \in p.users[o]
    BY <1>6, <1>10
  <2>1. CASE NoDep(p, o)
    BY <1>1, <1>4, <1>5, <2>0, <2>1
  <2>2. CASE ~NoDep(p, o)
    <3> DEFINE x == Smart(p, o)
               y == Smart(p, d)
    <3>1. ~NoDep(p, d)
      BY <1>10, <2>2, NoDepFacts
    <3>2. Dom(p.g, Early(p, o), Early(p, d))
      <4>1. At(o, early) \in Candidates(p, d, early) /\ At(o, early) = Early(p, o)
        BY <1>10, <2>0, <2>2 DEF Candidates, At
      <4> QED BY <4>1, EarlyFacts
    <3>3. Dom(p.g, Late(p, o), Late(p, d))
      <4>1. NearestOfUsers(p, N, o, Late(p, o), late)
        BY <2>0, LateFacts
      <4>2. At(d, late) = Late(p, d)
        BY DefsFacts DEF At
      <4> HIDE DEF late
      <4> QED BY <2>0, <4>1, <4>2 DEF NearestOfUsers
    <3>4. /\ x \in N /\ Dom(p.g, Early(p, o), x) /\ Dom(p.g, x, Late(p, o))
          /\ \A m \in N : Dom(p.g, Early(p, o), m) /\ Dom(p.g, m, Late(p, o)) => Better(p, x, m)
      BY <1>3, <2>0
    <3>5. /\ y \in N /\ Dom(p.g, Early(p, d), y) /\ Dom(p.g, y, Late(p, d))
          /\ \A m \in N : Dom(p.g, Early(p, d), m) /\ Dom(p.g, m, Late(p, d)) => Better(p, y, m)
      BY <1>3
    <3>6. Early(p, o) \in N /\ Late(p, o) \in N /\ Early(p, d) \in N /\ Late(p, d) \in N
      BY <1>3, <2>0
    <3> HIDE DEF x, y
    <3>7. Dom(p.g, x, Late(p, d))
      BY <1>2, <3>3, <3>4, <3>6
    <3>8. Dom(p.g, x, y) \/ Dom(p.g, y, x)
      BY <3>4, <3>5, <3>6, <3>7, DomChain DEF Placeable, Ordered
    <3>9. ASSUME Dom(p.g, y, x) PROVE Dom(p.g, x, y)
      <4>1. Dom(p.g, Early(p, o), y) /\ Dom(p.g, y, Late(p, o))
        BY <1>2, <3>2, <3>4, <3>5, <3>6, <3>9
      <4>2. Dom(p.g, Early(p, d), x)
        BY <1>2, <3>4, <3>5, <3>6, <3>9
      <4>3. Better(p, x, y) /\ Better(p, y, x)
        BY <3>4, <3>5, <3>7, <4>1, <4>2
      <4>4. p.leaves[x].depth \in Nat /\ p.leaves[y].depth \in Nat
        BY <3>4, <3>5
      <4> QED BY <4>3, <4>4 DEF Better
    <3> QED BY <1>4, <2>0, <2>2, <3>1, <3>8, <3>9 DEF x, y
  <2> QED BY <2>1, <2>2
<1> QED BY <1>5, <1>6, <1>7, <1>8, <1>9, <1>10

(* What Schedule has placed can be placed.                                 *)
LEMMA ScheduledFacts ==
  ASSUME AInv, placed # None
  PROVE  /\ Placeable(P, DOMAIN cfa) /\ leaves # None
         /\ \A d, n \in DOMAIN cfa : Dominates(d, n) <=> Dom(cfg, d, n)
<1> DEFINE N == DOMAIN cfa
<1>1. /\ leaves # None /\ idom # None /\ cfa # None /\ forward /\ cfg = CFG(cfa, forward)
      /\ Ordered(placed, N) /\ Bound(placed.operands, placed.users)
  BY DEF AInv
<1>2. cfg # None /\ Numbered(cfg, N) /\ IdomTree(cfg, N, idom)
  BY <1>1, IdomIsTree
<1> HIDE DEF N
<1>3. cfg.entry = Entry
  BY <1>1 DEF CFG
<1>4. \A d, n \in N : Dominates(d, n) <=> Dom(cfg, d, n)
  BY <1>2, DominatesIsDom
<1>5. P.g = cfg /\ P.idom = idom /\ P.operands = placed.operands /\ P.users = placed.users
  BY DEF P
<1>6. Ordered(P, N)
  BY <1>1, <1>5 DEF Ordered
<1>7. ASSUME NEW d \in Defs, NEW e \in Defs, d <= e,
             NEW b \in Range(placed.operands[d]) \cap Blocks, NEW u \in placed.users[e] \cap Blocks
      PROVE  Dom(cfg, b, u)
  <2>1. d \in Exit + 1 .. e
    BY <1>7, NodesFinite, NumDefsAssumption DEF Defs
  <2>2. Dominates(b, u)
    BY <1>1, <2>1 DEF Bound
  <2>3. b \in N /\ u \in N
    BY <1>1, DefsFacts DEF Ordered
  <2> QED BY <1>4, <2>2, <2>3
<1>8. Placeable(P, N)
  BY <1>2, <1>3, <1>5, <1>6, <1>7 DEF Placeable
<1> QED BY <1>1, <1>4, <1>8 DEF N

(* Every node is a leaf of the loop tree by itself, below as many heads as *)
(* there are loops around it: walk_scc finds the components, and marking   *)
(* their heads nests them as the loops are nested.                         *)
THEOREM LoopTreeCorrect == Spec => []LoopsNested
<1>1. ASSUME AInv, leaves # None PROVE LoopsNested
  <2> DEFINE N == DOMAIN cfa
             g == cfg
             F == [n \in N |-> Deep(N, g, n)]
  <2>1. cfa # None /\ cfg = CFG(cfa, forward) /\ leaves = LoopTree(g) /\ idom # None
    BY <1>1 DEF AInv
  <2>2. Numbered(g, N)
    BY <1>1, <2>1, IdomIsTree
  <2>3. \A n : Nesting(n) = Deep(N, g, n)[g.succs]
    BY DEF Nesting, Deep, Deeper, Around, Inner, Entered
  <2>4. \A n \in N : Deep(N, g, n) \in [[N -> SUBSET N] -> Nat] /\ g.succs \in [N -> SUBSET N]
    BY <2>2, DeepFacts DEF Numbered
  <2> HIDE DEF N, g
  <2>5. Nests(N, g, F)
    BY <2>2, NestsExists
  <2>6. leaves = [n \in N |-> Leaf(g, F, n)]
    BY <2>1, <2>2, <2>5, LoopTreeFacts
  <2>7. \A n \in N : F[n] = Deep(N, g, n)
    OBVIOUS
  <2> HIDE DEF F
  <2>8. \A n \in N : leaves[n].cf_nodes = {n} /\ leaves[n].depth = Deep(N, g, n)[g.succs]
    BY <2>6, <2>7 DEF Leaf
  <2>9. \A n \in N : Deep(N, g, n)[g.succs] \in Nat
    BY <2>4
  <2>10. DOMAIN leaves = N
    BY <2>6
  <2> QED BY <2>3, <2>8, <2>9, <2>10 DEF LoopsNested, N
<1>2. AInv => LoopsNested
  BY <1>1 DEF LoopsNested
<1> QED BY <1>2, AnalysesConsistent, PTL

(* The scheduler places a definition where its operands are known, and     *)
(* before all that use it.                                                 *)
THEOREM PlacementSafe == Spec => []PlacedSafely
<1>1. ASSUME AInv, LoopsNested, placed # None, NEW def \in Defs
      PROVE  /\ \A op \in Range(placed.operands[def]) :
                  Dominates(IF op \in Blocks THEN op ELSE Place(P, op), Place(P, def))
             /\ \A use \in placed.users[def] \cap Blocks : Dominates(Place(P, def), use)
  <2> DEFINE N == DOMAIN cfa
  <2>1. /\ Placeable(P, N) /\ leaves # None
        /\ \A d, n \in N : Dominates(d, n) <=> Dom(cfg, d, n)
    BY <1>1, ScheduledFacts
  <2>2. \A n \in N : P.leaves[n].depth \in Nat
    BY <1>1, <2>1 DEF LoopsNested, P
  <2> HIDE DEF N
  <2>3. P.g = cfg /\ P.operands = placed.operands /\ P.users = placed.users
    BY DEF P
  <2> HIDE DEF P
  <2>4. /\ Place(P, def) \in N
        /\ \A o \in Range(P.operands[def]) :
             (IF o \in Blocks THEN o ELSE Place(P, o)) \in N
             /\ Dom(P.g, IF o \in Blocks THEN o ELSE Place(P, o), Place(P, def))
        /\ \A u \in P.users[def] \cap Blocks : u \in N /\ Dom(P.g, Place(P, def), u)
    BY <2>1, <2>2, PlaceFacts
  <2> QED BY <2>1, <2>3, <2>4
<1>2. AInv /\ LoopsNested => PlacedSafely
  BY <1>1 DEF PlacedSafely
<1> QED BY <1>2, AnalysesConsistent, LoopTreeCorrect, PTL

(* No block where a definition could be placed as well is in fewer loops   *)
(* than the one that smart scheduling chooses.                             *)
THEOREM HoistingComplete == Spec => []HoistedFromLoops
<1>1. ASSUME AInv, LoopsNested, placed # None, NEW def \in Defs, ~NoDep(P, def),
             NEW block \in DOMAIN cfa \ {Exit},
             Dominates(Early(P, def), block), Dominates(block, Late(P, def))
      PROVE  Nesting(Place(P, def)) <= Nesting(block)
  <2> DEFINE N == DOMAIN cfa
             place == Smart(P, def)
             early == Early(P, def)
             late == Late(P, def)
  <2>1. /\ Placeable(P, N) /\ leaves # None
        /\ \A d, n \in N : Dominates(d, n) <=> Dom(cfg, d, n)
    BY <1>1, ScheduledFacts
  <2>2. \A n \in N : leaves[n].depth \in Nat /\ leaves[n].depth = Nesting(n)
    BY <1>1, <2>1 DEF LoopsNested
  <2>3. block \in N
    OBVIOUS
  <2> HIDE DEF N
  <2>4. P.leaves = leaves /\ P.g = cfg
    BY DEF P
  <2>5. Place(P, def) = place
    BY <1>1 DEF Place
  <2> HIDE DEF P
  <2>6. /\ early \in N /\ late \in N /\ place \in N
        /\ \A m \in N : Dom(P.g, early, m) /\ Dom(P.g, m, late) => Better(P, place, m)
    BY <2>1, <2>2, <2>4, SmartFacts
  <2>7. Dominates(early, block) /\ Dominates(block, late)
    BY <1>1
  <2> HIDE DEF place, early, late
  <2>8. Better(P, place, block)
    BY <2>1, <2>3, <2>4, <2>6, <2>7
  <2>9. leaves[place].depth < leaves[block].depth \/ leaves[place].depth = leaves[block].depth
    BY <2>4, <2>8 DEF Better
  <2>10. leaves[place].depth \in Nat /\ leaves[block].depth \in Nat
         /\ leaves[place].depth = Nesting(place) /\ leaves[block].depth = Nesting(block)
    BY <2>2, <2>3, <2>6
  <2>11. leaves[place].depth <= leaves[block].depth
    BY <2>9, <2>10
  <2> QED BY <2>5, <2>10, <2>11
<1>2. AInv /\ LoopsNested => HoistedFromLoops
  BY <1>1 DEF HoistedFromLoops
<1> QED BY <1>2, AnalysesConsistent, LoopTreeCorrect, PTL

=============================================================================
