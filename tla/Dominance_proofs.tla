-------------------------- MODULE Dominance_proofs ---------------------------
(***************************************************************************)
(* Control flow graphs and dominance, for any number of continuations and  *)
(* any jumps: what link_to_exit, the numbering, the fix point of           *)
(* DomTreeBase::create and the dominance frontier compute.                 *)
(***************************************************************************)
EXTENDS Dominance, FiniteSetTheorems, SequenceTheorems, NaturalsInduction, WellFoundedInduction, TLAPS

-----------------------------------------------------------------------------
(* Numbers and recursion.                                                  *)

(* A non-empty set of naturals has a least element.                        *)
LEMMA LeastNumber ==
  ASSUME NEW S \in SUBSET Nat, S # {}
  PROVE  \E x \in S : \A y \in S : x <= y
<1> DEFINE R == OpToRel(<, Nat)
<1>1. IsWellFoundedOn(R, Nat)
  BY NatLessThanWellFounded DEF OpToRel
<1> HIDE DEF R
<1>2. PICK x \in S : \A y \in S : <<y, x>> \notin R
  BY <1>1, WFMin
<1>3. ASSUME NEW y \in S PROVE x <= y
  <2>1. <<y, x>> \notin R
    BY <1>2
  <2>2. y < x => <<y, x>> \in R
    BY DEF R, OpToRel
  <2> QED BY <2>1, <2>2
<1> QED BY <1>3

(* Induction over the set of the numbers that a fact holds of.             *)
LEMMA NumberInduction ==
  ASSUME NEW S, 0 \in S, \A n \in Nat : n \in S => n + 1 \in S
  PROVE  Nat \subseteq S
<1> SUFFICES ASSUME Nat \ S # {} PROVE FALSE
  OBVIOUS
<1>1. PICK x \in Nat \ S : \A y \in Nat \ S : x <= y
  BY LeastNumber
<1>2. x # 0 /\ x - 1 \in Nat
  BY <1>1
<1>3. x - 1 \in S
  BY <1>1, <1>2
<1> QED BY <1>1, <1>2, <1>3

(* What holds of all elements of D whose lower ones it holds of, holds.    *)
LEMMA RankInduction ==
  ASSUME NEW D, NEW rank \in [D -> Nat], NEW S,
         \A d \in D : (\A e \in D : rank[e] < rank[d] => e \in S) => d \in S
  PROVE  D \subseteq S
<1> SUFFICES ASSUME NEW d \in D, d \notin S PROVE FALSE
  OBVIOUS
<1> DEFINE T == {n \in Nat : \E e \in D \ S : rank[e] = n}
<1>1. T \in SUBSET Nat /\ rank[d] \in T
  OBVIOUS
<1> HIDE DEF T
<1>2. PICK n \in T : \A m \in T : n <= m
  BY <1>1, LeastNumber
<1>3. PICK e \in D \ S : rank[e] = n
  BY <1>2 DEF T
<1>4. \A c \in D : rank[c] < rank[e] => c \in S
  <2> SUFFICES ASSUME NEW c \in D, rank[c] < rank[e], c \notin S PROVE FALSE
    OBVIOUS
  <2>1. rank[c] \in T /\ rank[c] \in Nat /\ rank[e] \in Nat
    BY DEF T
  <2> QED BY <2>1, <1>2, <1>3
<1> QED BY <1>3, <1>4

(* A function is recursive if a step gives its value at d from f; numbered *)
(* values, if it gives the next one.                                       *)
Recursive(f, D, step)   == \A d \in D : f[d] = step[<<d, f>>]
Counted(f, start, step) == f[0] = start /\ \A k \in Nat : f[k + 1] = step[<<k, f[k]>>]

(* A function that is recursive on elements of lower rank exists: step[d, f]*)
(* is its value at d, if f are its values at these.                        *)
LEMMA RecursionExists ==
  ASSUME NEW D, NEW rank \in [D -> Nat], NEW V, V # {}, NEW step,
         \A d \in D, f \in [D -> V] : step[<<d, f>>] \in V,
         \A d \in D, f, g \in [D -> V] :
           (\A e \in D : rank[e] < rank[d] => f[e] = g[e]) => step[<<d, f>>] = step[<<d, g>>]
  PROVE  \E f \in [D -> V] : Recursive(f, D, step)
<1> DEFINE Upto(n, f) == \A d \in D : rank[d] < n => f[d] = step[<<d, f>>]
           S == {n \in Nat : \E f \in [D -> V] : Upto(n, f)}
<1>1. 0 \in S
  <2>1. PICK v \in V : TRUE
    OBVIOUS
  <2>2. [d \in D |-> v] \in [D -> V] /\ Upto(0, [d \in D |-> v])
    BY <2>1
  <2> QED BY <2>2
<1>2. ASSUME NEW n \in Nat, n \in S PROVE n + 1 \in S
  <2>1. PICK f \in [D -> V] : Upto(n, f)
    BY <1>2
  <2> DEFINE g == [d \in D |-> step[<<d, f>>]]
  <2>2. g \in [D -> V] /\ \A d \in D : g[d] = step[<<d, f>>]
    OBVIOUS
  <2> HIDE DEF g
  <2>3. ASSUME NEW d \in D, rank[d] < n + 1 PROVE g[d] = step[<<d, g>>]
    <3>1. ASSUME NEW e \in D, rank[e] < rank[d] PROVE f[e] = g[e]
      <4>1. rank[e] \in Nat /\ rank[d] \in Nat
        OBVIOUS
      <4>2. rank[e] < n
        BY <2>3, <3>1, <4>1
      <4> QED BY <2>1, <2>2, <4>2
    <3> QED BY <2>2, <3>1
  <2> QED BY <2>2, <2>3
<1>3. Nat \subseteq S
  <2> HIDE DEF S
  <2> QED BY <1>1, <1>2, NumberInduction
<1>4. ASSUME NEW f \in [D -> V], NEW g \in [D -> V], NEW m \in Nat, NEW n \in Nat, m <= n,
             Upto(m, f), Upto(n, g)
      PROVE  \A d \in D : rank[d] < m => f[d] = g[d]
  <2> DEFINE A == {d \in D : rank[d] < m => f[d] = g[d]}
  <2>1. ASSUME NEW d \in D, \A e \in D : rank[e] < rank[d] => e \in A PROVE d \in A
    <3> SUFFICES ASSUME rank[d] < m PROVE f[d] = g[d]
      OBVIOUS
    <3>1. \A e \in D : rank[e] < rank[d] => f[e] = g[e]
      BY <2>1
    <3>2. f[d] = step[<<d, f>>] /\ g[d] = step[<<d, g>>]
      BY <1>4
    <3> QED BY <3>1, <3>2
  <2> HIDE DEF A
  <2>2. D \subseteq A
    BY <2>1, RankInduction
  <2> QED BY <2>2 DEF A
<1> DEFINE F(n) == CHOOSE f \in [D -> V] : Upto(n, f)
           h == [d \in D |-> F(rank[d] + 1)[d]]
<1>5. \A n \in Nat : F(n) \in [D -> V] /\ Upto(n, F(n))
  BY <1>3
<1> HIDE DEF F
<1>6. h \in [D -> V] /\ \A d \in D : h[d] = F(rank[d] + 1)[d]
  BY <1>5
<1> HIDE DEF h
<1>7. ASSUME NEW d \in D PROVE h[d] = step[<<d, h>>]
  <2> DEFINE f == F(rank[d] + 1)
  <2>1. rank[d] \in Nat /\ rank[d] + 1 \in Nat
    OBVIOUS
  <2>2. f \in [D -> V] /\ Upto(rank[d] + 1, f)
    BY <1>5, <2>1
  <2>3. f[d] = step[<<d, f>>]
    BY <2>1, <2>2
  <2>4. ASSUME NEW e \in D, rank[e] < rank[d] PROVE h[e] = f[e]
    <3>1. rank[e] \in Nat /\ rank[e] + 1 \in Nat /\ rank[e] + 1 <= rank[d] + 1
      BY <2>1, <2>4
    <3>2. F(rank[e] + 1) \in [D -> V] /\ Upto(rank[e] + 1, F(rank[e] + 1))
      BY <1>5, <3>1
    <3> HIDE DEF f, Upto
    <3>3. F(rank[e] + 1)[e] = f[e]
      BY <1>4, <2>1, <2>2, <3>1, <3>2
    <3> QED BY <1>6, <3>3
  <2>5. h[d] = f[d]
    BY <1>6
  <2> HIDE DEF f
  <2> QED BY <1>6, <2>2, <2>3, <2>4, <2>5
<1> QED BY <1>6, <1>7 DEF Recursive

(* Values that begin alike and then follow from each other stay alike.     *)
LEMMA CountedAlike ==
  ASSUME NEW n \in Nat, NEW f, NEW g, f[0] = g[0],
         \A k \in Nat : k < n /\ f[k] = g[k] => f[k + 1] = g[k + 1]
  PROVE  \A k \in 0 .. n : f[k] = g[k]
<1> DEFINE S == {k \in Nat : k <= n => f[k] = g[k]}
<1>1. 0 \in S
  OBVIOUS
<1>2. ASSUME NEW k \in Nat, k \in S PROVE k + 1 \in S
  BY <1>2
<1>3. Nat \subseteq S
  <2> HIDE DEF S
  <2> QED BY <1>1, <1>2, NumberInduction
<1> QED BY <1>3

(* The values that follow from each other, one for each number.            *)
LEMMA CountedRecursion ==
  ASSUME NEW V, NEW start \in V, NEW step,
         \A k \in Nat, v \in V : step[<<k, v>>] \in V
  PROVE  \E f \in [Nat -> V] : Counted(f, start, step)
<1> DEFINE rank == [k \in Nat |-> k]
           next == [a \in Nat \X [Nat -> V] |-> IF a[1] = 0 THEN start ELSE step[<<a[1] - 1, a[2][a[1] - 1]>>]]
<1>1. rank \in [Nat -> Nat] /\ \A k \in Nat : rank[k] = k
  OBVIOUS
<1>2. ASSUME NEW k \in Nat, NEW f \in [Nat -> V]
      PROVE  next[<<k, f>>] = IF k = 0 THEN start ELSE step[<<k - 1, f[k - 1]>>]
  OBVIOUS
<1> HIDE DEF rank, next
<1>3. ASSUME NEW k \in Nat, NEW f \in [Nat -> V] PROVE next[<<k, f>>] \in V
  <2>1. k # 0 => k - 1 \in Nat
    OBVIOUS
  <2>2. k # 0 => f[k - 1] \in V
    BY <2>1
  <2>3. k # 0 => step[<<k - 1, f[k - 1]>>] \in V
    BY <2>1, <2>2
  <2> QED BY <1>2, <2>3
<1>4. ASSUME NEW k \in Nat, NEW f \in [Nat -> V], NEW g \in [Nat -> V],
             \A e \in Nat : rank[e] < rank[k] => f[e] = g[e]
      PROVE  next[<<k, f>>] = next[<<k, g>>]
  <2>1. k # 0 => k - 1 \in Nat /\ k - 1 < k
    OBVIOUS
  <2>2. k # 0 => f[k - 1] = g[k - 1]
    BY <1>1, <1>4, <2>1
  <2>3. next[<<k, f>>] = IF k = 0 THEN start ELSE step[<<k - 1, f[k - 1]>>]
    BY <1>2
  <2>4. next[<<k, g>>] = IF k = 0 THEN start ELSE step[<<k - 1, g[k - 1]>>]
    BY <1>2
  <2> QED BY <2>2, <2>3, <2>4
<1>5. PICK f \in [Nat -> V] : Recursive(f, Nat, next)
  <2>1. V # {}
    OBVIOUS
  <2>2. \A k \in Nat, f \in [Nat -> V] : next[<<k, f>>] \in V
    BY <1>3
  <2>3. \A k \in Nat, f, g \in [Nat -> V] :
          (\A e \in Nat : rank[e] < rank[k] => f[e] = g[e]) => next[<<k, f>>] = next[<<k, g>>]
    BY <1>4
  <2>4. rank \in [Nat -> Nat]
    BY <1>1
  <2> QED BY <2>1, <2>2, <2>3, <2>4, RecursionExists, Zenon
<1>b. \A k \in Nat : f[k] = next[<<k, f>>]
  BY <1>5 DEF Recursive
<1>6. f[0] = start
  BY <1>2, <1>b
<1>7. ASSUME NEW k \in Nat PROVE f[k + 1] = step[<<k, f[k]>>]
  <2>1. k + 1 \in Nat /\ k + 1 # 0 /\ (k + 1) - 1 = k
    OBVIOUS
  <2>2. f[k + 1] = next[<<k + 1, f>>]
    BY <1>b, <2>1
  <2> QED BY <1>2, <2>1, <2>2
<1> QED BY <1>6, <1>7 DEF Counted

(* What a loop computes, for every number of steps.                        *)
Iterates(f, step, start) ==
  /\ f[0] = start
  /\ \A k \in Nat : f[k + 1] = step[f[k]]
  /\ \A n \in Nat : Iterated(step, n, start) = f[n]

(* A loop passes from value to value.                                      *)
LEMMA IteratedFacts ==
  ASSUME NEW V, NEW start \in V, NEW step, \A v \in V : step[v] \in V
  PROVE  \E f \in [Nat -> V] : Iterates(f, step, start)
<1> DEFINE counted == [a \in Nat \X V |-> step[a[2]]]
<1>1. \A k \in Nat, v \in V : counted[<<k, v>>] = step[v]
  OBVIOUS
<1>a. \A k \in Nat, v \in V : counted[<<k, v>>] \in V
  BY <1>1
<1> HIDE DEF counted
<1>b. PICK f \in [Nat -> V] : Counted(f, start, counted)
  BY <1>a, CountedRecursion, Zenon
<1>2. f[0] = start
  BY <1>b DEF Counted
<1>3. \A k \in Nat : f[k + 1] = step[f[k]]
  BY <1>1, <1>b DEF Counted
<1>4. ASSUME NEW n \in Nat PROVE Iterated(step, n, start) = f[n]
  <2> DEFINE Loop(h) == [k \in 0 .. n |-> IF k = 0 THEN start ELSE step[h[k - 1]]]
             g == [k \in 0 .. n |-> f[k]]
             h == CHOOSE e : e = Loop(e)
  <2>1. g = Loop(g)
    <3>1. ASSUME NEW k \in 0 .. n, k # 0 PROVE f[k] = step[g[k - 1]]
      <4>1. k - 1 \in Nat /\ k - 1 \in 0 .. n /\ (k - 1) + 1 = k
        BY <3>1
      <4> QED BY <1>3, <4>1
    <3> QED BY <1>2, <3>1
  <2> HIDE DEF g, Loop
  <2>2. h = Loop(h)
    BY <2>1
  <2> HIDE DEF h
  <2>3. h[0] = start /\ \A k \in Nat : k < n => h[k + 1] = step[h[k]]
    <3>1. h[0] = start
      BY <2>2 DEF Loop
    <3>2. ASSUME NEW k \in Nat, k < n PROVE h[k + 1] = step[h[k]]
      <4>1. k + 1 \in 0 .. n /\ k + 1 # 0 /\ (k + 1) - 1 = k
        BY <3>2
      <4>2. Loop(h)[k + 1] = step[h[k]]
        BY <4>1 DEF Loop
      <4> QED BY <2>2, <4>2
    <3> QED BY <3>1, <3>2
  <2>4. \A k \in 0 .. n : h[k] = f[k]
    <3>1. h[0] = f[0]
      BY <1>2, <2>3
    <3>2. \A k \in Nat : k < n /\ h[k] = f[k] => h[k + 1] = f[k + 1]
      BY <1>3, <2>3
    <3> QED BY <3>1, <3>2, CountedAlike
  <2>5. Iterated(step, n, start) = h[n]
    BY DEF Iterated, h, Loop
  <2> QED BY <2>4, <2>5
<1> QED BY <1>2, <1>3, <1>4 DEF Iterates

(* What a loop over a sequence computes.                                   *)
Folds(f, step, start, s) ==
  /\ f[0] = start
  /\ \A k \in Nat : k < Len(s) => f[k + 1] = step[<<f[k], s[k + 1]>>]
  /\ Folded(step, start, s) = f[Len(s)]

(* A loop over a sequence passes from value to value.                      *)
LEMMA FoldedFacts ==
  ASSUME NEW V, NEW E, NEW s \in Seq(E), NEW start \in V, NEW step,
         \A v \in V, e \in E : step[<<v, e>>] \in V
  PROVE  \E f \in [Nat -> V] : Folds(f, step, start, s)
<1>0. Len(s) \in Nat /\ \A k \in Nat : k < Len(s) => s[k + 1] \in E
  OBVIOUS
<1> DEFINE n == Len(s)
           counted == [a \in Nat \X V |-> IF a[1] < n THEN step[<<a[2], s[a[1] + 1]>>] ELSE a[2]]
<1>1. \A k \in Nat, v \in V : counted[<<k, v>>] = IF k < n THEN step[<<v, s[k + 1]>>] ELSE v
  OBVIOUS
<1>2. \A k \in Nat, v \in V : counted[<<k, v>>] \in V
  <2> HIDE DEF counted, n
  <2> QED BY <1>0, <1>1 DEF n
<1> HIDE DEF counted
<1>3. PICK f \in [Nat -> V] : Counted(f, start, counted)
  BY <1>2, CountedRecursion, Zenon
<1>4. f[0] = start
  BY <1>3 DEF Counted
<1>5. \A k \in Nat : k < n => f[k + 1] = step[<<f[k], s[k + 1]>>]
  BY <1>1, <1>3 DEF Counted
<1> DEFINE Loop(h) == [k \in 0 .. n |-> IF k = 0 THEN start ELSE step[<<h[k - 1], s[k]>>]]
           g == [k \in 0 .. n |-> f[k]]
           h == CHOOSE e : e = Loop(e)
<1>6. g = Loop(g)
  <2>1. ASSUME NEW k \in 0 .. n, k # 0 PROVE f[k] = step[<<g[k - 1], s[k]>>]
    <3>1. k - 1 \in Nat /\ k - 1 \in 0 .. n /\ (k - 1) + 1 = k /\ k - 1 < n
      BY <1>0, <2>1
    <3>2. f[k] = step[<<f[k - 1], s[k]>>]
      BY <1>5, <3>1
    <3> QED BY <3>1, <3>2
  <2> QED BY <1>4, <2>1
<1> HIDE DEF g, Loop
<1>7. h = Loop(h)
  BY <1>6
<1> HIDE DEF h
<1>8. h[0] = f[0]
  BY <1>0, <1>4, <1>7 DEF Loop
<1>9. ASSUME NEW k \in Nat, k < n /\ h[k] = f[k] PROVE h[k + 1] = f[k + 1]
  <2>1. k + 1 \in 0 .. n /\ k + 1 # 0 /\ (k + 1) - 1 = k
    BY <1>0, <1>9
  <2>2. Loop(h)[k + 1] = step[<<h[k], s[k + 1]>>]
    BY <2>1 DEF Loop
  <2> QED BY <1>5, <1>7, <1>9, <2>2
<1>10. \A k \in 0 .. n : h[k] = f[k]
  <2>1. \A k \in Nat : k < n /\ h[k] = f[k] => h[k + 1] = f[k + 1]
    BY <1>9
  <2>2. n \in Nat
    BY <1>0
  <2> HIDE DEF n
  <2> QED BY <1>8, <2>1, <2>2, CountedAlike, ZenonT(60)
<1>11. Folded(step, start, s) = h[n]
  BY DEF Folded, h, Loop
<1> QED BY <1>0, <1>4, <1>5, <1>10, <1>11, SMTT(30) DEF Folds

-----------------------------------------------------------------------------
(* Reachability.                                                           *)

(* The nodes that are k edges from those of S or fewer.                    *)
Levels(f, next, S) ==
  /\ f[0] = S
  /\ \A k \in Nat : f[k + 1] = f[k] \cup UNION {next[n] : n \in f[k]}
  /\ Closure(next, S) = f[Exit]

(* Closure goes from level to level.                                       *)
LEMMA LevelsExist ==
  ASSUME NEW N, NEW next \in [N -> SUBSET N], NEW S \in SUBSET N
  PROVE  \E f \in [Nat -> SUBSET N] : Levels(f, next, S)
<1> DEFINE Step(T) == T \cup UNION {next[n] : n \in T}
           V == SUBSET N
           counted == [a \in Nat \X V |-> Step(a[2])]
<1>0. Exit \in Nat
  BY MaxBlocksAssumption DEF Exit
<1>1. \A T \in V : Step(T) \in V
  OBVIOUS
<1>2. \A k \in Nat, T \in V : counted[<<k, T>>] = Step(T)
  OBVIOUS
<1>a. S \in V
  OBVIOUS
<1> HIDE DEF counted, V, Step
<1>3. \A k \in Nat, T \in V : counted[<<k, T>>] \in V
  BY <1>1, <1>2
<1>4. PICK f \in [Nat -> V] : Counted(f, S, counted)
  BY <1>a, <1>3, CountedRecursion, Zenon
<1>5. f[0] = S /\ \A k \in Nat : f[k + 1] = Step(f[k])
  BY <1>2, <1>4 DEF Counted
<1> DEFINE n == Exit
           Loop(h) == [k \in 0 .. n |-> IF k = 0 THEN S ELSE Step(h[k - 1])]
           g == [k \in 0 .. n |-> f[k]]
           h == CHOOSE e : e = Loop(e)
<1>b. n \in Nat
  BY <1>0
<1>c. Closure(next, S) = h[n]
  BY DEF Closure, Step
<1> HIDE DEF n
<1>6. g = Loop(g)
  <2>1. ASSUME NEW k \in 0 .. n, k # 0 PROVE f[k] = Step(g[k - 1])
    <3>1. k - 1 \in Nat /\ k - 1 \in 0 .. n /\ (k - 1) + 1 = k
      BY <1>b, <2>1
    <3> QED BY <1>5, <3>1
  <2> QED BY <1>5, <2>1
<1> HIDE DEF g, Loop
<1>7. h = Loop(h)
  BY <1>6
<1> HIDE DEF h
<1>8. h[0] = f[0]
  BY <1>b, <1>5, <1>7 DEF Loop
<1>9. ASSUME NEW k \in Nat, k < n /\ h[k] = f[k] PROVE h[k + 1] = f[k + 1]
  <2>1. k + 1 \in 0 .. n /\ k + 1 # 0 /\ (k + 1) - 1 = k
    BY <1>b, <1>9
  <2>2. Loop(h)[k + 1] = Step(h[k])
    BY <2>1 DEF Loop
  <2> QED BY <1>5, <1>7, <1>9, <2>2
<1>10. \A k \in 0 .. n : h[k] = f[k]
  <2>1. \A k \in Nat : k < n /\ h[k] = f[k] => h[k + 1] = f[k + 1]
    BY <1>9
  <2> QED BY <1>8, <1>b, <2>1, CountedAlike
<1>11. Closure(next, S) = f[Exit]
  BY <1>b, <1>c, <1>10 DEF n
<1>12. f \in [Nat -> SUBSET N]
  BY DEF V
<1> QED BY <1>5, <1>11, <1>12 DEF Levels, Step

(* There are Exit nodes.                                                   *)
LEMMA NodesFinite ==
  /\ Exit \in Nat /\ Exit > 1 /\ Entry \in Nodes /\ Exit \in Nodes /\ Entry # Exit
  /\ Nodes = 1 .. Exit /\ IsFiniteSet(Nodes) /\ Cardinality(Nodes) = Exit
<1>1. Exit \in Nat /\ Exit > 1 /\ Entry \in Nodes /\ Exit \in Nodes /\ Entry # Exit /\ Nodes = 1 .. Exit
  BY MaxBlocksAssumption DEF Exit, Nodes, Blocks, Entry
<1>2. IsFiniteSet(1 .. Exit) /\ Cardinality(1 .. Exit) = Exit
  BY <1>1, FS_Interval
<1> QED BY <1>1, <1>2

(* Sets of nodes are finite.                                               *)
LEMMA SomeNodes ==
  ASSUME NEW N \in SUBSET Nodes
  PROVE  IsFiniteSet(N) /\ Cardinality(N) \in Nat /\ Cardinality(N) <= Exit
<1>1. IsFiniteSet(Nodes) /\ Cardinality(Nodes) = Exit
  BY NodesFinite
<1>2. IsFiniteSet(N) /\ Cardinality(N) <= Exit
  BY <1>1, FS_Subset
<1> QED BY <1>2, FS_CardinalityType

(* A level keeps what is in the one before it.                             *)
LEMMA LevelsGrow ==
  ASSUME NEW N, NEW next \in [N -> SUBSET N], NEW S \in SUBSET N,
         NEW f \in [Nat -> SUBSET N], Levels(f, next, S), NEW j \in Nat, NEW k \in Nat, j <= k
  PROVE  f[j] \subseteq f[k]
<1> DEFINE T == {i \in Nat : f[j] \subseteq f[j + i]}
<1>1. 0 \in T
  OBVIOUS
<1>2. ASSUME NEW i \in Nat, i \in T PROVE i + 1 \in T
  <2>1. j + i \in Nat /\ j + (i + 1) = (j + i) + 1
    OBVIOUS
  <2>2. f[j + i] \subseteq f[(j + i) + 1]
    BY <2>1 DEF Levels
  <2> QED BY <1>2, <2>1, <2>2
<1> HIDE DEF T
<1>3. Nat \subseteq T
  BY <1>1, <1>2, NumberInduction
<1>4. k - j \in T /\ j + (k - j) = k
  BY <1>3
<1> QED BY <1>4 DEF T

(* As many steps as there are nodes reach all that any number reaches.     *)
LEMMA LevelsStop ==
  ASSUME NEW N \in SUBSET Nodes, NEW next \in [N -> SUBSET N], NEW S \in SUBSET N,
         NEW f \in [Nat -> SUBSET N], Levels(f, next, S)
  PROVE  \A k \in Nat : f[k] \subseteq f[Exit]
<1>0. Exit \in Nat /\ IsFiniteSet(Nodes) /\ Cardinality(Nodes) = Exit
  BY NodesFinite
<1>1. IsFiniteSet(N) /\ Cardinality(N) <= Exit /\ Cardinality(N) \in Nat
  BY <1>0, FS_Subset, FS_CardinalityType
<1>2. ASSUME NEW k \in Nat
      PROVE  /\ IsFiniteSet(f[k]) /\ Cardinality(f[k]) \in Nat /\ Cardinality(f[k]) <= Cardinality(N)
             /\ Cardinality(f[k]) = Cardinality(N) => f[k] = N
  <2>1. f[k] \in SUBSET N
    OBVIOUS
  <2> QED BY <1>1, <2>1, FS_Subset, FS_CardinalityType
<1> DEFINE T == {k \in Nat : f[k + 1] = f[k] \/ Cardinality(f[k]) >= k}
<1>3. 0 \in T
  BY <1>2
<1>4. ASSUME NEW k \in Nat, k \in T PROVE k + 1 \in T
  <2>0. k + 1 \in Nat /\ (k + 1) + 1 \in Nat
    OBVIOUS
  <2>1. CASE f[k + 1] = f[k]
    <3> DEFINE Step(A) == A \cup UNION {next[n] : n \in A}
    <3>1. f[(k + 1) + 1] = Step(f[k + 1])
      BY <2>0 DEF Levels
    <3>2. f[k + 1] = Step(f[k])
      BY DEF Levels
    <3> HIDE DEF Step
    <3> QED BY <2>1, <3>1, <3>2
  <2>2. CASE f[k + 1] # f[k]
    <3>1. f[k] \subseteq f[k + 1]
      BY LevelsGrow, <2>0
    <3>2. Cardinality(f[k]) <= Cardinality(f[k + 1]) /\ Cardinality(f[k]) # Cardinality(f[k + 1])
      BY <1>2, <2>0, <2>2, <3>1, FS_Subset
    <3>3. Cardinality(f[k]) >= k
      BY <1>4, <2>2
    <3> QED BY <1>2, <2>0, <3>2, <3>3
  <2> QED BY <2>1, <2>2
<1> HIDE DEF T
<1>5. Exit \in T
  BY <1>0, <1>3, <1>4, NumberInduction
<1>6. f[Exit + 1] = f[Exit]
  <2>1. CASE Cardinality(f[Exit]) >= Exit
    <3>1. f[Exit] = N
      BY <1>0, <1>1, <1>2, <2>1
    <3>2. f[Exit] \subseteq f[Exit + 1]
      BY <1>0 DEF Levels
    <3>3. f[Exit + 1] \in SUBSET N
      BY <1>0
    <3> QED BY <3>1, <3>2, <3>3
  <2> QED BY <1>5, <2>1 DEF T
<1> DEFINE U == {k \in Nat : f[k] \subseteq f[Exit]}
<1>7. 0 \in U
  BY <1>0, LevelsGrow
<1>8. ASSUME NEW k \in Nat, k \in U PROVE k + 1 \in U
  <2>1. f[k + 1] = f[k] \cup UNION {next[n] : n \in f[k]}
    BY DEF Levels
  <2>2. f[Exit + 1] = f[Exit] \cup UNION {next[n] : n \in f[Exit]}
    BY <1>0 DEF Levels
  <2> QED BY <1>6, <1>8, <2>1, <2>2
<1> HIDE DEF U
<1>9. Nat \subseteq U
  BY <1>7, <1>8, NumberInduction
<1> QED BY <1>9 DEF U

(* The closure holds its start, is closed, and is the least such set.      *)
LEMMA ClosureFacts ==
  ASSUME NEW N \in SUBSET Nodes, NEW next \in [N -> SUBSET N], NEW S \in SUBSET N
  PROVE  /\ Closure(next, S) \in SUBSET N
         /\ S \subseteq Closure(next, S)
         /\ \A n \in Closure(next, S) : next[n] \subseteq Closure(next, S)
         /\ \A T : S \subseteq T /\ (\A n \in T \cap N : next[n] \subseteq T) => Closure(next, S) \subseteq T
<1>1. PICK f \in [Nat -> SUBSET N] : Levels(f, next, S)
  BY LevelsExist, Zenon
<1>2. Exit \in Nat /\ Exit + 1 \in Nat /\ Closure(next, S) = f[Exit] /\ f[0] = S
  BY <1>1, NodesFinite DEF Levels
<1>3. Closure(next, S) \in SUBSET N
  BY <1>2
<1>4. S \subseteq Closure(next, S) /\ f[Exit + 1] \subseteq f[Exit]
  BY <1>1, <1>2, LevelsStop
<1>5. \A n \in Closure(next, S) : next[n] \subseteq Closure(next, S)
  <2>1. f[Exit + 1] = f[Exit] \cup UNION {next[n] : n \in f[Exit]}
    BY <1>1, <1>2 DEF Levels
  <2> QED BY <1>2, <1>4, <2>1
<1>6. ASSUME NEW T, S \subseteq T, \A n \in T \cap N : next[n] \subseteq T
      PROVE  Closure(next, S) \subseteq T
  <2> DEFINE U == {k \in Nat : f[k] \subseteq T}
  <2>1. 0 \in U
    BY <1>2, <1>6
  <2>2. ASSUME NEW k \in Nat, k \in U PROVE k + 1 \in U
    <3>1. f[k + 1] = f[k] \cup UNION {next[n] : n \in f[k]}
      BY <1>1 DEF Levels
    <3>2. f[k] \subseteq N
      OBVIOUS
    <3> QED BY <1>6, <2>2, <3>1, <3>2
  <2> HIDE DEF U
  <2>3. Exit \in U
    BY <1>2, <2>1, <2>2, NumberInduction
  <2> QED BY <1>2, <2>3 DEF U
<1> QED BY <1>3, <1>4, <1>5, <1>6

(* Of a finite set there is a sequence that has every element once.        *)
LEMMA SetToSeqFacts ==
  ASSUME NEW S, IsFiniteSet(S)
  PROVE  /\ SetToSeq(S) \in Seq(S) /\ Len(SetToSeq(S)) = Cardinality(S) /\ Cardinality(S) \in Nat
         /\ Range(SetToSeq(S)) = S
         /\ \A i, j \in 1 .. Len(SetToSeq(S)) : SetToSeq(S)[i] = SetToSeq(S)[j] => i = j
<1> DEFINE n == Cardinality(S)
           D == 1 .. n
           s == SetToSeq(S)
<1>1. n \in Nat /\ ExistsBijection(D, S)
  BY FS_CardinalityType
<1>2. \E f \in [D -> S] : IsInjective(f)
  BY <1>1 DEF ExistsBijection, Bijection, Injection
<1>3. s \in [D -> S] /\ IsInjective(s)
  BY <1>2 DEF SetToSeq
<1>4. s \in Seq(S) /\ Len(s) = n /\ DOMAIN s = D
  <2> HIDE DEF s, n
  <2> QED BY <1>1, <1>3
<1>5. IsFiniteSet(D) /\ Cardinality(D) = n
  BY <1>1, FS_Interval
<1>6. s \in Injection(D, S)
  BY <1>3 DEF Injection
<1>7. s \in Surjection(D, S)
  <2> HIDE DEF s, D
  <2> QED BY <1>5, <1>6, FS_Injection
<1>8. Range(s) = S
  BY <1>3, <1>4, <1>7 DEF Surjection, Range
<1>9. \A i, j \in 1 .. Len(s) : s[i] = s[j] => i = j
  BY <1>3, <1>4 DEF IsInjective
<1> HIDE DEF s
<1> QED BY <1>1, <1>4, <1>8, <1>9 DEF s

-----------------------------------------------------------------------------
(* Dominance by paths.                                                     *)

(* What the entry reaches without d, and d is not without itself.          *)
Avoiding(g, d) == [m \in DOMAIN g.succs |-> g.succs[m] \ {d}]
Reach(g, d)    == Closure(Avoiding(g, d), {g.entry} \ {d})
Dom(g, d, n)   == n \notin Reach(g, d)

(* A graph whose nodes are numbered so that all but the entry have a       *)
(* predecessor with a smaller number.                                      *)
Numbered(g, N) ==
  /\ N \in SUBSET Nodes
  /\ g.succs \in [N -> SUBSET N]
  /\ g.preds = Preds(g.succs)
  /\ g.entry \in N
  /\ g.rpo \in Seq(N) /\ Len(g.rpo) > 0 /\ g.rpo[1] = g.entry
  /\ Range(g.rpo) = N
  /\ \A i, j \in 1 .. Len(g.rpo) : g.rpo[i] = g.rpo[j] => i = j
  /\ g.index = [n \in Range(g.rpo) |-> CHOOSE i \in DOMAIN g.rpo : g.rpo[i] = n]
  /\ \A n \in N \ {g.entry} : \E m \in N : n \in g.succs[m] /\ g.index[m] < g.index[n]

(* The numbers are those of the places in the sequence.                    *)
LEMMA IndexFacts ==
  ASSUME NEW N, NEW g, Numbered(g, N)
  PROVE  /\ g.index \in [N -> Nat]
         /\ \A n \in N : g.index[n] \in 1 .. Len(g.rpo) /\ g.rpo[g.index[n]] = n
         /\ g.index[g.entry] = 1
         /\ \A n \in N \ {g.entry} : g.index[n] > 1
         /\ \A i \in 1 .. Len(g.rpo) : g.rpo[i] \in N /\ g.index[g.rpo[i]] = i
         /\ \A m, n \in N : g.index[m] = g.index[n] => m = n
<1>1. /\ g.rpo \in Seq(N) /\ DOMAIN g.rpo = 1 .. Len(g.rpo) /\ Len(g.rpo) \in Nat
      /\ Len(g.rpo) > 0 /\ g.rpo[1] = g.entry /\ Range(g.rpo) = N /\ g.entry \in N
      /\ \A i, j \in 1 .. Len(g.rpo) : g.rpo[i] = g.rpo[j] => i = j
  BY DEF Numbered
<1>2. ASSUME NEW n \in N PROVE g.index[n] \in 1 .. Len(g.rpo) /\ g.rpo[g.index[n]] = n
  <2>1. \E i \in DOMAIN g.rpo : g.rpo[i] = n
    BY <1>1 DEF Range
  <2>2. g.index[n] = CHOOSE i \in DOMAIN g.rpo : g.rpo[i] = n
    BY <1>1 DEF Numbered
  <2>3. g.index[n] \in DOMAIN g.rpo /\ g.rpo[g.index[n]] = n
    BY <2>1, <2>2
  <2> QED BY <1>1, <2>3
<1>3. g.index \in [N -> Nat]
  <2>1. g.index = [n \in N |-> g.index[n]]
    BY <1>1 DEF Numbered
  <2>2. \A n \in N : g.index[n] \in Nat
    BY <1>2
  <2> QED BY <2>1, <2>2
<1>4. \A i \in 1 .. Len(g.rpo) : g.rpo[i] \in N /\ g.index[g.rpo[i]] = i
  BY <1>1, <1>2
<1>5. 1 \in 1 .. Len(g.rpo)
  BY <1>1
<1>6. g.index[g.entry] = 1
  BY <1>1, <1>4, <1>5
<1>7. \A m, n \in N : g.index[m] = g.index[n] => m = n
  BY <1>2
<1>8. \A n \in N \ {g.entry} : g.index[n] > 1
  BY <1>1, <1>2, <1>6, <1>7
<1> QED BY <1>2, <1>3, <1>4, <1>6, <1>7, <1>8

(* The predecessors of a node of the graph.                                *)
LEMMA PredFacts ==
  ASSUME NEW N, NEW g, Numbered(g, N), NEW n \in N
  PROVE  /\ g.preds[n] = {m \in N : n \in g.succs[m]}
         /\ IsFiniteSet(g.preds[n])
         /\ n # g.entry => \E m \in g.preds[n] : g.index[m] < g.index[n]
<1>1. g.preds[n] = {m \in N : n \in g.succs[m]}
  BY DEF Numbered, Preds
<1>2. IsFiniteSet(N)
  <2>1. N \in SUBSET Nodes
    BY DEF Numbered
  <2> QED BY <2>1, NodesFinite, FS_Subset
<1>3. IsFiniteSet(g.preds[n])
  BY <1>1, <1>2, FS_Subset
<1>4. n # g.entry => \E m \in N : n \in g.succs[m] /\ g.index[m] < g.index[n]
  BY DEF Numbered
<1> QED BY <1>1, <1>3, <1>4

(* The edges that avoid d, and where they start.                           *)
LEMMA AvoidingFacts ==
  ASSUME NEW N, NEW g, Numbered(g, N), NEW d \in N
  PROVE  /\ N \in SUBSET Nodes
         /\ Avoiding(g, d) \in [N -> SUBSET N]
         /\ {g.entry} \ {d} \in SUBSET N
         /\ \A m \in N : Avoiding(g, d)[m] = g.succs[m] \ {d}
<1>1. g.succs \in [N -> SUBSET N] /\ g.entry \in N /\ N \in SUBSET Nodes
  BY DEF Numbered
<1> QED BY <1>1 DEF Avoiding

(* What is reached without d is closed, and the least closed set.          *)
LEMMA ReachFacts ==
  ASSUME NEW N, NEW g, Numbered(g, N), NEW d \in N
  PROVE  /\ Reach(g, d) \in SUBSET N
         /\ d \notin Reach(g, d)
         /\ d # g.entry => g.entry \in Reach(g, d)
         /\ \A m \in Reach(g, d) : g.succs[m] \ {d} \subseteq Reach(g, d)
         /\ \A T : {g.entry} \ {d} \subseteq T /\ (\A m \in T \cap N : g.succs[m] \ {d} \subseteq T)
                     => Reach(g, d) \subseteq T
<1> DEFINE S == {g.entry} \ {d}
           next == Avoiding(g, d)
<1>1. N \in SUBSET Nodes /\ next \in [N -> SUBSET N] /\ S \in SUBSET N /\ \A m \in N : next[m] = g.succs[m] \ {d}
  BY AvoidingFacts
<1> HIDE DEF next, S
<1>2. /\ Closure(next, S) \in SUBSET N
      /\ S \subseteq Closure(next, S)
      /\ \A n \in Closure(next, S) : next[n] \subseteq Closure(next, S)
      /\ \A T : S \subseteq T /\ (\A n \in T \cap N : next[n] \subseteq T) => Closure(next, S) \subseteq T
  BY <1>1, ClosureFacts
<1>3. Reach(g, d) = Closure(next, S)
  BY DEF Reach, next, S
<1> DEFINE R == Reach(g, d)
<1>4. R \in SUBSET N /\ \A m \in R : g.succs[m] \ {d} \subseteq R
  BY <1>1, <1>2, <1>3
<1>5. d # g.entry => g.entry \in R
  BY <1>2, <1>3 DEF S
<1>6. \A T : S \subseteq T /\ (\A m \in T \cap N : g.succs[m] \ {d} \subseteq T) => R \subseteq T
  BY <1>1, <1>2, <1>3
<1>7. d \notin R
  <2>1. S \subseteq N \ {d}
    BY <1>1 DEF S
  <2>2. \A m \in (N \ {d}) \cap N : g.succs[m] \ {d} \subseteq N \ {d}
    BY DEF Numbered
  <2> QED BY <1>6, <2>1, <2>2
<1> QED BY <1>4, <1>5, <1>6, <1>7 DEF S

(* Dominance is an order.                                                  *)
LEMMA DomOrder ==
  ASSUME NEW N, NEW g, Numbered(g, N)
  PROVE  /\ \A n \in N : Dom(g, n, n) /\ Dom(g, g.entry, n)
         /\ \A a, b, c \in N : Dom(g, a, b) /\ Dom(g, b, c) => Dom(g, a, c)
<1>0. g.entry \in N /\ g.succs \in [N -> SUBSET N]
  BY DEF Numbered
<1>1. \A n \in N : Dom(g, n, n)
  BY ReachFacts DEF Dom
<1>2. Reach(g, g.entry) \subseteq {}
  <2> DEFINE T == {}
  <2>1. {g.entry} \ {g.entry} \subseteq T /\ \A m \in T \cap N : g.succs[m] \ {g.entry} \subseteq T
    OBVIOUS
  <2>2. Reach(g, g.entry) \subseteq T
    <3> HIDE DEF T
    <3> QED BY <1>0, <2>1, ReachFacts
  <2> QED BY <2>2
<1>3. ASSUME NEW a \in N, NEW b \in N, b \notin Reach(g, a) PROVE Reach(g, a) \subseteq Reach(g, b)
  <2> DEFINE T == Reach(g, a) \cap Reach(g, b)
  <2>1. {g.entry} \ {a} \subseteq T
    BY <1>0, <1>3, ReachFacts
  <2>2. \A m \in T \cap N : g.succs[m] \ {a} \subseteq T
    BY <1>3, ReachFacts
  <2>3. Reach(g, a) \subseteq T
    <3> HIDE DEF T
    <3> QED BY <2>1, <2>2, ReachFacts
  <2> QED BY <2>3
<1> QED BY <1>1, <1>2, <1>3 DEF Dom

(* What strictly dominates a node are the dominators of all of its         *)
(* predecessors.                                                           *)
LEMMA DomPreds ==
  ASSUME NEW N, NEW g, Numbered(g, N), NEW n \in N \ {g.entry}, NEW d \in N \ {n}
  PROVE  Dom(g, d, n) <=> \A p \in g.preds[n] : Dom(g, d, p)
<1>0. g.preds[n] = {m \in N : n \in g.succs[m]}
  BY PredFacts
<1>1. ASSUME NEW p \in g.preds[n], Dom(g, d, n) PROVE Dom(g, d, p)
  BY <1>0, <1>1, ReachFacts DEF Dom
<1>2. ASSUME \A p \in g.preds[n] : Dom(g, d, p) PROVE Dom(g, d, n)
  <2> DEFINE T == Reach(g, d) \ {n}
  <2>1. {g.entry} \ {d} \subseteq T
    BY ReachFacts
  <2>2. \A m \in T \cap N : g.succs[m] \ {d} \subseteq T
    BY <1>0, <1>2, ReachFacts DEF Dom
  <2>3. Reach(g, d) \subseteq T
    <3> HIDE DEF T
    <3> QED BY <2>1, <2>2, ReachFacts
  <2> QED BY <2>3 DEF Dom
<1> QED BY <1>1, <1>2

(* What dominates a node has a smaller number.                             *)
LEMMA DomIndex ==
  ASSUME NEW N, NEW g, Numbered(g, N), NEW d \in N
  PROVE  \A n \in N \ {d} : Dom(g, d, n) => g.index[d] < g.index[n]
<1> DEFINE S == {n \in N : n # d /\ Dom(g, d, n) => g.index[d] < g.index[n]}
<1>0. g.index \in [N -> Nat]
  BY IndexFacts
<1>1. ASSUME NEW n \in N, \A m \in N : g.index[m] < g.index[n] => m \in S PROVE n \in S
  <2> SUFFICES ASSUME n # d, Dom(g, d, n) PROVE g.index[d] < g.index[n]
    OBVIOUS
  <2>1. n # g.entry
    BY ReachFacts DEF Dom
  <2>2. PICK p \in g.preds[n] : g.index[p] < g.index[n]
    BY <2>1, PredFacts
  <2>3. p \in N /\ Dom(g, d, p)
    BY <2>1, <2>2, DomPreds, PredFacts
  <2>4. p # d => g.index[d] < g.index[p]
    BY <1>1, <2>2, <2>3
  <2>5. g.index[p] \in Nat /\ g.index[d] \in Nat /\ g.index[n] \in Nat
    BY <1>0, <2>3
  <2> QED BY <2>2, <2>4, <2>5
<1> HIDE DEF S
<1>2. N \subseteq S
  BY <1>0, <1>1, RankInduction
<1> QED BY <1>2 DEF S

(* Dominance for paths of k edges or fewer.                                *)
LevelsOf(g, d) ==
  CHOOSE f \in [Nat -> SUBSET DOMAIN g.succs] : Levels(f, Avoiding(g, d), {g.entry} \ {d})
DomWithin(g, k, d, n) == n \notin LevelsOf(g, d)[k]

(* The levels of what is reached without d.                                *)
LEMMA LevelsOfFacts ==
  ASSUME NEW N, NEW g, Numbered(g, N), NEW d \in N
  PROVE  /\ LevelsOf(g, d) \in [Nat -> SUBSET N]
         /\ LevelsOf(g, d)[0] = {g.entry} \ {d}
         /\ LevelsOf(g, d)[Exit] = Reach(g, d)
         /\ \A j, k \in Nat : j <= k => LevelsOf(g, d)[j] \subseteq LevelsOf(g, d)[k]
         /\ \A k \in Nat, n \in N :
              n \in LevelsOf(g, d)[k + 1] <=>
                \/ n \in LevelsOf(g, d)[k]
                \/ n # d /\ \E m \in LevelsOf(g, d)[k] : n \in g.succs[m]
<1> DEFINE S == {g.entry} \ {d}
           next == Avoiding(g, d)
           f == LevelsOf(g, d)
<1>1. N \in SUBSET Nodes /\ next \in [N -> SUBSET N] /\ S \in SUBSET N /\ \A m \in N : next[m] = g.succs[m] \ {d}
  BY AvoidingFacts
<1>2. DOMAIN g.succs = N
  BY DEF Numbered
<1>3. \E h \in [Nat -> SUBSET N] : Levels(h, next, S)
  <2> HIDE DEF next, S
  <2> QED BY <1>1, LevelsExist, Zenon
<1>4. f \in [Nat -> SUBSET N] /\ Levels(f, next, S)
  <2> HIDE DEF next, S
  <2> QED BY <1>2, <1>3 DEF LevelsOf, next, S
<1> HIDE DEF f
<1>5. f[0] = S /\ f[Exit] = Reach(g, d)
  BY <1>4 DEF Levels, Reach
<1> HIDE DEF next, S
<1>6. \A j, k \in Nat : j <= k => f[j] \subseteq f[k]
  BY <1>1, <1>4, LevelsGrow
<1>7. ASSUME NEW k \in Nat, NEW n \in N
      PROVE  n \in f[k + 1] <=> n \in f[k] \/ (n # d /\ \E m \in f[k] : n \in g.succs[m])
  <2>1. f[k + 1] = f[k] \cup UNION {next[m] : m \in f[k]} /\ f[k] \subseteq N
    BY <1>4 DEF Levels
  <2> QED BY <1>1, <2>1
<1> QED BY <1>4, <1>5, <1>6, <1>7 DEF f, S

(* Dominance within k edges is carried on, too.                            *)
LEMMA WithinOrder ==
  ASSUME NEW N, NEW g, Numbered(g, N), NEW k \in Nat
  PROVE  /\ \A n \in N : DomWithin(g, k, n, n)
         /\ \A a, b, c \in N : DomWithin(g, k, a, b) /\ DomWithin(g, k, b, c) => DomWithin(g, k, a, c)
<1>1. ASSUME NEW n \in N PROVE n \notin LevelsOf(g, n)[k]
  <2> DEFINE T == {j \in Nat : n \notin LevelsOf(g, n)[j]}
  <2>1. 0 \in T
    BY LevelsOfFacts
  <2>2. ASSUME NEW j \in Nat, j \in T PROVE j + 1 \in T
    BY <2>2, LevelsOfFacts
  <2> HIDE DEF T
  <2>3. Nat \subseteq T
    BY <2>1, <2>2, NumberInduction
  <2> QED BY <2>3 DEF T
<1>2. ASSUME NEW a \in N, NEW b \in N, b \notin LevelsOf(g, a)[k]
      PROVE  LevelsOf(g, a)[k] \subseteq LevelsOf(g, b)[k]
  <2> DEFINE A == LevelsOf(g, a)
             B == LevelsOf(g, b)
             T == {j \in Nat : j <= k => A[j] \subseteq B[j]}
  <2>0. A \in [Nat -> SUBSET N] /\ B \in [Nat -> SUBSET N]
    BY LevelsOfFacts
  <2>1. 0 \in T
    <3>1. A[0] = {g.entry} \ {a} /\ B[0] = {g.entry} \ {b} /\ A[0] \subseteq A[k]
      BY LevelsOfFacts
    <3>2. b \notin A[0]
      BY <1>2, <3>1
    <3> QED BY <3>1, <3>2
  <2>2. ASSUME NEW j \in Nat, j \in T PROVE j + 1 \in T
    <3> SUFFICES ASSUME j + 1 <= k, NEW n \in A[j + 1] PROVE n \in B[j + 1]
      OBVIOUS
    <3>0. n \in N /\ A[j] \subseteq B[j] /\ j + 1 \in Nat
      BY <2>0, <2>2
    <3>1. n # b
      <4>1. A[j + 1] \subseteq A[k]
        BY <3>0, LevelsOfFacts
      <4> QED BY <1>2, <4>1
    <3>2. n \in A[j] \/ \E m \in A[j] : n \in g.succs[m]
      BY <3>0, LevelsOfFacts
    <3>3. n \in B[j] \/ (n # b /\ \E m \in B[j] : n \in g.succs[m])
      BY <3>0, <3>1, <3>2
    <3> HIDE DEF A, T
    <3> QED BY <3>0, <3>3, LevelsOfFacts
  <2> HIDE DEF T
  <2>3. k \in T
    BY <2>1, <2>2, NumberInduction
  <2> QED BY <2>3 DEF T
<1>3. ASSUME NEW a \in N, NEW b \in N, NEW c \in N, DomWithin(g, k, a, b), DomWithin(g, k, b, c)
      PROVE  DomWithin(g, k, a, c)
  BY <1>2, <1>3 DEF DomWithin
<1> QED BY <1>1, <1>3 DEF DomWithin

-----------------------------------------------------------------------------
(* The fix point of DomTreeBase::create.                                   *)

(* A node v for the tree above n: numbered before n, below all that        *)
(* strictly dominate n, and passed by every path of k edges to n.          *)
Good(g, k, n, v) ==
  /\ g.index[v] < g.index[n]
  /\ DomWithin(g, k, v, n)
  /\ \A d \in DOMAIN g.succs \ {n} : Dom(g, d, n) => Dom(g, d, v)

GoodTrees(g, N, k) == {f \in [N \ {g.entry} -> N] : \A n \in N \ {g.entry} : Good(g, k, n, f[n])}

(* The nodes but the entry, in their order.                                *)
LEMMA OthersFacts ==
  ASSUME NEW N, NEW g, Numbered(g, N)
  PROVE  /\ Others(g) \in Seq(N \ {g.entry}) /\ Range(Others(g)) = N \ {g.entry}
         /\ Trees(g) = [N \ {g.entry} -> N]
<1> DEFINE O == N \ {g.entry}
           s == g.rpo
<1>1. /\ s \in Seq(N) /\ DOMAIN s = 1 .. Len(s) /\ Len(s) \in Nat
      /\ Len(s) > 0 /\ s[1] = g.entry /\ Range(s) = N /\ g.entry \in N
      /\ \A i, j \in 1 .. Len(s) : s[i] = s[j] => i = j
  BY DEF Numbered
<1> HIDE DEF s
<1>2. /\ Tail(s) \in Seq(N) /\ Len(Tail(s)) = Len(s) - 1 /\ DOMAIN Tail(s) = 1 .. Len(s) - 1
      /\ \A i \in 1 .. Len(s) - 1 : Tail(s)[i] = s[i + 1]
  BY <1>1
<1>3. ASSUME NEW i \in 1 .. Len(s) - 1 PROVE Tail(s)[i] \in O
  <2>1. i + 1 \in 1 .. Len(s) /\ i + 1 # 1 /\ 1 \in 1 .. Len(s)
    BY <1>1
  <2> QED BY <1>1, <1>2, <2>1
<1>4. ASSUME NEW n \in O PROVE \E i \in 1 .. Len(s) - 1 : Tail(s)[i] = n
  <2>1. PICK j \in 1 .. Len(s) : s[j] = n
    BY <1>1 DEF Range
  <2>2. j # 1 /\ j - 1 \in 1 .. Len(s) - 1 /\ (j - 1) + 1 = j
    BY <1>1, <2>1
  <2> QED BY <1>2, <2>1, <2>2
<1>5. Range(Tail(s)) = O
  BY <1>2, <1>3, <1>4, ZenonT(60) DEF Range
<1>6. Tail(s) \in Seq(O)
  BY <1>2, <1>5, SeqOfRange
<1> QED BY <1>1, <1>5, <1>6 DEF Others, Trees, s

(* What the two fingers meet at is above both, but not above anything that *)
(* dominates both.                                                         *)
Meet(g, k, i, j, v) ==
  /\ v \in DOMAIN g.succs
  /\ g.index[v] <= g.index[i] /\ g.index[v] <= g.index[j]
  /\ DomWithin(g, k, v, i) /\ DomWithin(g, k, v, j)
  /\ \A d \in DOMAIN g.succs : Dom(g, d, i) /\ Dom(g, d, j) => Dom(g, d, v)

(* The lower finger goes up.                                               *)
LEMMA MeetAbove ==
  ASSUME NEW N, NEW g, Numbered(g, N), NEW k \in Nat, NEW f \in GoodTrees(g, N, k),
         NEW i \in N, NEW j \in N, g.index[i] < g.index[j]
  PROVE  /\ j # g.entry /\ f[j] \in N /\ g.index[f[j]] < g.index[j]
         /\ \A v : Meet(g, k, i, f[j], v) => Meet(g, k, i, j, v)
<1>0. DOMAIN g.succs = N
  BY DEF Numbered
<1>1. g.index \in [N -> Nat] /\ j # g.entry
  BY IndexFacts
<1>2. f[j] \in N /\ Good(g, k, j, f[j])
  BY <1>1 DEF GoodTrees
<1>3. g.index[f[j]] < g.index[j] /\ DomWithin(g, k, f[j], j)
  BY <1>2 DEF Good
<1>4. ASSUME NEW v, Meet(g, k, i, f[j], v) PROVE Meet(g, k, i, j, v)
  <2>1. v \in N /\ DomWithin(g, k, v, j)
    <3>1. v \in N /\ DomWithin(g, k, v, f[j])
      BY <1>0, <1>4 DEF Meet
    <3> QED BY <1>2, <1>3, <3>1, WithinOrder
  <2>2. g.index[v] <= g.index[j]
    <3>1. g.index[v] <= g.index[f[j]] /\ g.index[v] \in Nat /\ g.index[f[j]] \in Nat /\ g.index[j] \in Nat
      BY <1>1, <1>2, <1>4, <2>1 DEF Meet
    <3> QED BY <1>3, <3>1
  <2>3. ASSUME NEW d \in N, Dom(g, d, i), Dom(g, d, j) PROVE Dom(g, d, v)
    <3>1. d # j
      <4>1. i # j /\ g.index[i] \in Nat /\ g.index[j] \in Nat
        BY <1>1
      <4> QED BY <2>3, <4>1, DomIndex
    <3>2. Dom(g, d, f[j])
      BY <1>0, <1>2, <2>3, <3>1 DEF Good
    <3> QED BY <1>0, <1>4, <2>3, <3>2 DEF Meet
  <2> QED BY <1>0, <1>4, <2>1, <2>2, <2>3 DEF Meet
<1> QED BY <1>1, <1>2, <1>3, <1>4

(* DomTreeBase::least_common_ancestor meets.                               *)
LEMMA FingersMeet ==
  ASSUME NEW N, NEW g, Numbered(g, N), NEW k \in Nat, NEW f \in GoodTrees(g, N, k)
  PROVE  \A i, j \in N : Meet(g, k, i, j, LeastCommonAncestor(g, f, i, j))
<1> DEFINE D == N \X N
           low(p) == g.index[p[1]] < g.index[p[2]]
           high(p) == g.index[p[2]] < g.index[p[1]]
           left(p) == <<p[1], f[p[2]]>>
           right(p) == <<f[p[1]], p[2]>>
           rank == [p \in D |-> g.index[p[1]] + g.index[p[2]]]
           step == [a \in D \X [D -> N] |->
                     IF low(a[1]) THEN a[2][left(a[1])] ELSE IF high(a[1]) THEN a[2][right(a[1])] ELSE a[1][1]]
<1>0. g.index \in [N -> Nat] /\ DOMAIN g.succs = N /\ Range(g.rpo) = N
  <2>1. DOMAIN g.succs = N /\ Range(g.rpo) = N
    BY DEF Numbered
  <2> QED BY <2>1, IndexFacts
<1>1. rank \in [D -> Nat] /\ \A p \in D : rank[p] = g.index[p[1]] + g.index[p[2]]
  BY <1>0
<1>2. ASSUME NEW p \in D, low(p)
      PROVE  left(p) \in D /\ rank[left(p)] < rank[p] /\ (\A v : Meet(g, k, p[1], f[p[2]], v) => Meet(g, k, p[1], p[2], v))
  <2>1. p[1] \in N /\ p[2] \in N
    OBVIOUS
  <2>2. f[p[2]] \in N /\ g.index[f[p[2]]] < g.index[p[2]]
        /\ \A v : Meet(g, k, p[1], f[p[2]], v) => Meet(g, k, p[1], p[2], v)
    BY <1>2, <2>1, MeetAbove
  <2>3. left(p) \in D /\ rank[left(p)] = g.index[p[1]] + g.index[f[p[2]]]
    BY <2>1, <2>2
  <2>4. rank[p] = g.index[p[1]] + g.index[p[2]]
    BY <1>1
  <2>5. g.index[p[1]] \in Nat /\ g.index[p[2]] \in Nat /\ g.index[f[p[2]]] \in Nat
    BY <1>0, <2>1, <2>2
  <2> QED BY <2>2, <2>3, <2>4, <2>5
<1>3. ASSUME NEW p \in D, high(p)
      PROVE  right(p) \in D /\ rank[right(p)] < rank[p] /\ (\A v : Meet(g, k, f[p[1]], p[2], v) => Meet(g, k, p[1], p[2], v))
  <2>1. p[1] \in N /\ p[2] \in N
    OBVIOUS
  <2>2. f[p[1]] \in N /\ g.index[f[p[1]]] < g.index[p[1]]
        /\ \A v : Meet(g, k, p[2], f[p[1]], v) => Meet(g, k, p[2], p[1], v)
    BY <1>3, <2>1, MeetAbove
  <2>3. right(p) \in D /\ rank[right(p)] = g.index[f[p[1]]] + g.index[p[2]]
    BY <2>1, <2>2
  <2>4. rank[p] = g.index[p[1]] + g.index[p[2]]
    BY <1>1
  <2>5. g.index[p[1]] \in Nat /\ g.index[p[2]] \in Nat /\ g.index[f[p[1]]] \in Nat
    BY <1>0, <2>1, <2>2
  <2>6. \A i, j, v : Meet(g, k, i, j, v) <=> Meet(g, k, j, i, v)
    BY DEF Meet
  <2> QED BY <2>2, <2>3, <2>4, <2>5, <2>6
<1> HIDE DEF rank
<1>4. \A p \in D, c \in [D -> N] :
        step[<<p, c>>] = IF low(p) THEN c[left(p)] ELSE IF high(p) THEN c[right(p)] ELSE p[1]
  OBVIOUS
<1> HIDE DEF step, left, right, low, high
<1>5. \A p \in D, c \in [D -> N] : step[<<p, c>>] \in N
  BY <1>2, <1>3, <1>4
<1>6. \A p \in D, c, e \in [D -> N] :
        (\A q \in D : rank[q] < rank[p] => c[q] = e[q]) => step[<<p, c>>] = step[<<p, e>>]
  BY <1>2, <1>3, <1>4
<1>7. N # {}
  BY DEF Numbered
<1>8. PICK c \in [D -> N] : Recursive(c, D, step)
  <2>1. rank \in [D -> Nat]
    BY <1>1
  <2> HIDE DEF D
  <2> QED BY <2>1, <1>5, <1>6, <1>7, RecursionExists, Zenon
<1> DEFINE Body(h, p) == CASE low(p) -> h[left(p)] [] high(p) -> h[right(p)]
                           [] g.index[p[1]] = g.index[p[2]] -> p[1]
           Loop(h) == [p \in D |-> Body(h, p)]
           h == CHOOSE e : e = Loop(e)
<1>9. ASSUME NEW p \in D PROVE g.index[p[1]] = g.index[p[2]] <=> ~low(p) /\ ~high(p)
  BY <1>0 DEF low, high
<1>a. ASSUME NEW p \in D PROVE ~(low(p) /\ high(p))
  BY <1>0 DEF low, high
<1>10. ASSUME NEW e, NEW p \in D
       PROVE  Loop(e)[p] = IF low(p) THEN e[left(p)] ELSE IF high(p) THEN e[right(p)] ELSE p[1]
  BY <1>9, <1>a
<1>b. \A e, p : p \in D => Loop(e)[p] = IF low(p) THEN e[left(p)] ELSE IF high(p) THEN e[right(p)] ELSE p[1]
  BY <1>10
<1> HIDE DEF Body
<1>c. \A e : Loop(e) = [p \in D |-> Loop(e)[p]]
  OBVIOUS
<1> HIDE DEF Loop
<1>11. c = Loop(c)
  <2>1. ASSUME NEW p \in D PROVE c[p] = Loop(c)[p]
    <3>1. c[p] = step[<<p, c>>]
      BY <1>8 DEF Recursive
    <3> HIDE DEF D
    <3> QED BY <1>4, <1>b, <3>1
  <2>2. c = [p \in D |-> c[p]]
    OBVIOUS
  <2>3. Loop(c) = [p \in D |-> Loop(c)[p]]
    BY <1>c
  <2> HIDE DEF D
  <2> QED BY <2>1, <2>2, <2>3
<1>12. h = Loop(h)
  BY <1>11
<1> HIDE DEF h
<1> DEFINE T == {p \in D : Meet(g, k, p[1], p[2], h[p])}
<1>13. ASSUME NEW p \in D, \A q \in D : rank[q] < rank[p] => q \in T PROVE p \in T
  <2>1. CASE low(p)
    <3>1. left(p) \in T /\ h[p] = h[left(p)]
      BY <1>2, <1>12, <1>13, <1>b, <2>1
    <3>2. Meet(g, k, p[1], f[p[2]], h[p])
      BY <3>1 DEF left
    <3> QED BY <1>2, <2>1, <3>2
  <2>2. CASE high(p)
    <3>1. right(p) \in T /\ h[p] = h[right(p)]
      BY <1>3, <1>12, <1>13, <1>a, <1>b, <2>2
    <3>2. Meet(g, k, f[p[1]], p[2], h[p])
      BY <3>1 DEF right
    <3> QED BY <1>3, <2>2, <3>2
  <2>3. CASE ~low(p) /\ ~high(p)
    <3>1. h[p] = p[1] /\ p[1] = p[2] /\ p[1] \in N
      BY <1>9, <1>12, <1>b, <2>3, IndexFacts
    <3>2. g.index[p[1]] \in Nat /\ DomWithin(g, k, p[1], p[1])
      BY <1>0, <3>1, WithinOrder
    <3> QED BY <1>0, <3>1, <3>2 DEF Meet
  <2> QED BY <2>1, <2>2, <2>3
<1>14. D \subseteq T
  <2>1. rank \in [D -> Nat]
    BY <1>1
  <2> HIDE DEF T, D
  <2> QED BY <2>1, <1>13, RankInduction
<1>15. ASSUME NEW i \in N, NEW j \in N PROVE Meet(g, k, i, j, LeastCommonAncestor(g, f, i, j))
  <2>1. LeastCommonAncestor(g, f, i, j) = h[<<i, j>>]
    BY <1>0 DEF LeastCommonAncestor, h, Loop, Body, low, high, left, right
  <2>2. <<i, j>> \in T
    BY <1>14
  <2> QED BY <2>1, <2>2
<1> QED BY <1>15

(* What all fingers of a sequence meet at.                                 *)
Common(g, k, s, v) ==
  /\ v \in DOMAIN g.succs
  /\ \A i \in 1 .. Len(s) : g.index[v] <= g.index[s[i]] /\ DomWithin(g, k, v, s[i])
  /\ \A d \in DOMAIN g.succs : (\A i \in 1 .. Len(s) : Dom(g, d, s[i])) => Dom(g, d, v)

(* The loop over them meets there.                                         *)
LEMMA AllMeet ==
  ASSUME NEW N, NEW g, Numbered(g, N), NEW k \in Nat, NEW f \in GoodTrees(g, N, k),
         NEW s \in Seq(N), Len(s) > 0
  PROVE  Common(g, k, s, CommonAncestor(g, f, s))
<1> DEFINE step == [p \in Range(g.rpo) \X Range(g.rpo) |-> LeastCommonAncestor(g, f, p[1], p[2])]
           t == Tail(s)
<1>0. DOMAIN g.succs = N /\ Range(g.rpo) = N
  BY DEF Numbered
<1>1. /\ Len(s) \in Nat /\ \A i \in 1 .. Len(s) : s[i] \in N
      /\ t \in Seq(N) /\ Len(t) = Len(s) - 1 /\ \A i \in 1 .. Len(t) : t[i] = s[i + 1]
      /\ Head(s) = s[1] /\ Head(s) \in N
  OBVIOUS
<1>2. \A i, j \in N : step[<<i, j>>] = LeastCommonAncestor(g, f, i, j)
  BY <1>0
<1>3. CommonAncestor(g, f, s) = Folded(step, Head(s), t)
  BY DEF CommonAncestor
<1>4. \A i, j \in N : Meet(g, k, i, j, step[<<i, j>>])
  <2>1. \A i, j \in N : Meet(g, k, i, j, LeastCommonAncestor(g, f, i, j))
    BY FingersMeet
  <2>2. ASSUME NEW i \in N, NEW j \in N PROVE Meet(g, k, i, j, step[<<i, j>>])
    <3>1. step[<<i, j>>] = LeastCommonAncestor(g, f, i, j)
      BY <1>2
    <3>2. Meet(g, k, i, j, LeastCommonAncestor(g, f, i, j))
      BY <2>1
    <3> QED BY <3>1, <3>2
  <2> QED BY <2>2
<1> HIDE DEF step, t
<1>5. \A v \in N, e \in N : step[<<v, e>>] \in N
  BY <1>0, <1>4 DEF Meet
<1>6. PICK h \in [Nat -> N] : Folds(h, step, Head(s), t)
  BY <1>1, <1>5, FoldedFacts, Zenon
<1> DEFINE all(d) == \A i \in 1 .. Len(s) : Dom(g, d, s[i])
           T == {j \in Nat : j <= Len(t) =>
                  /\ \A i \in 1 .. j + 1 : g.index[h[j]] <= g.index[s[i]] /\ DomWithin(g, k, h[j], s[i])
                  /\ \A d \in N : all(d) => Dom(g, d, h[j])}
<1>7. g.index \in [N -> Nat]
  BY IndexFacts
<1>8. 0 \in T
  <2>1. h[0] = s[1] /\ s[1] \in N
    BY <1>1, <1>6 DEF Folds
  <2>2. DomWithin(g, k, s[1], s[1]) /\ g.index[s[1]] \in Nat
    BY <1>7, <2>1, WithinOrder
  <2>3. \A i \in 1 .. 0 + 1 : i = 1
    OBVIOUS
  <2>4. 1 \in 1 .. Len(s)
    BY <1>1
  <2> QED BY <2>1, <2>2, <2>3, <2>4
<1>9. ASSUME NEW j \in Nat, j \in T PROVE j + 1 \in T
  <2> SUFFICES ASSUME j + 1 <= Len(t)
               PROVE  /\ \A i \in 1 .. (j + 1) + 1 : g.index[h[j + 1]] <= g.index[s[i]] /\ DomWithin(g, k, h[j + 1], s[i])
                      /\ \A d \in N : all(d) => Dom(g, d, h[j + 1])
    OBVIOUS
  <2>0. j < Len(t) /\ j + 1 \in 1 .. Len(t) /\ (j + 1) + 1 \in 1 .. Len(s)
    BY <1>1
  <2>1. /\ \A i \in 1 .. j + 1 : g.index[h[j]] <= g.index[s[i]] /\ DomWithin(g, k, h[j], s[i])
        /\ \A d \in N : all(d) => Dom(g, d, h[j])
    BY <1>9, <2>0
  <2> DEFINE e == s[(j + 1) + 1]
             v == h[j + 1]
             u == h[j]
  <2>2. h[j + 1] = step[<<h[j], t[j + 1]>>]
    BY <1>6, <2>0 DEF Folds
  <2>3. t[j + 1] = e
    BY <1>1, <2>0
  <2>4. v = step[<<u, e>>] /\ u \in N /\ e \in N /\ v \in N
    BY <1>1, <2>0, <2>2, <2>3
  <2> HIDE DEF u, v
  <2>5. Meet(g, k, u, e, v)
    BY <1>4, <2>4
  <2>6. ASSUME NEW i \in 1 .. (j + 1) + 1 PROVE g.index[v] <= g.index[s[i]] /\ DomWithin(g, k, v, s[i])
    <3>1. i \in 1 .. Len(s) /\ s[i] \in N
      BY <1>1, <2>0
    <3>2. g.index[v] \in Nat /\ g.index[s[i]] \in Nat /\ g.index[u] \in Nat
      BY <1>7, <2>4, <3>1
    <3>3. CASE i = (j + 1) + 1
      BY <2>5, <3>3 DEF Meet
    <3>4. CASE i # (j + 1) + 1
      <4>1. i \in 1 .. j + 1
        BY <3>4
      <4>2. g.index[u] <= g.index[s[i]] /\ DomWithin(g, k, u, s[i])
        BY <2>1, <4>1 DEF u
      <4>3. g.index[v] <= g.index[u] /\ DomWithin(g, k, v, u)
        BY <2>5 DEF Meet
      <4> QED BY <2>4, <3>1, <3>2, <4>2, <4>3, WithinOrder, SMTT(30)
    <3> QED BY <3>3, <3>4
  <2>7. ASSUME NEW d \in N, all(d) PROVE Dom(g, d, v)
    <3>1. Dom(g, d, u) /\ Dom(g, d, e)
      BY <2>0, <2>1, <2>7 DEF u
    <3> QED BY <1>0, <2>5, <3>1 DEF Meet
  <2> QED BY <2>6, <2>7 DEF v
<1> HIDE DEF T
<1>10. Len(t) \in T
  <2>1. Len(t) \in Nat
    BY <1>1
  <2> QED BY <1>8, <1>9, <2>1, NumberInduction
<1>11. Len(t) + 1 = Len(s) /\ Len(t) \in Nat /\ h[Len(t)] \in N
  BY <1>1
<1>12. CommonAncestor(g, f, s) = h[Len(t)]
  BY <1>3, <1>6 DEF Folds
<1> QED BY <1>0, <1>10, <1>11, <1>12 DEF Common, T

(* From the immediate dominators of a round to those of the next.          *)
LEMMA RoundImproves ==
  ASSUME NEW N, NEW g, Numbered(g, N), NEW k \in Nat, NEW f \in GoodTrees(g, N, k),
         NEW n \in N \ {g.entry}
  PROVE  LET v == CommonAncestor(g, f, SetToSeq(g.preds[n])) IN v \in N /\ Good(g, k + 1, n, v)
<1> DEFINE P == g.preds[n]
           s == SetToSeq(P)
           v == CommonAncestor(g, f, s)
<1>0. DOMAIN g.succs = N /\ g.index \in [N -> Nat]
  <2>1. DOMAIN g.succs = N
    BY DEF Numbered
  <2> QED BY <2>1, IndexFacts
<1>1. P = {m \in N : n \in g.succs[m]} /\ IsFiniteSet(P) /\ \E m \in P : g.index[m] < g.index[n]
  BY PredFacts
<1>2. s \in Seq(P) /\ Range(s) = P /\ Len(s) \in Nat
  <2> HIDE DEF P
  <2> QED BY <1>1, SetToSeqFacts
<1>3. P \in SUBSET N
  BY <1>1
<1> HIDE DEF P, s
<1>4. s \in Seq(N)
  BY <1>2, <1>3, SeqMonotonic
<1>5. \A p \in P : \E i \in 1 .. Len(s) : s[i] = p
  BY <1>2, <1>4 DEF Range
<1>6. \A i \in 1 .. Len(s) : s[i] \in P
  BY <1>2
<1>7. Len(s) > 0
  BY <1>1, <1>2, <1>5
<1>8. Common(g, k, s, v)
  <2> HIDE DEF v
  <2> QED BY <1>4, <1>7, AllMeet DEF v
<1> HIDE DEF v
<1>9. v \in N /\ \A p \in P : g.index[v] <= g.index[p] /\ DomWithin(g, k, v, p)
  BY <1>0, <1>5, <1>8 DEF Common
<1>10. g.index[v] < g.index[n]
  <2>1. PICK m \in P : g.index[m] < g.index[n]
    BY <1>1
  <2>2. g.index[v] <= g.index[m] /\ g.index[v] \in Nat /\ g.index[m] \in Nat /\ g.index[n] \in Nat
    BY <1>0, <1>3, <1>9
  <2> QED BY <2>1, <2>2
<1>11. DomWithin(g, k + 1, v, n)
  <2> DEFINE L == LevelsOf(g, v)
             T == {j \in Nat : j <= k + 1 => n \notin L[j]}
  <2>1. 0 \in T
    BY <1>9, LevelsOfFacts
  <2>2. ASSUME NEW j \in Nat, j \in T PROVE j + 1 \in T
    <3> SUFFICES ASSUME j + 1 <= k + 1, n \in L[j + 1] PROVE FALSE
      OBVIOUS
    <3>1. n \notin L[j]
      BY <2>2
    <3>2. PICK m \in L[j] : n \in g.succs[m]
      BY <1>9, <3>1, LevelsOfFacts
    <3>3. L[j] \subseteq L[k] /\ L[j] \subseteq N
      BY <1>9, LevelsOfFacts
    <3>4. m \in P
      BY <1>1, <3>2, <3>3
    <3> QED BY <1>9, <3>2, <3>3, <3>4 DEF DomWithin
  <2> HIDE DEF T
  <2>3. k + 1 \in T
    BY <2>1, <2>2, NumberInduction
  <2> QED BY <2>3 DEF T, DomWithin
<1>12. ASSUME NEW d \in N \ {n}, Dom(g, d, n) PROVE Dom(g, d, v)
  <2>1. \A p \in g.preds[n] : Dom(g, d, p)
    BY <1>12, DomPreds
  <2>2. \A i \in 1 .. Len(s) : Dom(g, d, s[i])
    BY <1>6, <2>1 DEF P
  <2> QED BY <1>0, <1>8, <2>2 DEF Common
<1>13. Good(g, k + 1, n, v)
  BY <1>0, <1>10, <1>11, <1>12 DEF Good
<1> QED BY <1>9, <1>13 DEF v, s, P

(* One round sees every node.                                              *)
LEMMA RoundFacts ==
  ASSUME NEW N, NEW g, Numbered(g, N), NEW k \in Nat, NEW f \in GoodTrees(g, N, k)
  PROVE  Round(g, f) \in GoodTrees(g, N, k + 1) /\ Round(g, f) \in GoodTrees(g, N, k)
<1> DEFINE O == N \ {g.entry}
           V == GoodTrees(g, N, k)
           s == Others(g)
           new(a, n) == CommonAncestor(g, a, SetToSeq(g.preds[n]))
           step == [a \in Trees(g) \X Range(Others(g)) |-> [a[1] EXCEPT ![a[2]] = new(a[1], a[2])]]
<1>0. s \in Seq(O) /\ Range(s) = O /\ Trees(g) = [O -> N] /\ DOMAIN g.succs = N
  <2>1. DOMAIN g.succs = N
    BY DEF Numbered
  <2> QED BY <2>1, OthersFacts
<1>1. ASSUME NEW n \in O, NEW v \in N, Good(g, k + 1, n, v) PROVE Good(g, k, n, v)
  <2>1. k + 1 \in Nat /\ k <= k + 1 /\ n \in N
    OBVIOUS
  <2>2. LevelsOf(g, v)[k] \subseteq LevelsOf(g, v)[k + 1]
    BY <2>1, LevelsOfFacts
  <2> QED BY <1>1, <2>2 DEF Good, DomWithin
<1>2. ASSUME NEW a \in V, NEW n \in O PROVE new(a, n) \in N /\ Good(g, k + 1, n, new(a, n)) /\ Good(g, k, n, new(a, n))
  BY <1>1, RoundImproves
<1>3. ASSUME NEW a \in V, NEW n \in O PROVE step[<<a, n>>] = [a EXCEPT ![n] = new(a, n)]
  <2>1. a \in Trees(g) /\ n \in Range(Others(g))
    BY <1>0 DEF GoodTrees
  <2> HIDE DEF new
  <2> QED BY <2>1
<1>4. Round(g, f) = Folded(step, f, s)
  BY DEF Round
<1> HIDE DEF step, new, s
<1>5. ASSUME NEW a \in V, NEW n \in O PROVE step[<<a, n>>] \in V
  <2> DEFINE x == new(a, n)
             b == [a EXCEPT ![n] = x]
  <2>1. a \in [O -> N] /\ x \in N /\ Good(g, k, n, x) /\ \A m \in O : Good(g, k, m, a[m])
    BY <1>2 DEF GoodTrees
  <2> HIDE DEF x
  <2>2. b \in [O -> N] /\ \A m \in O : b[m] = IF m = n THEN x ELSE a[m]
    BY <2>1
  <2>3. step[<<a, n>>] = b
    BY <1>3 DEF x
  <2> HIDE DEF b
  <2>4. \A m \in O : Good(g, k, m, b[m])
    BY <2>1, <2>2
  <2> QED BY <2>2, <2>3, <2>4 DEF GoodTrees
<1> HIDE DEF V
<1>6. PICK h \in [Nat -> V] : Folds(h, step, f, s)
  <2>1. f \in V
    BY DEF V
  <2>2. \A a \in V, n \in O : step[<<a, n>>] \in V
    BY <1>5
  <2>3. s \in Seq(O)
    BY <1>0
  <2> HIDE DEF O
  <2> QED BY <2>1, <2>2, <2>3, FoldedFacts, Zenon
<1> DEFINE T == {j \in Nat : j <= Len(s) => \A i \in 1 .. j : Good(g, k + 1, s[i], h[j][s[i]])}
<1>7. 0 \in T
  OBVIOUS
<1>8. ASSUME NEW j \in Nat, j \in T PROVE j + 1 \in T
  <2> SUFFICES ASSUME j + 1 <= Len(s), NEW i \in 1 .. j + 1 PROVE Good(g, k + 1, s[i], h[j + 1][s[i]])
    OBVIOUS
  <2>0. j < Len(s) /\ Len(s) \in Nat /\ j + 1 \in 1 .. Len(s) /\ i \in 1 .. Len(s)
    BY <1>0
  <2>1. s[j + 1] \in O /\ s[i] \in O /\ h[j] \in V
    BY <1>0, <2>0
  <2>2. h[j + 1] = step[<<h[j], s[j + 1]>>]
    BY <1>6, <2>0 DEF Folds
  <2>3. h[j + 1] = [h[j] EXCEPT ![s[j + 1]] = new(h[j], s[j + 1])]
    BY <1>3, <2>1, <2>2
  <2>4. Good(g, k + 1, s[j + 1], new(h[j], s[j + 1]))
    BY <1>2, <2>1
  <2>5. DOMAIN h[j] = O
    BY <2>1 DEF V, GoodTrees
  <2>6. CASE s[i] = s[j + 1]
    BY <2>1, <2>3, <2>4, <2>5, <2>6
  <2>7. CASE s[i] # s[j + 1]
    <3>1. i \in 1 .. j
      BY <2>7
    <3>2. Good(g, k + 1, s[i], h[j][s[i]])
      BY <1>8, <2>0, <3>1
    <3> QED BY <2>1, <2>3, <2>5, <2>7, <3>2
  <2> QED BY <2>6, <2>7
<1> HIDE DEF T
<1>9. Len(s) \in T /\ Len(s) \in Nat
  <2>1. Len(s) \in Nat
    BY <1>0
  <2> QED BY <1>7, <1>8, <2>1, NumberInduction
<1>10. Round(g, f) = h[Len(s)] /\ h[Len(s)] \in V
  BY <1>4, <1>6, <1>9 DEF Folds
<1>11. \A n \in O : \E i \in 1 .. Len(s) : s[i] = n
  BY <1>0 DEF Range
<1>12. \A n \in O : Good(g, k + 1, n, Round(g, f)[n])
  BY <1>9, <1>10, <1>11 DEF T
<1>13. Round(g, f) \in GoodTrees(g, N, k)
  BY <1>10 DEF V
<1> QED BY <1>12, <1>13 DEF GoodTrees

(* Where the fix point begins.                                             *)
LEMMA FirstIdomsFacts ==
  ASSUME NEW N, NEW g, Numbered(g, N)
  PROVE  FirstIdoms(g) \in GoodTrees(g, N, 0)
<1> DEFINE O == N \ {g.entry}
           first(n) == CHOOSE m \in g.preds[n] : g.index[m] < g.index[n]
<1>1. DOMAIN g.succs = N
  BY DEF Numbered
<1>2. ASSUME NEW n \in O PROVE first(n) \in N /\ Good(g, 0, n, first(n))
  <2>1. g.preds[n] = {m \in N : n \in g.succs[m]} /\ \E m \in g.preds[n] : g.index[m] < g.index[n]
    BY PredFacts
  <2>2. first(n) \in g.preds[n] /\ g.index[first(n)] < g.index[n]
    BY <2>1
  <2> HIDE DEF first
  <2>3. DomWithin(g, 0, first(n), n)
    BY <2>1, <2>2, LevelsOfFacts DEF DomWithin
  <2>4. \A d \in N \ {n} : Dom(g, d, n) => Dom(g, d, first(n))
    BY <2>2, DomPreds
  <2> QED BY <1>1, <2>1, <2>2, <2>3, <2>4 DEF Good
<1>3. FirstIdoms(g) = [n \in O |-> first(n)]
  BY OthersFacts DEF FirstIdoms
<1> HIDE DEF first
<1> QED BY <1>2, <1>3 DEF GoodTrees

(* Every node but the entry has its nearest strict dominator.              *)
IdomTree(g, N, f) ==
  /\ f \in [N \ {g.entry} -> N]
  /\ \A n \in N \ {g.entry} :
       /\ g.index[f[n]] < g.index[n]
       /\ Dom(g, f[n], n)
       /\ \A d \in N \ {n} : Dom(g, d, n) => Dom(g, d, f[n])

(* There is one such tree.                                                 *)
LEMMA OneIdomTree ==
  ASSUME NEW N, NEW g, Numbered(g, N), NEW e, NEW f, IdomTree(g, N, e), IdomTree(g, N, f)
  PROVE  e = f
<1>0. g.index \in [N -> Nat]
  BY IndexFacts
<1>1. ASSUME NEW n \in N \ {g.entry} PROVE e[n] = f[n]
  <2>1. /\ e[n] \in N /\ Dom(g, e[n], n) /\ e[n] # n /\ (\A d \in N \ {n} : Dom(g, d, n) => Dom(g, d, e[n]))
        /\ f[n] \in N /\ Dom(g, f[n], n) /\ f[n] # n /\ (\A d \in N \ {n} : Dom(g, d, n) => Dom(g, d, f[n]))
    BY <1>0 DEF IdomTree
  <2>2. Dom(g, e[n], f[n]) /\ Dom(g, f[n], e[n])
    BY <2>1
  <2>3. e[n] # f[n] => g.index[e[n]] < g.index[f[n]] /\ g.index[f[n]] < g.index[e[n]]
    BY <2>1, <2>2, DomIndex
  <2>4. g.index[e[n]] \in Nat /\ g.index[f[n]] \in Nat
    BY <1>0, <2>1
  <2> QED BY <2>3, <2>4
<1>2. e \in [N \ {g.entry} -> N] /\ f \in [N \ {g.entry} -> N]
  BY DEF IdomTree
<1> QED BY <1>1, <1>2

(* create ends, and with the nearest dominators.                           *)
LEMMA IdomsFacts ==
  ASSUME NEW N, NEW g, Numbered(g, N)
  PROVE  IdomTree(g, N, Idoms(g))
<1> DEFINE V == GoodTrees(g, N, 0)
           start == FirstIdoms(g)
           step == [f \in Trees(g) |-> Round(g, f)]
           r(k) == Iterated(step, k, start)
<1>0. Exit \in Nat /\ Exit + 1 \in Nat
  BY NodesFinite
<1>1. \A f \in V : step[f] = Round(g, f)
  <2>1. Trees(g) = [N \ {g.entry} -> N]
    BY OthersFacts
  <2> QED BY <2>1 DEF GoodTrees
<1>2. start \in V
  BY FirstIdomsFacts
<1>3. Idoms(g) = r(CHOOSE k \in 0 .. Exit : r(k + 1) = r(k))
  BY DEF Idoms
<1> HIDE DEF V, step, start
<1>4. \A f \in V : step[f] \in V
  BY <1>1, RoundFacts DEF V
<1>a. PICK h \in [Nat -> V] : Iterates(h, step, start)
  BY <1>2, <1>4, IteratedFacts, Zenon
<1>5. h[0] = start /\ (\A k \in Nat : h[k + 1] = step[h[k]]) /\ \A k \in Nat : r(k) = h[k]
  BY <1>a DEF Iterates
<1> DEFINE G == {k \in Nat : h[k] \in GoodTrees(g, N, k)}
<1>6. 0 \in G
  BY <1>2, <1>5 DEF V
<1>7. ASSUME NEW k \in Nat, k \in G PROVE k + 1 \in G
  <2>1. h[k] \in V /\ h[k] \in GoodTrees(g, N, k)
    BY <1>7
  <2>2. h[k + 1] = Round(g, h[k])
    BY <1>1, <1>5, <2>1
  <2> QED BY <2>1, <2>2, RoundFacts
<1> HIDE DEF G
<1>8. Exit \in G /\ Exit + 1 \in G
  BY <1>0, <1>6, <1>7, NumberInduction
<1>9. ASSUME NEW f \in GoodTrees(g, N, Exit) PROVE IdomTree(g, N, f)
  <2>1. f \in [N \ {g.entry} -> N] /\ DOMAIN g.succs = N
    BY DEF GoodTrees, Numbered
  <2>2. ASSUME NEW n \in N \ {g.entry}
        PROVE  /\ g.index[f[n]] < g.index[n]
               /\ Dom(g, f[n], n)
               /\ \A d \in N \ {n} : Dom(g, d, n) => Dom(g, d, f[n])
    <3>1. f[n] \in N /\ Good(g, Exit, n, f[n])
      BY <2>1 DEF GoodTrees
    <3>2. LevelsOf(g, f[n])[Exit] = Reach(g, f[n])
      BY <3>1, LevelsOfFacts
    <3> QED BY <2>1, <3>1, <3>2 DEF Good, DomWithin, Dom
  <2> QED BY <2>1, <2>2 DEF IdomTree
<1>10. h[Exit] \in GoodTrees(g, N, Exit) /\ h[Exit + 1] \in GoodTrees(g, N, Exit)
  <2>1. h[Exit] \in GoodTrees(g, N, Exit) /\ h[Exit] \in V
    BY <1>0, <1>8 DEF G
  <2>2. h[Exit + 1] = Round(g, h[Exit])
    BY <1>0, <1>1, <1>5, <2>1
  <2> QED BY <1>0, <2>1, <2>2, RoundFacts
<1>11. h[Exit + 1] = h[Exit] /\ IdomTree(g, N, h[Exit])
  BY <1>9, <1>10, OneIdomTree
<1> DEFINE k == CHOOSE i \in 0 .. Exit : r(i + 1) = r(i)
<1>12. k \in 0 .. Exit /\ h[k + 1] = h[k]
  <2>1. r(Exit + 1) = r(Exit) /\ Exit \in 0 .. Exit
    BY <1>0, <1>5, <1>11
  <2>2. k \in 0 .. Exit /\ r(k + 1) = r(k)
    <3> HIDE DEF r
    <3> QED BY <2>1
  <2>3. k \in Nat /\ k + 1 \in Nat
    BY <1>0, <2>2
  <2> QED BY <1>5, <2>2, <2>3
<1>13. Idoms(g) = h[k]
  BY <1>0, <1>3, <1>5, <1>12
<1> HIDE DEF k
<1> DEFINE S == {i \in Nat : h[k + i] = h[k]}
<1>14. 0 \in S
  BY <1>12
<1>15. ASSUME NEW i \in Nat, i \in S PROVE i + 1 \in S
  <2>1. k \in Nat /\ k + i \in Nat /\ k + (i + 1) = (k + i) + 1
    BY <1>12
  <2>2. h[(k + i) + 1] = step[h[k + i]] /\ h[k + 1] = step[h[k]]
    BY <1>5, <2>1
  <2> QED BY <1>12, <1>15, <2>1, <2>2
<1> HIDE DEF S
<1>16. Exit - k \in S
  <2>1. Exit - k \in Nat
    BY <1>0, <1>12
  <2> QED BY <1>14, <1>15, <2>1, NumberInduction
<1>17. h[k] = h[Exit]
  <2>1. k + (Exit - k) = Exit
    BY <1>0, <1>12
  <2> QED BY <1>16, <2>1 DEF S
<1> QED BY <1>11, <1>13, <1>17

-----------------------------------------------------------------------------
(* The dominance frontier.                                                 *)

(* Only the entry dominates the entry.                                     *)
LEMMA AboveEntry ==
  ASSUME NEW N, NEW g, Numbered(g, N), NEW d \in N
  PROVE  Dom(g, d, g.entry) <=> d = g.entry
<1>1. g.entry \in N
  BY DEF Numbered
<1> QED BY <1>1, ReachFacts, DomOrder DEF Dom

(* The dominators of a node are the node and those of its immediate one.   *)
LEMMA DomTree ==
  ASSUME NEW N, NEW g, Numbered(g, N), NEW f, IdomTree(g, N, f), NEW n \in N \ {g.entry}
  PROVE  /\ f[n] \in N /\ f[n] # n /\ g.index[f[n]] < g.index[n]
         /\ \A m \in N : Dom(g, m, n) <=> m = n \/ Dom(g, m, f[n])
         /\ \A m \in N : Dom(g, m, f[n]) <=> m # n /\ Dom(g, m, n)
<1>1. /\ f[n] \in N /\ g.index[f[n]] < g.index[n] /\ Dom(g, f[n], n)
      /\ \A d \in N \ {n} : Dom(g, d, n) => Dom(g, d, f[n])
  BY DEF IdomTree
<1>2. g.index \in [N -> Nat]
  BY IndexFacts
<1>3. f[n] # n
  BY <1>1, <1>2
<1>4. \A m \in N : Dom(g, m, f[n]) => Dom(g, m, n)
  BY <1>1, DomOrder
<1>5. Dom(g, n, n)
  BY DomOrder
<1>6. ~Dom(g, n, f[n])
  <2>1. Dom(g, n, f[n]) => g.index[n] < g.index[f[n]]
    BY <1>1, <1>3, DomIndex
  <2>2. g.index[n] \in Nat /\ g.index[f[n]] \in Nat
    BY <1>1, <1>2
  <2> QED BY <1>1, <2>1, <2>2
<1> QED BY <1>1, <1>3, <1>4, <1>5, <1>6

(* Above collects the dominators of n that do not dominate stop.           *)
LEMMA AboveFacts ==
  ASSUME NEW N, NEW g, Numbered(g, N), NEW f, IdomTree(g, N, f), NEW stop \in N
  PROVE  \A n \in N : Dom(g, stop, n) => Above(g, f, n, stop) = {m \in N : Dom(g, m, n) /\ ~Dom(g, m, stop)}
<1> DEFINE ends(m) == m \in {stop, g.entry}
           step == [a \in N \X [N -> SUBSET N] |-> IF ends(a[1]) THEN {} ELSE {a[1]} \cup a[2][f[a[1]]]]
           Loop(h) == [m \in N |-> IF ends(m) THEN {} ELSE {m} \cup h[f[m]]]
           h == CHOOSE e : e = Loop(e)
<1>0. g.index \in [N -> Nat] /\ N # {} /\ Range(g.rpo) = N
  <2>1. N # {} /\ Range(g.rpo) = N
    BY DEF Numbered
  <2> QED BY <2>1, IndexFacts
<1>1. \A m \in N : ~ends(m) => f[m] \in N /\ g.index[f[m]] < g.index[m]
  BY DomTree
<1>2. \A m \in N, c \in [N -> SUBSET N] : step[<<m, c>>] = IF ends(m) THEN {} ELSE {m} \cup c[f[m]]
  OBVIOUS
<1> HIDE DEF step, ends
<1>3. ASSUME NEW m \in N, NEW c \in [N -> SUBSET N] PROVE step[<<m, c>>] \in SUBSET N
  BY <1>1, <1>2
<1>4. ASSUME NEW m \in N, NEW c \in [N -> SUBSET N], NEW e \in [N -> SUBSET N],
             \A q \in N : g.index[q] < g.index[m] => c[q] = e[q]
      PROVE  step[<<m, c>>] = step[<<m, e>>]
  <2>1. ~ends(m) => c[f[m]] = e[f[m]]
    BY <1>1, <1>4
  <2>2. step[<<m, c>>] = IF ends(m) THEN {} ELSE {m} \cup c[f[m]]
    BY <1>2
  <2>3. step[<<m, e>>] = IF ends(m) THEN {} ELSE {m} \cup e[f[m]]
    BY <1>2
  <2> QED BY <2>1, <2>2, <2>3
<1>5. PICK c \in [N -> SUBSET N] : Recursive(c, N, step)
  <2> DEFINE V == SUBSET N
             rank == g.index
  <2>1. rank \in [N -> Nat] /\ V # {}
    BY <1>0
  <2>2. \A m \in N, e \in [N -> V] : step[<<m, e>>] \in V
    BY <1>3
  <2>3. \A m \in N, e, b \in [N -> V] :
          (\A q \in N : rank[q] < rank[m] => e[q] = b[q]) => step[<<m, e>>] = step[<<m, b>>]
    BY <1>4
  <2> HIDE DEF V, rank
  <2>4. \E e \in [N -> V] : Recursive(e, N, step)
    BY <2>1, <2>2, <2>3, RecursionExists, Zenon
  <2> QED BY <2>4 DEF V
<1>6. \A m \in N : c[m] = IF ends(m) THEN {} ELSE {m} \cup c[f[m]]
  BY <1>2, <1>5 DEF Recursive
<1>7. c = Loop(c)
  BY <1>6
<1>8. \A e : e = Loop(e) => \A m \in N : e[m] = IF ends(m) THEN {} ELSE {m} \cup e[f[m]]
  <2> SUFFICES ASSUME NEW e, e = Loop(e), NEW m \in N
               PROVE  e[m] = IF ends(m) THEN {} ELSE {m} \cup e[f[m]]
    OBVIOUS
  <2>1. Loop(e)[m] = IF ends(m) THEN {} ELSE {m} \cup e[f[m]]
    OBVIOUS
  <2> HIDE DEF Loop
  <2> QED BY <2>1
<1>9. \A n : Above(g, f, n, stop) = h[n]
  BY <1>0 DEF Above, h, Loop, ends
<1> HIDE DEF Loop
<1>10. h = Loop(h)
  BY <1>7
<1>11. \A m \in N : h[m] = IF ends(m) THEN {} ELSE {m} \cup h[f[m]]
  BY <1>8, <1>10
<1> HIDE DEF h
<1> DEFINE T == {n \in N : Dom(g, stop, n) => h[n] = {m \in N : Dom(g, m, n) /\ ~Dom(g, m, stop)}}
<1>12. ASSUME NEW n \in N, \A m \in N : g.index[m] < g.index[n] => m \in T PROVE n \in T
  <2> SUFFICES ASSUME Dom(g, stop, n) PROVE h[n] = {m \in N : Dom(g, m, n) /\ ~Dom(g, m, stop)}
    OBVIOUS
  <2>1. CASE n = stop
    BY <1>11, <2>1 DEF ends
  <2>2. CASE n # stop
    <3>1. n # g.entry
      BY <2>2, AboveEntry
    <3>2. /\ f[n] \in N /\ g.index[f[n]] < g.index[n]
          /\ \A m \in N : Dom(g, m, n) <=> m = n \/ Dom(g, m, f[n])
      BY <3>1, DomTree
    <3>3. h[f[n]] = {m \in N : Dom(g, m, f[n]) /\ ~Dom(g, m, stop)}
      BY <1>12, <2>2, <3>2
    <3>4. h[n] = {n} \cup h[f[n]]
      BY <1>11, <2>2, <3>1 DEF ends
    <3>5. ~Dom(g, n, stop)
      <4>1. g.index[stop] < g.index[n]
        BY <2>2, DomIndex
      <4>2. Dom(g, n, stop) => g.index[n] < g.index[stop]
        BY <2>2, DomIndex
      <4> QED BY <1>0, <4>1, <4>2
    <3> QED BY <3>2, <3>3, <3>4, <3>5
  <2> QED BY <2>1, <2>2
<1> HIDE DEF T
<1>13. N \subseteq T
  BY <1>0, <1>12, RankInduction
<1> QED BY <1>9, <1>13 DEF T

(* The pairs found are those of the definition by paths.                   *)
LEMMA FrontierFacts ==
  ASSUME NEW N, NEW g, Numbered(g, N), NEW f, IdomTree(g, N, f)
  PROVE  Frontier(g, f) = {e \in N \X (N \ {g.entry}) :
                             /\ e[1] = e[2] \/ ~Dom(g, e[1], e[2])
                             /\ \E p \in g.preds[e[2]] : Dom(g, e[1], p)}
<1>0. Range(g.rpo) = N /\ Range(Others(g)) = N \ {g.entry}
  <2>1. Range(g.rpo) = N
    BY DEF Numbered
  <2> QED BY <2>1, OthersFacts
<1>1. ASSUME NEW m \in N, NEW n \in N \ {g.entry}
      PROVE  (Cardinality(g.preds[n]) > 1 /\ \E p \in g.preds[n] : m \in Above(g, f, p, f[n]))
               <=> (m = n \/ ~Dom(g, m, n)) /\ \E p \in g.preds[n] : Dom(g, m, p)
  <2> DEFINE P == g.preds[n]
             v == f[n]
  <2>1. P = {q \in N : n \in g.succs[q]} /\ IsFiniteSet(P) /\ \E q \in P : g.index[q] < g.index[n]
    BY PredFacts
  <2>2. v \in N /\ v # n /\ (\A q \in N : Dom(g, q, v) <=> q # n /\ Dom(g, q, n))
    BY DomTree
  <2>3. \A q \in P : q \in N /\ Dom(g, v, q)
    <3>1. Dom(g, v, n)
      BY <2>2, DomOrder
    <3> QED BY <2>1, <2>2, <3>1, DomPreds
  <2>4. \A q \in P : Above(g, f, q, v) = {d \in N : Dom(g, d, q) /\ ~Dom(g, d, v)}
    BY <2>2, <2>3, AboveFacts
  <2>5. ASSUME NEW q \in P, Dom(g, m, q), ~Dom(g, m, v) PROVE Cardinality(P) > 1
    <3> SUFFICES ASSUME ~(Cardinality(P) > 1) PROVE FALSE
      OBVIOUS
    <3> HIDE DEF P
    <3>1. /\ Len(SetToSeq(P)) = Cardinality(P) /\ Cardinality(P) \in Nat /\ SetToSeq(P) \in Seq(P)
          /\ Range(SetToSeq(P)) = P
      BY <2>1, SetToSeqFacts
    <3>2. \A a, b \in P : a = b
      <4>1. DOMAIN SetToSeq(P) \subseteq {1}
        BY <3>1
      <4> QED BY <3>1, <4>1 DEF Range
    <3>3. g.index[q] < g.index[n] /\ q \in N
      BY <2>1, <2>3, <3>2
    <3>4. q # n
      <4>1. g.index[n] \in Nat
        BY IndexFacts
      <4> QED BY <3>3, <4>1
    <3>5. Dom(g, q, q)
      BY <3>3, DomOrder
    <3>6. \A a \in g.preds[n] : Dom(g, q, a)
      BY <3>2, <3>5 DEF P
    <3>7. Dom(g, q, n)
      BY <3>3, <3>4, <3>6, DomPreds
    <3>8. Dom(g, q, v)
      BY <2>2, <3>3, <3>4, <3>7
    <3> QED BY <2>2, <2>5, <3>3, <3>8, DomOrder
  <2>6. (m = n \/ ~Dom(g, m, n)) <=> ~Dom(g, m, v)
    BY <2>2
  <2>7. \A q \in P : m \in Above(g, f, q, v) <=> Dom(g, m, q) /\ ~Dom(g, m, v)
    BY <2>4
  <2> HIDE DEF P, v
  <2>8. (Cardinality(P) > 1 /\ \E q \in P : m \in Above(g, f, q, v))
          <=> (m = n \/ ~Dom(g, m, n)) /\ \E q \in P : Dom(g, m, q)
    BY <2>5, <2>6, <2>7
  <2> QED BY <2>8 DEF P, v
<1> QED BY <1>0, <1>1 DEF Frontier

-----------------------------------------------------------------------------
(* The numbering by CFG::post_order_visit.                                 *)

(* During the search: what is seen is on the stack or numbered, each once; *)
(* the stack is a path from the entry; what a numbered node leads to is    *)
(* seen, and it is led to from before it or from the stack.                *)
Dfs(N, succs, entry, stack, seen, rpo) ==
  /\ stack \in Seq(N) /\ rpo \in Seq(N) /\ seen \in SUBSET N /\ entry \in seen
  /\ \A n \in seen : n \in Range(stack) \/ n \in Range(rpo)
  /\ \A i \in 1 .. Len(stack) : stack[i] \in seen
  /\ \A i \in 1 .. Len(rpo) : rpo[i] \in seen
  /\ \A i, j \in 1 .. Len(stack) : stack[i] = stack[j] => i = j
  /\ \A i, j \in 1 .. Len(rpo) : rpo[i] = rpo[j] => i = j
  /\ \A i \in 1 .. Len(stack), j \in 1 .. Len(rpo) : stack[i] # rpo[j]
  /\ Len(stack) > 0 => stack[1] = entry
  /\ Len(stack) = 0 => Len(rpo) > 0 /\ rpo[1] = entry
  /\ \A i \in 2 .. Len(stack) : stack[i] \in succs[stack[i - 1]]
  /\ \A i \in 1 .. Len(rpo) : succs[rpo[i]] \subseteq seen
  /\ \A i \in 1 .. Len(rpo) :
       \/ rpo[i] = entry
       \/ \E j \in 1 .. i - 1 : rpo[i] \in succs[rpo[j]]
       \/ \E j \in 1 .. Len(stack) : rpo[i] \in succs[stack[j]]

(* A sequence without its last element.                                    *)
LEMMA FrontFacts ==
  ASSUME NEW S, NEW s \in Seq(S), s # << >>
  PROVE  /\ Len(s) \in Nat /\ Len(s) > 0 /\ Last(s) = s[Len(s)] /\ Last(s) \in S
         /\ Front(s) \in Seq(S) /\ Len(Front(s)) = Len(s) - 1
         /\ \A i \in 1 .. Len(s) - 1 : Front(s)[i] = s[i]
<1> DEFINE m == Len(s) - 1
           t == SubSeq(s, 1, m)
<1>1. Len(s) \in Nat /\ Len(s) > 0 /\ Last(s) = s[Len(s)] /\ Last(s) \in S
  BY DEF Last
<1>2. m \in Nat /\ 1 \in Int /\ \A i \in 1 .. m : s[i] \in S
  BY <1>1
<1> HIDE DEF m
<1>3. /\ t \in Seq(S) /\ Len(t) = IF 1 <= m THEN m - 1 + 1 ELSE 0
      /\ \A i \in 1 .. m - 1 + 1 : t[i] = s[1 + i - 1]
  <2>1. m \in Int
    BY <1>2
  <2> QED BY <1>2, <2>1, SubSeqProperties
<1> HIDE DEF t
<1>4. Len(t) = m
  BY <1>2, <1>3
<1>5. \A i \in 1 .. m : i \in 1 .. m - 1 + 1 /\ 1 + i - 1 = i
  BY <1>2
<1> QED BY <1>1, <1>3, <1>4, <1>5 DEF Front, m, t

(* A node is visited.                                                      *)
LEMMA DfsPush ==
  ASSUME NEW N, NEW succs \in [N -> SUBSET N], NEW entry, NEW stack, NEW seen, NEW rpo,
         Dfs(N, succs, entry, stack, seen, rpo), stack # << >>,
         NEW m \in succs[Last(stack)] \ seen
  PROVE  Dfs(N, succs, entry, Append(stack, m), seen \cup {m}, rpo)
<1> DEFINE k == Len(stack)
           s == Append(stack, m)
<1>1. /\ stack \in Seq(N) /\ rpo \in Seq(N) /\ seen \in SUBSET N /\ entry \in seen
      /\ k \in Nat /\ k > 0 /\ Last(stack) = stack[k] /\ stack[k] \in N /\ m \in N
  <2>1. stack \in Seq(N) /\ rpo \in Seq(N) /\ seen \in SUBSET N /\ entry \in seen
    BY DEF Dfs
  <2>2. k \in Nat /\ k > 0 /\ stack[k] \in N
    BY <2>1
  <2>3. Last(stack) = stack[k]
    BY DEF Last
  <2> QED BY <2>1, <2>2, <2>3
<1>2. /\ s \in Seq(N) /\ Len(s) = k + 1 /\ s[k + 1] = m
      /\ \A i \in 1 .. k : s[i] = stack[i]
  BY <1>1, AppendProperties
<1>3. Range(s) = Range(stack) \cup {m}
  BY <1>1, <1>2 DEF Range
<1>4. \A i \in 1 .. k : stack[i] \in seen /\ stack[i] # m
  BY <1>1 DEF Dfs
<1>5. \A i \in 1 .. Len(rpo) : rpo[i] \in seen /\ rpo[i] # m
  BY <1>1 DEF Dfs
<1> HIDE DEF s, k
<1>6. \A i \in 1 .. k + 1 : (i \in 1 .. k /\ s[i] = stack[i]) \/ (i = k + 1 /\ s[i] = m)
  BY <1>1, <1>2
<1>7. \A n \in seen \cup {m} : n \in Range(s) \/ n \in Range(rpo)
  BY <1>3 DEF Dfs
<1>8. \A i \in 1 .. k + 1 : s[i] \in seen \cup {m}
  BY <1>4, <1>6
<1>9. \A i, j \in 1 .. k + 1 : s[i] = s[j] => i = j
  BY <1>4, <1>6 DEF Dfs, k
<1>10. \A i \in 1 .. k + 1, j \in 1 .. Len(rpo) : s[i] # rpo[j]
  BY <1>5, <1>6 DEF Dfs, k
<1>11. s[1] = entry
  <2>1. 1 \in 1 .. k
    BY <1>1
  <2> QED BY <1>1, <1>2, <2>1 DEF Dfs, k
<1>12. ASSUME NEW i \in 2 .. k + 1 PROVE s[i] \in succs[s[i - 1]]
  <2>1. i - 1 \in 1 .. k /\ s[i - 1] = stack[i - 1]
    BY <1>1, <1>2
  <2>2. CASE i = k + 1
    BY <1>1, <1>2, <2>1, <2>2
  <2>3. CASE i # k + 1
    <3>1. i \in 2 .. k /\ i \in 1 .. k
      BY <1>1, <2>3
    <3> QED BY <1>2, <2>1, <3>1 DEF Dfs, k
  <2> QED BY <2>2, <2>3
<1>13. \A i \in 1 .. Len(rpo) : succs[rpo[i]] \subseteq seen \cup {m}
  BY DEF Dfs
<1>14. ASSUME NEW i \in 1 .. Len(rpo)
       PROVE  \/ rpo[i] = entry
              \/ \E j \in 1 .. i - 1 : rpo[i] \in succs[rpo[j]]
              \/ \E j \in 1 .. Len(s) : rpo[i] \in succs[s[j]]
  <2>1. \/ rpo[i] = entry
        \/ \E j \in 1 .. i - 1 : rpo[i] \in succs[rpo[j]]
        \/ \E j \in 1 .. k : rpo[i] \in succs[stack[j]]
    BY DEF Dfs, k
  <2>2. \A j \in 1 .. k : j \in 1 .. Len(s) /\ s[j] = stack[j]
    BY <1>1, <1>2
  <2> QED BY <2>1, <2>2
<1>15. \A i, j \in 1 .. Len(rpo) : rpo[i] = rpo[j] => i = j
  BY DEF Dfs
<1>16. Len(s) > 0 /\ Len(s) # 0
  BY <1>1, <1>2
<1> QED
  <2>1. /\ s \in Seq(N) /\ rpo \in Seq(N) /\ seen \cup {m} \in SUBSET N /\ entry \in seen \cup {m}
        /\ \A i \in 1 .. Len(rpo) : rpo[i] \in seen \cup {m}
    BY <1>1, <1>2, <1>5
  <2>2. Len(s) = k + 1
    BY <1>2
  <2> HIDE <1>1, <1>2
  <2>3. Dfs(N, succs, entry, s, seen \cup {m}, rpo)
    BY <1>7, <1>8, <1>9, <1>10, <1>11, <1>12, <1>13, <1>14, <1>15, <1>16, <2>1, <2>2 DEF Dfs
  <2> QED BY <2>3 DEF s

(* The visit of a node ends.                                               *)
LEMMA DfsPop ==
  ASSUME NEW N, NEW succs \in [N -> SUBSET N], NEW entry, NEW stack, NEW seen, NEW rpo,
         Dfs(N, succs, entry, stack, seen, rpo), stack # << >>, succs[Last(stack)] \subseteq seen
  PROVE  Dfs(N, succs, entry, Front(stack), seen, <<Last(stack)>> \o rpo)
<1> DEFINE k == Len(stack)
           n == stack[k]
           s == Front(stack)
           r == <<n>> \o rpo
<1>1. /\ stack \in Seq(N) /\ rpo \in Seq(N) /\ seen \in SUBSET N /\ entry \in seen
      /\ k \in Nat /\ k > 0 /\ Last(stack) = n /\ n \in N /\ Len(rpo) \in Nat
  <2>1. stack \in Seq(N) /\ rpo \in Seq(N) /\ seen \in SUBSET N /\ entry \in seen
    BY DEF Dfs
  <2>2. k \in Nat /\ k > 0 /\ stack[k] \in N /\ Len(rpo) \in Nat
    BY <2>1
  <2>3. Last(stack) = stack[k]
    BY DEF Last
  <2> QED BY <2>1, <2>2, <2>3
<1>2. s \in Seq(N) /\ Len(s) = k - 1 /\ \A i \in 1 .. k - 1 : s[i] = stack[i]
  <2>1. stack \in Seq(N)
    BY <1>1
  <2> QED BY <2>1, FrontFacts
<1>3. r \in Seq(N) /\ Len(r) = Len(rpo) + 1 /\ r[1] = n /\ \A i \in 1 .. Len(rpo) : r[i + 1] = rpo[i]
  BY <1>1
<1>4. k \in 1 .. k /\ n \in seen
  BY <1>1 DEF Dfs
<1>5. succs[n] \subseteq seen
  BY <1>1
<1> HIDE DEF s, r
<1>6. \A i \in 1 .. Len(r) : (i = 1 /\ r[i] = n) \/ (i - 1 \in 1 .. Len(rpo) /\ r[i] = rpo[i - 1])
  <2> SUFFICES ASSUME NEW i \in 1 .. Len(r), i # 1 PROVE i - 1 \in 1 .. Len(rpo) /\ r[i] = rpo[i - 1]
    BY <1>3
  <2>1. i - 1 \in 1 .. Len(rpo) /\ (i - 1) + 1 = i
    BY <1>1, <1>3
  <2> QED BY <1>3, <2>1
<1>7. \A i \in 1 .. Len(s) : i \in 1 .. k /\ i # k /\ s[i] = stack[i]
  BY <1>1, <1>2
<1>8. ASSUME NEW m \in seen PROVE m \in Range(s) \/ m \in Range(r)
  <2>1. m \in Range(stack) \/ m \in Range(rpo)
    BY DEF Dfs
  <2>2. CASE m \in Range(stack)
    <3>1. PICK i \in 1 .. k : stack[i] = m
      BY <1>1, <2>2 DEF Range
    <3>2. CASE i = k
      <4>1. 1 \in DOMAIN r
        BY <1>1, <1>3
      <4> QED BY <1>3, <3>1, <3>2, <4>1 DEF Range
    <3>3. CASE i # k
      <4>1. i \in 1 .. k - 1 /\ DOMAIN s = 1 .. Len(s)
        BY <1>1, <1>2, <3>1, <3>3
      <4>2. i \in DOMAIN s /\ s[i] = m
        BY <1>2, <3>1, <4>1
      <4> QED BY <4>2 DEF Range
    <3> QED BY <3>2, <3>3
  <2>3. CASE m \in Range(rpo)
    <3>1. PICK i \in 1 .. Len(rpo) : rpo[i] = m
      BY <1>1, <2>3 DEF Range
    <3>2. i + 1 \in DOMAIN r /\ r[i + 1] = m
      BY <1>1, <1>3, <3>1
    <3> QED BY <3>2 DEF Range
  <2> QED BY <2>1, <2>2, <2>3
<1>9. (\A i \in 1 .. Len(s) : s[i] \in seen) /\ \A i, j \in 1 .. Len(s) : s[i] = s[j] => i = j
  BY <1>7 DEF Dfs
<1>10. \A i \in 1 .. Len(r) : r[i] \in seen /\ succs[r[i]] \subseteq seen
  BY <1>4, <1>5, <1>6 DEF Dfs
<1>11. ASSUME NEW i \in 1 .. Len(r), NEW j \in 1 .. Len(r), r[i] = r[j] PROVE i = j
  <2>1. \A l \in 1 .. Len(rpo) : rpo[l] # n
    BY <1>4 DEF Dfs
  <2>2. CASE i = 1 \/ j = 1
    BY <1>6, <1>11, <2>1, <2>2
  <2>3. CASE i # 1 /\ j # 1
    <3>1. i - 1 \in 1 .. Len(rpo) /\ r[i] = rpo[i - 1] /\ j - 1 \in 1 .. Len(rpo) /\ r[j] = rpo[j - 1]
      BY <1>6, <2>3
    <3>2. \A a, b \in 1 .. Len(rpo) : rpo[a] = rpo[b] => a = b
      BY DEF Dfs
    <3> DEFINE a == i - 1
               b == j - 1
    <3>3. a \in 1 .. Len(rpo) /\ r[i] = rpo[a] /\ b \in 1 .. Len(rpo) /\ r[j] = rpo[b]
      BY <3>1
    <3> HIDE DEF a, b
    <3>4. a = b
      BY <1>11, <3>2, <3>3
    <3> QED BY <3>4 DEF a, b
  <2> QED BY <2>2, <2>3
<1>12. \A i \in 1 .. Len(s), j \in 1 .. Len(r) : s[i] # r[j]
  BY <1>4, <1>6, <1>7 DEF Dfs
<1>13. stack[1] = entry
  BY <1>1 DEF Dfs
<1>14. Len(s) > 0 => s[1] = entry
  <2>1. Len(s) > 0 => 1 \in 1 .. Len(s)
    BY <1>1, <1>2
  <2> QED BY <1>7, <1>13, <2>1
<1>15. Len(s) = 0 => Len(r) > 0 /\ r[1] = entry
  <2>1. Len(s) = 0 => k = 1
    <3> HIDE DEF k
    <3> QED BY <1>1, <1>2
  <2>2. Len(s) = 0 => n = entry
    BY <1>13, <2>1
  <2> HIDE DEF n, k
  <2> QED BY <1>1, <1>3, <2>2
<1>16. ASSUME NEW i \in 2 .. Len(s) PROVE s[i] \in succs[s[i - 1]]
  <2>1. i \in 1 .. Len(s) /\ i - 1 \in 1 .. Len(s) /\ i \in 2 .. k
    BY <1>1, <1>2
  <2> QED BY <1>7, <2>1 DEF Dfs
<1>17. ASSUME NEW i \in 1 .. Len(r)
       PROVE  \/ r[i] = entry
              \/ \E j \in 1 .. i - 1 : r[i] \in succs[r[j]]
              \/ \E j \in 1 .. Len(s) : r[i] \in succs[s[j]]
  <2>1. CASE i = 1
    <3>1. CASE k = 1
      BY <1>3, <1>13, <2>1, <3>1
    <3>2. CASE k # 1
      <4>1. k - 1 \in 1 .. Len(s) /\ k \in 2 .. k
        BY <1>1, <1>2, <3>2
      <4>2. stack[k] \in succs[stack[k - 1]]
        BY <4>1 DEF Dfs
      <4>3. s[k - 1] = stack[k - 1] /\ r[i] = n
        BY <1>3, <1>7, <2>1, <4>1
      <4> QED BY <4>1, <4>2, <4>3
    <3> QED BY <3>1, <3>2
  <2>2. CASE i # 1
    <3>1. i - 1 \in 1 .. Len(rpo) /\ r[i] = rpo[i - 1]
      BY <1>6, <2>2
    <3>2. \/ rpo[i - 1] = entry
          \/ \E j \in 1 .. (i - 1) - 1 : rpo[i - 1] \in succs[rpo[j]]
          \/ \E j \in 1 .. k : rpo[i - 1] \in succs[stack[j]]
      BY <3>1 DEF Dfs
    <3>3. ASSUME NEW j \in 1 .. (i - 1) - 1, rpo[i - 1] \in succs[rpo[j]]
          PROVE  \E l \in 1 .. i - 1 : r[i] \in succs[r[l]]
      <4>1. j \in 1 .. Len(rpo) /\ j + 1 \in 1 .. i - 1
        BY <1>1, <3>1
      <4> QED BY <1>3, <3>1, <3>3, <4>1
    <3>4. ASSUME NEW j \in 1 .. k, rpo[i - 1] \in succs[stack[j]], j # k
          PROVE  \E l \in 1 .. Len(s) : r[i] \in succs[s[l]]
      <4>1. j \in 1 .. Len(s)
        BY <1>1, <1>2, <3>4
      <4> QED BY <1>7, <3>1, <3>4, <4>1
    <3>5. ASSUME rpo[i - 1] \in succs[stack[k]] PROVE \E l \in 1 .. i - 1 : r[i] \in succs[r[l]]
      <4>1. 1 \in 1 .. i - 1
        BY <1>1, <2>2, <3>1
      <4> QED BY <1>3, <3>1, <3>5, <4>1
    <3> QED BY <3>1, <3>2, <3>3, <3>4, <3>5
  <2> QED BY <2>1, <2>2
<1> QED
  <2>1. s \in Seq(N) /\ r \in Seq(N) /\ seen \in SUBSET N /\ entry \in seen
    BY <1>1, <1>2, <1>3
  <2>2. Dfs(N, succs, entry, s, seen, r)
    <3> HIDE DEF n, k
    <3> QED BY <1>8, <1>9, <1>10, <1>11, <1>12, <1>14, <1>15, <1>16, <1>17, <2>1 DEF Dfs
  <2> QED BY <1>1, <2>2 DEF s, r

(* One step of the search: a node less is unseen, or one less on the stack.*)
Unfinished(N, v) == 2 * Cardinality(N \ v.seen) + Len(v.stack)

(* The search keeps its invariant and comes closer to its end.             *)
LEMMA DfsStep ==
  ASSUME NEW N \in SUBSET Nodes, NEW succs \in [N -> SUBSET N], NEW entry,
         NEW v \in Visits, Dfs(N, succs, entry, v.stack, v.seen, v.rpo)
  PROVE  LET w == VisitNext(succs, v) IN
         /\ w \in Visits /\ Dfs(N, succs, entry, w.stack, w.seen, w.rpo)
         /\ Unfinished(N, v) \in Nat
         /\ IF v.stack = << >> THEN w = v ELSE Unfinished(N, w) < Unfinished(N, v)
<1> DEFINE n == Last(v.stack)
           new == succs[n] \ v.seen
           m == CHOOSE s \in new : TRUE
           w == VisitNext(succs, v)
<1>1. v.stack \in Seq(N) /\ v.rpo \in Seq(N) /\ v.seen \in SUBSET N
  BY DEF Dfs
<1>2. v = [stack |-> v.stack, seen |-> v.seen, rpo |-> v.rpo]
  BY DEF Visits
<1>3. IsFiniteSet(N \ v.seen) /\ Cardinality(N \ v.seen) \in Nat /\ Len(v.stack) \in Nat
  <2>1. N \ v.seen \in SUBSET Nodes
    OBVIOUS
  <2>2. Len(v.stack) \in Nat
    BY <1>1
  <2> QED BY <2>1, <2>2, SomeNodes
<1>4. \A t, u, r : t \in Seq(N) /\ u \in SUBSET N /\ r \in Seq(N)
                     => [stack |-> t, seen |-> u, rpo |-> r] \in Visits
  <2> SUFFICES ASSUME NEW t \in Seq(N), NEW u \in SUBSET N, NEW r \in Seq(N)
               PROVE  [stack |-> t, seen |-> u, rpo |-> r] \in Visits
    OBVIOUS
  <2>1. t \in Seq(Nodes) /\ r \in Seq(Nodes) /\ u \in SUBSET Nodes
    BY SeqMonotonic
  <2> QED BY <2>1 DEF Visits
<1>5. Unfinished(N, v) \in Nat
  BY <1>3 DEF Unfinished
<1>6. CASE v.stack = << >>
  <2>1. w = v
    BY <1>6 DEF VisitNext
  <2> QED BY <1>5, <1>6, <2>1
<1>7. CASE v.stack # << >> /\ new # {}
  <2>1. m \in new
    BY <1>7
  <2>2. w = [v EXCEPT !.stack = Append(@, m), !.seen = @ \cup {m}]
    BY <1>7 DEF VisitNext
  <2> HIDE DEF m
  <2>3. w = [stack |-> Append(v.stack, m), seen |-> v.seen \cup {m}, rpo |-> v.rpo]
    BY <1>2, <2>2
  <2>4. Dfs(N, succs, entry, Append(v.stack, m), v.seen \cup {m}, v.rpo)
    BY <1>7, <2>1, DfsPush
  <2>5. w.stack = Append(v.stack, m) /\ w.seen = v.seen \cup {m} /\ w.rpo = v.rpo
    BY <2>3
  <2> HIDE DEF w
  <2>6. Dfs(N, succs, entry, w.stack, w.seen, w.rpo)
    BY <2>4, <2>5
  <2>7. w \in Visits
    BY <1>4, <2>3, <2>4 DEF Dfs
  <2>8. Unfinished(N, w) < Unfinished(N, v)
    <3>1. m \in N \ v.seen /\ N \ w.seen = (N \ v.seen) \ {m}
      BY <1>1, <2>1, <2>4, <2>5 DEF Dfs
    <3>2. Cardinality(N \ w.seen) = Cardinality(N \ v.seen) - 1
      <4> DEFINE S == N \ v.seen
      <4>1. IsFiniteSet(S) /\ m \in S /\ N \ w.seen = S \ {m}
        BY <1>3, <3>1
      <4> HIDE DEF S
      <4>2. Cardinality(S \ {m}) = Cardinality(S) - 1
        BY <4>1, FS_RemoveElement
      <4> QED BY <4>1, <4>2 DEF S
    <3>3. Len(w.stack) = Len(v.stack) + 1
      BY <1>1, <2>5
    <3> QED BY <1>3, <3>2, <3>3 DEF Unfinished
  <2> QED BY <1>5, <1>7, <2>6, <2>7, <2>8 DEF w
<1>8. CASE v.stack # << >> /\ new = {}
  <2>1. w = [v EXCEPT !.stack = Front(@), !.rpo = <<n>> \o @]
    BY <1>8 DEF VisitNext
  <2>2. w = [stack |-> Front(v.stack), seen |-> v.seen, rpo |-> <<n>> \o v.rpo]
    BY <1>2, <2>1
  <2>3. w.stack = Front(v.stack) /\ w.seen = v.seen /\ w.rpo = <<n>> \o v.rpo
    BY <2>2
  <2>4. Dfs(N, succs, entry, Front(v.stack), v.seen, <<n>> \o v.rpo)
    BY <1>8, DfsPop
  <2> HIDE DEF w
  <2>5. Dfs(N, succs, entry, w.stack, w.seen, w.rpo)
    BY <2>3, <2>4
  <2>6. w \in Visits
    BY <1>4, <2>2, <2>4 DEF Dfs
  <2>7. Len(w.stack) = Len(v.stack) - 1
    BY <1>1, <1>8, <2>3, FrontFacts
  <2>8. Unfinished(N, w) < Unfinished(N, v)
    BY <1>3, <2>3, <2>7 DEF Unfinished
  <2> QED BY <1>5, <1>8, <2>5, <2>6, <2>8 DEF w
<1> QED BY <1>6, <1>7, <1>8

(* Every node is reached from the entry.                                   *)
Connected(N, succs, entry) ==
  \A T \in SUBSET N : entry \in T /\ (\A n \in T : succs[n] \subseteq T) => T = N

(* The numbering has every node once, and all but the first after one that *)
(* leads to it.                                                            *)
LEMMA VisitFacts ==
  ASSUME NEW N \in SUBSET Nodes, NEW succs \in [N -> SUBSET N], NEW entry \in N,
         Connected(N, succs, entry)
  PROVE  LET rpo == PostOrderVisit(succs, entry) IN
         /\ rpo \in Seq(N) /\ Len(rpo) > 0 /\ rpo[1] = entry /\ Range(rpo) = N
         /\ \A i, j \in 1 .. Len(rpo) : rpo[i] = rpo[j] => i = j
         /\ \A i \in 1 .. Len(rpo) : rpo[i] = entry \/ \E j \in 1 .. i - 1 : rpo[i] \in succs[rpo[j]]
<1> DEFINE V == {v \in Visits : Dfs(N, succs, entry, v.stack, v.seen, v.rpo)}
           step == [v \in Visits |-> VisitNext(succs, v)]
           start == [stack |-> <<entry>>, seen |-> {entry}, rpo |-> << >>]
           n == 2 * Exit
<1>0. Exit \in Nat /\ n \in Nat /\ IsFiniteSet(N) /\ Cardinality(N) \in Nat /\ Cardinality(N) <= Exit /\ N \subseteq Nodes
  BY NodesFinite, SomeNodes
<1>1. start \in V
  <2> DEFINE s == <<entry>>
             r == << >>
  <2>1. s \in Seq(N) /\ Len(s) = 1 /\ s[1] = entry /\ DOMAIN s = 1 .. 1
    OBVIOUS
  <2>2. r \in Seq(N) /\ Len(r) = 0
    OBVIOUS
  <2>3. entry \in Range(s)
    BY <2>1 DEF Range
  <2> HIDE DEF s, r
  <2>4. /\ \A i \in 1 .. Len(s) : s[i] = entry
        /\ \A i, j \in 1 .. Len(s) : i = j
        /\ \A i \in 2 .. Len(s) : FALSE
        /\ \A i \in 1 .. Len(r) : FALSE
    BY <2>1, <2>2
  <2>5. Dfs(N, succs, entry, s, {entry}, r)
    BY <2>1, <2>2, <2>3, <2>4 DEF Dfs
  <2>6. s \in Seq(Nodes) /\ r \in Seq(Nodes) /\ {entry} \in SUBSET Nodes
    BY <1>0, <2>1, <2>2, SeqMonotonic
  <2>7. start = [stack |-> s, seen |-> {entry}, rpo |-> r]
    BY DEF s, r
  <2>8. start \in Visits
    BY <2>6, <2>7 DEF Visits
  <2>9. start.stack = s /\ start.seen = {entry} /\ start.rpo = r
    BY <2>7
  <2> HIDE DEF start
  <2> QED BY <2>5, <2>8, <2>9
<1>2. Len(start.stack) = 1 /\ start.seen = {entry}
  OBVIOUS
<1>3. PostOrderVisit(succs, entry) = Iterated(step, n, start).rpo
  BY DEF PostOrderVisit
<1>4. \A v \in V : step[v] = VisitNext(succs, v)
  OBVIOUS
<1> HIDE DEF step, start
<1>5. ASSUME NEW v \in V
      PROVE  /\ step[v] \in V
             /\ Unfinished(N, v) \in Nat
             /\ IF v.stack = << >> THEN step[v] = v ELSE Unfinished(N, step[v]) < Unfinished(N, v)
  BY <1>4, DfsStep
<1> HIDE DEF V, n
<1>6. PICK h \in [Nat -> V] : Iterates(h, step, start)
  <2>1. \A v \in V : step[v] \in V
    BY <1>5
  <2> QED BY <1>1, <2>1, IteratedFacts, Zenon
<1> DEFINE T == {k \in Nat : h[k].stack = << >> \/ Unfinished(N, h[k]) + k <= n}
<1>7. 0 \in T
  <2>1. h[0] = start
    BY <1>6 DEF Iterates
  <2>2. N \ {entry} \in SUBSET N /\ entry \in N
    OBVIOUS
  <2>3. Cardinality(N \ {entry}) = Cardinality(N) - 1
    BY <1>0, FS_RemoveElement
  <2>4. Unfinished(N, h[0]) = 2 * (Cardinality(N) - 1) + 1
    BY <1>2, <2>1, <2>3 DEF Unfinished
  <2>5. Unfinished(N, h[0]) + 0 <= n
    BY <1>0, <2>4 DEF n
  <2> QED BY <2>5
<1>8. ASSUME NEW k \in Nat, k \in T PROVE k + 1 \in T
  <2>1. h[k + 1] = step[h[k]] /\ h[k] \in V /\ h[k + 1] \in V
    BY <1>6 DEF Iterates
  <2>2. CASE h[k].stack = << >>
    BY <1>5, <2>1, <2>2
  <2>3. CASE h[k].stack # << >>
    <3>1. Unfinished(N, h[k + 1]) < Unfinished(N, h[k])
      BY <1>5, <2>1, <2>3
    <3>2. Unfinished(N, h[k + 1]) \in Nat /\ Unfinished(N, h[k]) \in Nat /\ Unfinished(N, h[k]) + k <= n
      BY <1>5, <1>8, <2>1, <2>3
    <3> QED BY <1>0, <3>1, <3>2
  <2> QED BY <2>2, <2>3
<1> HIDE DEF T
<1>9. n \in T
  BY <1>0, <1>7, <1>8, NumberInduction
<1> DEFINE v == h[n]
           rpo == v.rpo
<1>10. v \in V /\ PostOrderVisit(succs, entry) = rpo
  BY <1>0, <1>3, <1>6 DEF Iterates
<1> HIDE DEF v
<1>11. Dfs(N, succs, entry, v.stack, v.seen, rpo) /\ v.stack \in Seq(N) /\ rpo \in Seq(N)
  BY <1>10 DEF V, Dfs
<1>12. Len(v.stack) = 0
  <2>1. CASE v.stack = << >>
    BY <2>1
  <2>2. CASE Unfinished(N, v) + n <= n
    <3>1. Unfinished(N, v) <= 0 /\ Unfinished(N, v) \in Nat
      BY <1>0, <1>5, <1>10, <2>2
    <3>2. Len(v.stack) \in Nat /\ Cardinality(N \ v.seen) \in Nat
      BY <1>0, <1>11, FS_Subset, FS_CardinalityType
    <3> QED BY <3>1, <3>2 DEF Unfinished
  <2> QED BY <1>9, <2>1, <2>2 DEF T, v
<1>13. DOMAIN v.stack = {} /\ Range(v.stack) = {}
  BY <1>11, <1>12 DEF Range
<1> HIDE DEF rpo
<1>14. v.seen = Range(rpo)
  <2>1. \A m \in v.seen : m \in Range(rpo)
    BY <1>11, <1>13 DEF Dfs
  <2>2. \A i \in 1 .. Len(rpo) : rpo[i] \in v.seen
    BY <1>11 DEF Dfs
  <2>3. DOMAIN rpo = 1 .. Len(rpo)
    BY <1>11
  <2> QED BY <2>1, <2>2, <2>3 DEF Range
<1>15. v.seen = N
  <2>1. v.seen \in SUBSET N /\ entry \in v.seen
    BY <1>11 DEF Dfs
  <2>2. \A m \in v.seen : succs[m] \subseteq v.seen
    <3> SUFFICES ASSUME NEW m \in v.seen PROVE succs[m] \subseteq v.seen
      OBVIOUS
    <3>1. PICK i \in 1 .. Len(rpo) : rpo[i] = m
      BY <1>11, <1>14 DEF Range
    <3> QED BY <1>11, <3>1 DEF Dfs
  <2> QED BY <2>1, <2>2 DEF Connected
<1>16. Len(rpo) > 0 /\ rpo[1] = entry /\ \A i, j \in 1 .. Len(rpo) : rpo[i] = rpo[j] => i = j
  BY <1>11, <1>12 DEF Dfs
<1>17. \A i \in 1 .. Len(rpo) : rpo[i] = entry \/ \E j \in 1 .. i - 1 : rpo[i] \in succs[rpo[j]]
  <2>1. 1 .. Len(v.stack) = {}
    BY <1>12
  <2> QED BY <1>11, <2>1 DEF Dfs
<1> QED BY <1>10, <1>11, <1>14, <1>15, <1>16, <1>17

-----------------------------------------------------------------------------
(* The links of CFA::link_to_exit.                                         *)

(* T has all that leads to it.                                             *)
BackClosed(N, succs, T) == \A m \in N, n \in T : n \in succs[m] => m \in T

(* What leads to the nodes of S is the least such set.                     *)
LEMMA BackFacts ==
  ASSUME NEW N \in SUBSET Nodes, NEW succs \in [N -> SUBSET N], NEW S \in SUBSET N
  PROVE  /\ Closure(Preds(succs), S) \in SUBSET N /\ S \subseteq Closure(Preds(succs), S)
         /\ \A T : S \subseteq T /\ BackClosed(N, succs, T) => Closure(Preds(succs), S) \subseteq T
<1> DEFINE P == Preds(succs)
<1>1. P \in [N -> SUBSET N] /\ \A n \in N : P[n] = {m \in N : n \in succs[m]}
  BY DEF Preds
<1> HIDE DEF P
<1>2. /\ Closure(P, S) \in SUBSET N /\ S \subseteq Closure(P, S)
      /\ \A T : S \subseteq T /\ (\A n \in T \cap N : P[n] \subseteq T) => Closure(P, S) \subseteq T
  BY <1>1, ClosureFacts
<1>3. ASSUME NEW T, S \subseteq T, BackClosed(N, succs, T) PROVE Closure(P, S) \subseteq T
  <2>1. \A n \in T \cap N : P[n] \subseteq T
    BY <1>1, <1>3 DEF BackClosed
  <2> QED BY <1>2, <1>3, <2>1
<1> QED BY <1>2, <1>3 DEF P

(* During the search: edges are only added to the exit; what is seen is on *)
(* the stack, or reaches the exit and what it leads to is seen.            *)
Linking(N, base, stack, seen, reaching, succs) ==
  /\ stack \in Seq(N) /\ seen \in SUBSET N /\ reaching \in SUBSET N /\ succs \in [N -> SUBSET N]
  /\ Entry \in seen /\ Exit \in reaching
  /\ \A n \in N : base[n] \subseteq succs[n]
  /\ \A i \in 1 .. Len(stack) : stack[i] \in seen
  /\ \A n \in seen : \/ \E i \in 1 .. Len(stack) : stack[i] = n
                     \/ n \in reaching /\ succs[n] \subseteq seen \cup {Exit}
  /\ \A T \in SUBSET N : Exit \in T /\ BackClosed(N, succs, T) => reaching \subseteq T

(* What a node leads to is pushed.                                         *)
LEMMA LinkPush ==
  ASSUME NEW N \in SUBSET Nodes, NEW base, NEW stack, NEW seen, NEW reaching, NEW succs,
         Linking(N, base, stack, seen, reaching, succs), stack # << >>,
         NEW new, new = succs[Last(stack)] \ seen
  PROVE  /\ Linking(N, base, stack \o SetToSeq(new), seen \cup new, reaching, succs)
         /\ Len(stack \o SetToSeq(new)) = Len(stack) + Cardinality(new)
<1> DEFINE t == SetToSeq(new)
           s == stack \o t
<1>1. stack \in Seq(N) /\ Last(stack) \in N /\ succs \in [N -> SUBSET N] /\ Len(stack) \in Nat
  <2>1. stack \in Seq(N) /\ succs \in [N -> SUBSET N]
    BY DEF Linking
  <2> QED BY <2>1, FrontFacts
<1>2. new \in SUBSET N /\ IsFiniteSet(new) /\ Cardinality(new) \in Nat
  <2>1. new \in SUBSET N
    BY <1>1
  <2>2. new \in SUBSET Nodes
    BY <2>1
  <2> QED BY <2>1, <2>2, SomeNodes
<1>3. t \in Seq(new) /\ Len(t) = Cardinality(new)
  BY <1>2, SetToSeqFacts
<1> HIDE DEF t
<1>4. t \in Seq(N) /\ \A i \in 1 .. Len(t) : t[i] \in new
  BY <1>2, <1>3, SeqMonotonic
<1>5. /\ s \in Seq(N) /\ Len(s) = Len(stack) + Len(t)
      /\ \A i \in 1 .. Len(stack) + Len(t) : s[i] = IF i <= Len(stack) THEN stack[i] ELSE t[i - Len(stack)]
  BY <1>1, <1>4, ConcatProperties
<1> DEFINE a == Len(stack)
           b == Len(t)
<1>a. /\ a \in Nat /\ b \in Nat /\ Len(s) = a + b
      /\ \A i \in 1 .. a + b : s[i] = IF i <= a THEN stack[i] ELSE t[i - a]
  BY <1>1, <1>2, <1>3, <1>5
<1>b. DOMAIN t = 1 .. b
  BY <1>4
<1> HIDE DEF s, a, b
<1>6. \A i \in 1 .. Len(stack) : i \in 1 .. Len(s) /\ s[i] = stack[i]
  <2>1. \A i \in 1 .. a : i \in 1 .. a + b /\ i <= a
    BY <1>a
  <2> QED BY <1>a, <2>1 DEF a
<1>7. ASSUME NEW i \in 1 .. Len(s) PROVE s[i] \in seen \cup new
  <2>1. CASE i <= Len(stack)
    <3>1. i \in 1 .. Len(stack)
      BY <1>a, <2>1 DEF a
    <3> QED BY <1>6, <3>1 DEF Linking
  <2>2. CASE ~(i <= Len(stack))
    <3>1. ~(i <= a) /\ i \in 1 .. a + b
      BY <1>a, <2>2 DEF a
    <3>2. i - a \in 1 .. b /\ s[i] = t[i - a]
      BY <1>a, <3>1
    <3> QED BY <1>4, <3>2 DEF b
  <2> QED BY <2>1, <2>2
<1>8. ASSUME NEW n \in new PROVE \E i \in 1 .. Len(s) : s[i] = n
  <2>1. Range(t) = new
    BY <1>2, SetToSeqFacts DEF t
  <2>2. PICK j \in 1 .. Len(t) : t[j] = n
    BY <1>b, <2>1 DEF Range, b
  <2>3. a + j \in 1 .. a + b /\ ~(a + j <= a) /\ (a + j) - a = j
    <3>1. j \in 1 .. b
      BY DEF b
    <3> QED BY <1>a, <3>1
  <2>4. s[a + j] = t[j] /\ a + j \in 1 .. Len(s)
    BY <1>a, <2>3
  <2> QED BY <2>2, <2>4
<1>9. ASSUME NEW n \in seen \cup new
      PROVE  \/ \E i \in 1 .. Len(s) : s[i] = n
             \/ n \in reaching /\ succs[n] \subseteq (seen \cup new) \cup {Exit}
  <2>1. CASE n \in new
    BY <1>8, <2>1
  <2>2. CASE n \in seen
    <3>1. \/ \E i \in 1 .. Len(stack) : stack[i] = n
          \/ n \in reaching /\ succs[n] \subseteq seen \cup {Exit}
      BY <2>2 DEF Linking
    <3> QED BY <1>6, <3>1
  <2> QED BY <2>1, <2>2
<1>10. Linking(N, base, s, seen \cup new, reaching, succs)
  <2>1. /\ seen \cup new \in SUBSET N /\ reaching \in SUBSET N /\ Entry \in seen \cup new /\ Exit \in reaching
        /\ \A n \in N : base[n] \subseteq succs[n]
        /\ \A T \in SUBSET N : Exit \in T /\ BackClosed(N, succs, T) => reaching \subseteq T
    BY <1>2 DEF Linking
  <2> HIDE <1>2
  <2> QED BY <1>1, <1>5, <1>7, <1>9, <2>1 DEF Linking
<1> QED BY <1>3, <1>5, <1>10 DEF s, t

(* A node that leads to nothing new reaches the exit or is linked to it.   *)
LEMMA LinkPop ==
  ASSUME NEW N \in SUBSET Nodes, NEW base, NEW stack, NEW seen, NEW reaching, NEW succs, Exit \in N,
         Linking(N, base, stack, seen, reaching, succs), stack # << >>,
         NEW n, n = Last(stack), succs[n] \subseteq seen
  PROVE  /\ n \in reaching => Linking(N, base, Front(stack), seen, reaching, succs)
         /\ Linking(N, base, Front(stack), seen, reaching \cup Closure(Preds(succs), {n}),
                    [succs EXCEPT ![n] = @ \cup {Exit}])
<1> DEFINE s == Front(stack)
           k == Len(stack)
           C == Closure(Preds(succs), {n})
           linked == [succs EXCEPT ![n] = @ \cup {Exit}]
<1>1. stack \in Seq(N) /\ seen \in SUBSET N /\ reaching \in SUBSET N /\ succs \in [N -> SUBSET N]
      /\ Entry \in seen /\ Exit \in reaching
  BY DEF Linking
<1>2. /\ k \in Nat /\ k > 0 /\ n = stack[k] /\ n \in N
      /\ s \in Seq(N) /\ Len(s) = k - 1 /\ \A i \in 1 .. k - 1 : s[i] = stack[i]
  BY <1>1, FrontFacts
<1>3. C \in SUBSET N /\ n \in C /\ \A T : {n} \subseteq T /\ BackClosed(N, succs, T) => C \subseteq T
  <2> DEFINE S == {n}
  <2>1. S \in SUBSET N /\ n \in S
    BY <1>2
  <2>2. succs \in [N -> SUBSET N]
    BY <1>1
  <2> HIDE DEF S
  <2>3. /\ Closure(Preds(succs), S) \in SUBSET N /\ S \subseteq Closure(Preds(succs), S)
        /\ \A T : S \subseteq T /\ BackClosed(N, succs, T) => Closure(Preds(succs), S) \subseteq T
    BY <2>1, <2>2, BackFacts
  <2> QED BY <2>1, <2>3 DEF S
<1>4. linked \in [N -> SUBSET N] /\ \A m \in N : linked[m] = IF m = n THEN succs[m] \cup {Exit} ELSE succs[m]
  BY <1>1, <1>2
<1> HIDE DEF s, C, linked
<1>5. \A i \in 1 .. Len(s) : s[i] \in seen
  <2>1. \A i \in 1 .. Len(s) : i \in 1 .. k - 1 /\ i \in 1 .. k
    BY <1>2
  <2> QED BY <1>2, <2>1 DEF Linking
<1>6. ASSUME NEW m \in seen
      PROVE  \/ m = n
             \/ \E i \in 1 .. Len(s) : s[i] = m
             \/ m \in reaching /\ succs[m] \subseteq seen \cup {Exit}
  <2>1. ASSUME NEW i \in 1 .. k, stack[i] = m, m # n PROVE \E j \in 1 .. Len(s) : s[j] = m
    <3>1. i # k
      BY <1>2, <2>1
    <3>2. i \in 1 .. k - 1 /\ i \in 1 .. Len(s)
      BY <1>2, <3>1
    <3> QED BY <1>2, <2>1, <3>2
  <2> QED BY <2>1 DEF Linking
<1>7. \A m \in N : base[m] \subseteq succs[m] /\ base[m] \subseteq linked[m] /\ succs[m] \subseteq linked[m]
                   /\ linked[m] \subseteq succs[m] \cup {Exit}
  BY <1>4 DEF Linking
<1>8. \A T \in SUBSET N : Exit \in T /\ BackClosed(N, succs, T) => reaching \subseteq T
  BY DEF Linking
<1>9. ASSUME n \in reaching PROVE Linking(N, base, s, seen, reaching, succs)
  <2>1. \A m \in seen : \/ \E i \in 1 .. Len(s) : s[i] = m
                        \/ m \in reaching /\ succs[m] \subseteq seen \cup {Exit}
    BY <1>6, <1>9
  <2> QED BY <1>1, <1>2, <1>5, <1>7, <1>8, <2>1 DEF Linking
<1>10. Linking(N, base, s, seen, reaching \cup C, linked)
  <2>1. \A m \in seen : \/ \E i \in 1 .. Len(s) : s[i] = m
                        \/ m \in reaching \cup C /\ linked[m] \subseteq seen \cup {Exit}
    <3> SUFFICES ASSUME NEW m \in seen, ~\E i \in 1 .. Len(s) : s[i] = m
                 PROVE  m \in reaching \cup C /\ linked[m] \subseteq seen \cup {Exit}
      OBVIOUS
    <3>1. m \in N /\ (m = n \/ (m \in reaching /\ succs[m] \subseteq seen \cup {Exit}))
      BY <1>1, <1>6
    <3> QED BY <1>3, <1>7, <3>1
  <2>2. ASSUME NEW T \in SUBSET N, Exit \in T, BackClosed(N, linked, T) PROVE reaching \cup C \subseteq T
    <3>1. BackClosed(N, succs, T)
      BY <1>7, <2>2 DEF BackClosed
    <3>2. n \in T
      BY <1>2, <1>4, <2>2 DEF BackClosed
    <3> QED BY <1>3, <1>8, <2>2, <3>1, <3>2
  <2>3. reaching \cup C \in SUBSET N /\ Exit \in reaching \cup C
    BY <1>1, <1>3
  <2> QED BY <1>1, <1>2, <1>4, <1>5, <1>7, <2>1, <2>2, <2>3 DEF Linking
<1> QED BY <1>9, <1>10 DEF s, C, linked

(* The search keeps its invariant and comes closer to its end.             *)
LEMMA LinkStep ==
  ASSUME NEW N \in SUBSET Nodes, Exit \in N, NEW base,
         NEW w \in Links(N), Linking(N, base, w.stack, w.seen, w.reaching, w.succs)
  PROVE  LET u == LinkNext(w) IN
         /\ u \in Links(N) /\ Linking(N, base, u.stack, u.seen, u.reaching, u.succs)
         /\ Unfinished(N, w) \in Nat
         /\ IF w.stack = << >> THEN u = w ELSE Unfinished(N, u) < Unfinished(N, w)
<1> DEFINE n == Last(w.stack)
           new == w.succs[n] \ w.seen
           C == Closure(Preds(w.succs), {n})
           linked == [w EXCEPT !.reaching = @ \cup C, !.succs[n] = @ \cup {Exit}]
           u == LinkNext(w)
<1>1. w.stack \in Seq(N) /\ w.seen \in SUBSET N /\ w.reaching \in SUBSET N /\ w.succs \in [N -> SUBSET N]
  BY DEF Linking
<1>2. w = [stack |-> w.stack, seen |-> w.seen, reaching |-> w.reaching, succs |-> w.succs]
  BY DEF Links
<1>3. IsFiniteSet(N \ w.seen) /\ Cardinality(N \ w.seen) \in Nat /\ Len(w.stack) \in Nat
  <2>1. N \ w.seen \in SUBSET Nodes
    OBVIOUS
  <2>2. Len(w.stack) \in Nat
    BY <1>1
  <2> QED BY <2>1, <2>2, SomeNodes
<1>4. \A t, s, r, c : Linking(N, base, t, s, r, c) => [stack |-> t, seen |-> s, reaching |-> r, succs |-> c] \in Links(N)
  BY DEF Linking, Links
<1>5. Unfinished(N, w) \in Nat
  BY <1>3 DEF Unfinished
<1>6. CASE w.stack = << >>
  <2>1. u = w
    BY <1>6 DEF LinkNext
  <2> QED BY <1>5, <1>6, <2>1
<1>7. CASE w.stack # << >> /\ new # {}
  <2>1. u = [w EXCEPT !.stack = @ \o SetToSeq(new), !.seen = @ \cup new]
    BY <1>7 DEF LinkNext
  <2> DEFINE t == w.stack \o SetToSeq(new)
             s == w.seen \cup new
  <2>2. u = [stack |-> t, seen |-> s, reaching |-> w.reaching, succs |-> w.succs]
    BY <1>2, <2>1
  <2>3. Linking(N, base, t, s, w.reaching, w.succs) /\ Len(t) = Len(w.stack) + Cardinality(new)
    <3> DEFINE st == w.stack
               se == w.seen
               re == w.reaching
               su == w.succs
    <3>1. new = su[Last(st)] \ se
      OBVIOUS
    <3>2. Linking(N, base, st, se, re, su) /\ st # << >>
      BY <1>7
    <3> HIDE DEF new, st, se, re, su
    <3>3. /\ Linking(N, base, st \o SetToSeq(new), se \cup new, re, su)
          /\ Len(st \o SetToSeq(new)) = Len(st) + Cardinality(new)
      BY <3>1, <3>2, LinkPush
    <3> QED BY <3>3 DEF st, se, re, su
  <2>4. new \in SUBSET (N \ w.seen) /\ N \ s = (N \ w.seen) \ new /\ new # {}
    <3>1. n \in N
      BY <1>1, <1>7, FrontFacts
    <3>2. w.succs[n] \in SUBSET N
      BY <1>1, <3>1
    <3> QED BY <1>7, <3>2
  <2> HIDE DEF t, s, new, u
  <2>5. u.stack = t /\ u.seen = s /\ u.reaching = w.reaching /\ u.succs = w.succs
    BY <2>2
  <2>6. u \in Links(N) /\ Linking(N, base, u.stack, u.seen, u.reaching, u.succs)
    BY <1>4, <2>2, <2>3, <2>5
  <2>7. Unfinished(N, u) < Unfinished(N, w)
    <3> DEFINE S == N \ w.seen
    <3>1. IsFiniteSet(S) /\ new \in SUBSET S /\ N \ s = S \ new /\ new = S \cap new
      BY <1>3, <2>4
    <3> HIDE DEF S
    <3>2. Cardinality(S \ new) = Cardinality(S) - Cardinality(S \cap new)
      BY <3>1, FS_Difference
    <3>3. IsFiniteSet(new) /\ Cardinality(new) \in Nat /\ Cardinality(new) # 0
      BY <2>4, <3>1, FS_Subset, FS_CardinalityType, FS_EmptySet
    <3>4. Cardinality(N \ s) = Cardinality(N \ w.seen) - Cardinality(new)
      BY <3>1, <3>2 DEF S
    <3> QED BY <1>3, <2>3, <2>5, <3>3, <3>4, SMTT(30) DEF Unfinished
  <2> QED BY <1>5, <1>7, <2>6, <2>7 DEF u
<1>8. CASE w.stack # << >> /\ new = {}
  <2>1. u = [(IF n \in w.reaching THEN w ELSE linked) EXCEPT !.stack = Front(@)]
    BY <1>8 DEF LinkNext
  <2>2. w.succs[n] \subseteq w.seen
    BY <1>8
  <2> HIDE DEF C, u
  <2>3. /\ n \in w.reaching => Linking(N, base, Front(w.stack), w.seen, w.reaching, w.succs)
        /\ Linking(N, base, Front(w.stack), w.seen, w.reaching \cup C, [w.succs EXCEPT ![n] = @ \cup {Exit}])
    BY <1>8, <2>2, LinkPop DEF C
  <2>4. Len(Front(w.stack)) = Len(w.stack) - 1
    BY <1>1, <1>8, FrontFacts
  <2>5. CASE n \in w.reaching
    <3>1. u = [stack |-> Front(w.stack), seen |-> w.seen, reaching |-> w.reaching, succs |-> w.succs]
      BY <1>2, <2>1, <2>5
    <3>2. u.stack = Front(w.stack) /\ u.seen = w.seen /\ u.reaching = w.reaching /\ u.succs = w.succs
      BY <3>1
    <3>3. u \in Links(N) /\ Linking(N, base, u.stack, u.seen, u.reaching, u.succs)
      BY <1>4, <2>3, <2>5, <3>1, <3>2
    <3>4. Unfinished(N, u) < Unfinished(N, w)
      BY <1>3, <2>4, <3>2 DEF Unfinished
    <3> QED BY <1>5, <1>8, <3>3, <3>4 DEF u
  <2>6. CASE n \notin w.reaching
    <3> DEFINE c == [w.succs EXCEPT ![n] = @ \cup {Exit}]
    <3>1. linked = [stack |-> w.stack, seen |-> w.seen, reaching |-> w.reaching \cup C, succs |-> c]
      <4>1. /\ DOMAIN linked = DOMAIN w
            /\ linked.stack = w.stack /\ linked.seen = w.seen /\ linked.reaching = w.reaching \cup C /\ linked.succs = c
        BY <1>2
      <4>2. DOMAIN w = {"stack", "seen", "reaching", "succs"}
        BY <1>2
      <4>3. linked = [f \in DOMAIN w |-> linked[f]]
        BY <1>2
      <4> DEFINE R == [stack |-> w.stack, seen |-> w.seen, reaching |-> w.reaching \cup C, succs |-> c]
      <4>4. R = [f \in {"stack", "seen", "reaching", "succs"} |-> R[f]]
        OBVIOUS
      <4>5. \A f \in {"stack", "seen", "reaching", "succs"} : linked[f] = R[f]
        <5> HIDE DEF linked, c
        <5>1. linked["stack"] = R["stack"] /\ linked["seen"] = R["seen"]
          BY <4>1
        <5>2. linked["reaching"] = R["reaching"] /\ linked["succs"] = R["succs"]
          BY <4>1
        <5> QED BY <5>1, <5>2
      <4> HIDE DEF R, linked
      <4>6. linked = R
        BY <4>2, <4>3, <4>4, <4>5
      <4> QED BY <4>6 DEF R
    <3>2. u = [linked EXCEPT !.stack = Front(@)]
      BY <2>1, <2>6
    <3> HIDE DEF linked, c
    <3>3. u = [stack |-> Front(w.stack), seen |-> w.seen, reaching |-> w.reaching \cup C, succs |-> c]
      BY <3>1, <3>2
    <3>4. u.stack = Front(w.stack) /\ u.seen = w.seen /\ u.reaching = w.reaching \cup C /\ u.succs = c
      BY <3>3
    <3>5. u \in Links(N) /\ Linking(N, base, u.stack, u.seen, u.reaching, u.succs)
      BY <1>4, <2>3, <3>3, <3>4 DEF c
    <3>6. Unfinished(N, u) < Unfinished(N, w)
      BY <1>3, <2>4, <3>4 DEF Unfinished
    <3> QED BY <1>5, <1>8, <3>5, <3>6 DEF u
  <2> QED BY <2>5, <2>6
<1> QED BY <1>6, <1>7, <1>8

(* In the linked graph every node is reached from the entry and reaches    *)
(* the exit.                                                               *)
LEMMA LinkFacts ==
  ASSUME NEW N \in SUBSET Nodes, NEW succs \in [N -> SUBSET N], Entry \in N, Exit \in N, succs[Exit] = {},
         \A T \in SUBSET N : Entry \in T /\ (\A n \in T : succs[n] \subseteq T) => N \subseteq T \cup {Exit}
  PROVE  LET c == LinkToExit(succs) IN
         /\ c \in [N -> SUBSET N] /\ \A n \in N : succs[n] \subseteq c[n]
         /\ Connected(N, c, Entry) /\ Connected(N, Preds(c), Exit)
<1> DEFINE V == {w \in Links(N) : Linking(N, succs, w.stack, w.seen, w.reaching, w.succs)}
           step == [w \in Links(N) |-> LinkNext(w)]
           ends == [n \in N |-> IF succs[n] = {} /\ n # Exit THEN {Exit} ELSE succs[n]]
           back == Closure(Preds(ends), {Exit})
           start == [stack |-> <<Entry>>, seen |-> {Entry}, succs |-> ends, reaching |-> back]
           n == 2 * Exit
<1>0. /\ Exit \in Nat /\ n \in Nat /\ IsFiniteSet(N) /\ Cardinality(N) \in Nat /\ Cardinality(N) <= Exit
      /\ N \subseteq Nodes /\ Entry # Exit
  BY NodesFinite, SomeNodes
<1>1. start \in V
  <2> DEFINE s == <<Entry>>
             S == {Exit}
  <2>1. s \in Seq(N) /\ Len(s) = 1 /\ s[1] = Entry
    OBVIOUS
  <2>2. ends \in [N -> SUBSET N] /\ \A m \in N : succs[m] \subseteq ends[m]
    OBVIOUS
  <2>3. S \in SUBSET N /\ Exit \in S
    OBVIOUS
  <2>4. start = [stack |-> s, seen |-> {Entry}, reaching |-> back, succs |-> ends]
    OBVIOUS
  <2>5. back = Closure(Preds(ends), S)
    OBVIOUS
  <2>a. \A T : Exit \in T => S \subseteq T
    OBVIOUS
  <2> HIDE DEF s, ends, back, start, S
  <2>6. /\ Closure(Preds(ends), S) \in SUBSET N /\ S \subseteq Closure(Preds(ends), S)
        /\ \A T : S \subseteq T /\ BackClosed(N, ends, T) => Closure(Preds(ends), S) \subseteq T
    BY <2>2, <2>3, BackFacts
  <2>7. back \in SUBSET N /\ Exit \in back
    BY <2>3, <2>5, <2>6
  <2>8. \A T \in SUBSET N : Exit \in T /\ BackClosed(N, ends, T) => back \subseteq T
    BY <2>5, <2>6, <2>a
  <2>9. (\A i \in 1 .. Len(s) : s[i] = Entry) /\ 1 \in 1 .. Len(s)
    BY <2>1
  <2>10. Linking(N, succs, s, {Entry}, back, ends)
    BY <2>1, <2>2, <2>7, <2>8, <2>9 DEF Linking
  <2>11. start \in Links(N)
    BY <2>1, <2>2, <2>4, <2>7 DEF Links
  <2>12. start.stack = s /\ start.seen = {Entry} /\ start.reaching = back /\ start.succs = ends
    BY <2>4
  <2> QED BY <2>10, <2>11, <2>12
<1>2. Len(start.stack) = 1 /\ start.seen = {Entry}
  OBVIOUS
<1>3. LinkToExit(succs) = Iterated(step, n, start).succs
  BY DEF LinkToExit
<1>4. \A w \in V : step[w] = LinkNext(w)
  OBVIOUS
<1> HIDE DEF step, start
<1>5. ASSUME NEW w \in V
      PROVE  /\ step[w] \in V
             /\ Unfinished(N, w) \in Nat
             /\ IF w.stack = << >> THEN step[w] = w ELSE Unfinished(N, step[w]) < Unfinished(N, w)
  BY <1>4, LinkStep
<1> HIDE DEF V, n
<1>6. PICK h \in [Nat -> V] : Iterates(h, step, start)
  <2>1. \A w \in V : step[w] \in V
    BY <1>5
  <2> QED BY <1>1, <2>1, IteratedFacts, Zenon
<1> DEFINE T == {k \in Nat : h[k].stack = << >> \/ Unfinished(N, h[k]) + k <= n}
<1>7. 0 \in T
  <2>1. h[0] = start
    BY <1>6 DEF Iterates
  <2>2. Cardinality(N \ {Entry}) = Cardinality(N) - 1
    BY <1>0, FS_RemoveElement
  <2>3. Unfinished(N, h[0]) = 2 * (Cardinality(N) - 1) + 1
    BY <1>2, <2>1, <2>2 DEF Unfinished
  <2>4. Unfinished(N, h[0]) + 0 <= n
    BY <1>0, <2>3 DEF n
  <2> QED BY <2>4
<1>8. ASSUME NEW k \in Nat, k \in T PROVE k + 1 \in T
  <2>1. h[k + 1] = step[h[k]] /\ h[k] \in V /\ h[k + 1] \in V
    BY <1>6 DEF Iterates
  <2>2. CASE h[k].stack = << >>
    BY <1>5, <2>1, <2>2
  <2>3. CASE h[k].stack # << >>
    <3>1. Unfinished(N, h[k + 1]) < Unfinished(N, h[k])
      BY <1>5, <2>1, <2>3
    <3>2. Unfinished(N, h[k + 1]) \in Nat /\ Unfinished(N, h[k]) \in Nat /\ Unfinished(N, h[k]) + k <= n
      BY <1>5, <1>8, <2>1, <2>3
    <3> QED BY <1>0, <3>1, <3>2
  <2> QED BY <2>2, <2>3
<1> HIDE DEF T
<1>9. n \in T
  BY <1>0, <1>7, <1>8, NumberInduction
<1> DEFINE w == h[n]
           c == w.succs
<1>10. w \in V /\ LinkToExit(succs) = c
  BY <1>0, <1>3, <1>6 DEF Iterates
<1> HIDE DEF w
<1>11. Linking(N, succs, w.stack, w.seen, w.reaching, c)
  BY <1>10 DEF V
<1>12. Len(w.stack) = 0
  <2>0. w.stack \in Seq(N) /\ N \ w.seen \in SUBSET Nodes
    BY <1>11 DEF Linking
  <2>1. CASE w.stack = << >>
    BY <2>1
  <2>2. CASE Unfinished(N, w) + n <= n
    <3>1. Unfinished(N, w) <= 0 /\ Unfinished(N, w) \in Nat
      BY <1>0, <1>5, <1>10, <2>2
    <3>2. Len(w.stack) \in Nat /\ Cardinality(N \ w.seen) \in Nat
      BY <2>0, SomeNodes
    <3> QED BY <3>1, <3>2 DEF Unfinished
  <2> QED BY <1>9, <2>1, <2>2 DEF T, w
<1> DEFINE seen == w.seen
           reaching == w.reaching
<1>13. /\ c \in [N -> SUBSET N] /\ \A m \in N : succs[m] \subseteq c[m]
       /\ seen \in SUBSET N /\ reaching \in SUBSET N /\ Entry \in seen /\ Exit \in reaching
       /\ \A U \in SUBSET N : Exit \in U /\ BackClosed(N, c, U) => reaching \subseteq U
  BY <1>11 DEF Linking
<1>14. \A m \in seen : m \in reaching /\ c[m] \subseteq seen \cup {Exit}
  <2>1. 1 .. Len(w.stack) = {}
    BY <1>12
  <2> QED BY <1>11, <2>1 DEF Linking
<1> HIDE DEF c, seen, reaching
<1>15. N \subseteq reaching
  <2> DEFINE U == seen \cup {Exit}
  <2>1. U \in SUBSET N /\ Entry \in U /\ U \cup {Exit} = U
    BY <1>13
  <2>2. \A m \in U : succs[m] \subseteq U
    BY <1>13, <1>14
  <2> HIDE DEF U
  <2>3. N \subseteq U \cup {Exit}
    BY <2>1, <2>2
  <2> QED BY <1>13, <1>14, <2>1, <2>3 DEF U
<1>16. Connected(N, Preds(c), Exit)
  <2> SUFFICES ASSUME NEW U \in SUBSET N, Exit \in U, \A m \in U : Preds(c)[m] \subseteq U PROVE U = N
    BY DEF Connected
  <2>1. BackClosed(N, c, U)
    BY <1>13 DEF BackClosed, Preds
  <2> QED BY <1>13, <1>15, <2>1
<1>17. Connected(N, c, Entry)
  <2> SUFFICES ASSUME NEW U \in SUBSET N, Entry \in U, \A m \in U : c[m] \subseteq U PROVE U = N
    BY DEF Connected
  <2>1. \A m \in U : succs[m] \subseteq U
    BY <1>13
  <2>2. N \subseteq U \cup {Exit}
    BY <2>1
  <2>3. ASSUME Exit \notin U PROVE FALSE
    <3> DEFINE S == {Exit}
    <3>1. S \in SUBSET N /\ Exit \in S
      OBVIOUS
    <3>2. BackClosed(N, c, S)
      BY <2>2, <2>3 DEF BackClosed
    <3>3. reaching \subseteq S
      <4> HIDE DEF S
      <4> QED BY <1>13, <3>1, <3>2
    <3> QED BY <1>0, <1>15, <3>3
  <2> QED BY <2>2, <2>3
<1> QED BY <1>10, <1>13, <1>16, <1>17

(* The nodes that CFA::CFA makes, and their edges.                         *)
LEMMA LinkedFacts ==
  ASSUME NEW jumps \in [Blocks -> SUBSET Blocks]
  PROVE  LET succs == Linked(jumps)
             N     == DOMAIN succs
         IN  /\ N \in SUBSET Nodes /\ Entry \in N /\ Exit \in N
             /\ succs \in [N -> SUBSET N] /\ succs[Exit] = {}
             /\ \A T \in SUBSET N : Entry \in T /\ (\A n \in T : succs[n] \subseteq T) => N \subseteq T \cup {Exit}
<1> DEFINE R == Closure(jumps, {Entry})
           N == R \cup {Exit}
           succs == Linked(jumps)
           S == {Entry}
<1>0. Blocks \in SUBSET Nodes /\ S \in SUBSET Blocks /\ Entry \in S /\ Exit \notin Blocks /\ Exit \in Nodes
  BY MaxBlocksAssumption DEF Blocks, Nodes, Entry, Exit
<1>a. \A T : Entry \in T => S \subseteq T
  OBVIOUS
<1>1. /\ R \in SUBSET Blocks /\ S \subseteq R /\ (\A n \in R : jumps[n] \subseteq R)
      /\ \A T : S \subseteq T /\ (\A n \in T \cap Blocks : jumps[n] \subseteq T) => R \subseteq T
  <2> HIDE DEF S
  <2> QED BY <1>0, ClosureFacts DEF S
<1>2. succs = [n \in N |-> IF n = Exit THEN {} ELSE jumps[n]]
  BY DEF Linked
<1> HIDE DEF R, S, succs
<1>3. DOMAIN succs = N /\ succs[Exit] = {} /\ \A n \in R : succs[n] = jumps[n]
  BY <1>0, <1>1, <1>2
<1>4. succs \in [N -> SUBSET N]
  <2>1. \A n \in N : succs[n] \in SUBSET N
    BY <1>1, <1>3
  <2> QED BY <1>2, <2>1
<1>5. N \in SUBSET Nodes /\ Entry \in N /\ Exit \in N
  BY <1>0, <1>1
<1>6. ASSUME NEW T \in SUBSET N, Entry \in T, \A n \in T : succs[n] \subseteq T PROVE N \subseteq T \cup {Exit}
  <2>1. \A n \in T \cap Blocks : jumps[n] \subseteq T
    BY <1>0, <1>3, <1>6
  <2>2. R \subseteq T
    BY <1>1, <1>6, <1>a, <2>1
  <2> QED BY <2>2
<1> QED BY <1>3, <1>4, <1>5, <1>6 DEF succs

(* A graph whose every node is reached and reaches the exit.               *)
Linkable(N, cfa) ==
  /\ N \in SUBSET Nodes /\ Entry \in N /\ Exit \in N /\ cfa \in [N -> SUBSET N]
  /\ Connected(N, cfa, Entry) /\ Connected(N, Preds(cfa), Exit)

(* The control flow of a scope is such a graph.                            *)
LEMMA CFAFacts ==
  ASSUME NEW jumps \in [Blocks -> SUBSET Blocks]
  PROVE  LET cfa == LinkToExit(Linked(jumps)) IN Linkable(DOMAIN cfa, cfa)
<1> DEFINE succs == Linked(jumps)
           N == DOMAIN succs
           cfa == LinkToExit(succs)
<1>1. /\ N \in SUBSET Nodes /\ Entry \in N /\ Exit \in N
      /\ succs \in [N -> SUBSET N] /\ succs[Exit] = {}
      /\ \A T \in SUBSET N : Entry \in T /\ (\A n \in T : succs[n] \subseteq T) => N \subseteq T \cup {Exit}
  BY LinkedFacts
<1> HIDE DEF succs, N
<1>2. cfa \in [N -> SUBSET N] /\ Connected(N, cfa, Entry) /\ Connected(N, Preds(cfa), Exit)
  BY <1>1, LinkFacts
<1> HIDE DEF cfa
<1>3. DOMAIN cfa = N
  BY <1>2
<1>4. Linkable(DOMAIN cfa, cfa)
  BY <1>1, <1>2, <1>3 DEF Linkable
<1> QED BY <1>4 DEF cfa, succs

(* Its nodes are numbered forwards and backwards.                          *)
LEMMA CFGFacts ==
  ASSUME NEW N, NEW cfa, Linkable(N, cfa), NEW forward \in BOOLEAN
  PROVE  Numbered(CFG(cfa, forward), N)
<1> DEFINE succs == IF forward THEN cfa ELSE Preds(cfa)
           entry == IF forward THEN Entry ELSE Exit
           g == CFG(cfa, forward)
           rpo == PostOrderVisit(succs, entry)
           index == [n \in Range(rpo) |-> CHOOSE i \in DOMAIN rpo : rpo[i] = n]
<1>1. N \in SUBSET Nodes /\ entry \in N /\ succs \in [N -> SUBSET N] /\ Connected(N, succs, entry)
  <2>1. cfa \in [N -> SUBSET N] /\ N \in SUBSET Nodes /\ Entry \in N /\ Exit \in N
    BY DEF Linkable
  <2>2. Preds(cfa) \in [N -> SUBSET N]
    BY <2>1 DEF Preds
  <2> QED BY <2>1, <2>2 DEF Linkable
<1>2. g = [entry |-> entry, succs |-> succs, preds |-> Preds(succs), rpo |-> rpo, index |-> index]
  BY DEF CFG
<1>3. g.entry = entry /\ g.succs = succs /\ g.preds = Preds(succs) /\ g.rpo = rpo /\ g.index = index
  BY <1>2
<1> HIDE DEF g, succs, entry
<1>4. /\ rpo \in Seq(N) /\ Len(rpo) > 0 /\ rpo[1] = entry /\ Range(rpo) = N
      /\ \A i, j \in 1 .. Len(rpo) : rpo[i] = rpo[j] => i = j
      /\ \A i \in 1 .. Len(rpo) : rpo[i] = entry \/ \E j \in 1 .. i - 1 : rpo[i] \in succs[rpo[j]]
  BY <1>1, VisitFacts
<1> HIDE DEF rpo
<1>5. DOMAIN rpo = 1 .. Len(rpo) /\ Len(rpo) \in Nat
  BY <1>4
<1>6. ASSUME NEW i \in 1 .. Len(rpo) PROVE rpo[i] \in N /\ index[rpo[i]] = i
  <2>1. rpo[i] \in Range(rpo) /\ \E j \in DOMAIN rpo : rpo[j] = rpo[i]
    BY <1>5 DEF Range
  <2>2. index[rpo[i]] \in DOMAIN rpo /\ rpo[index[rpo[i]]] = rpo[i]
    BY <2>1
  <2> QED BY <1>4, <1>5, <2>1, <2>2
<1> HIDE DEF index
<1>7. ASSUME NEW n \in N \ {entry} PROVE \E m \in N : n \in succs[m] /\ index[m] < index[n]
  <2>1. PICK i \in 1 .. Len(rpo) : rpo[i] = n
    BY <1>4, <1>5 DEF Range
  <2>2. PICK j \in 1 .. i - 1 : n \in succs[rpo[j]]
    BY <1>4, <2>1
  <2>3. j \in 1 .. Len(rpo) /\ j < i
    BY <1>5
  <2> QED BY <1>6, <2>1, <2>2, <2>3
<1>8. g.index = [n \in Range(g.rpo) |-> CHOOSE i \in DOMAIN g.rpo : g.rpo[i] = n]
  <2>1. ASSUME NEW r, r = rpo
        PROVE  index = [n \in Range(r) |-> CHOOSE i \in DOMAIN r : r[i] = n]
    BY <2>1 DEF index
  <2> QED BY <1>3, <2>1
<1>9. g.rpo \in Seq(N) /\ Len(g.rpo) > 0 /\ g.rpo[1] = g.entry /\ Range(g.rpo) = N
      /\ \A i, j \in 1 .. Len(g.rpo) : g.rpo[i] = g.rpo[j] => i = j
  BY <1>3, <1>4
<1>10. g.succs \in [N -> SUBSET N] /\ g.preds = Preds(g.succs) /\ g.entry \in N
  BY <1>1, <1>3
<1>11. \A n \in N \ {g.entry} : \E m \in N : n \in g.succs[m] /\ g.index[m] < g.index[n]
  BY <1>3, <1>7
<1>12. N \in SUBSET Nodes
  BY <1>1
<1>13. Numbered(g, N)
  BY <1>8, <1>9, <1>10, <1>11, <1>12, Zenon DEF Numbered
<1> QED BY <1>13 DEF g

=============================================================================
