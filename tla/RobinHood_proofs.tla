--------------------------- MODULE RobinHood_proofs ---------------------------
(***************************************************************************)
(* What the algorithms of the Robin Hood table return, for any elements,   *)
(* hashes and capacities: lemmas for the proofs about its users.           *)
(***************************************************************************)
EXTENDS RobinHood, FiniteSetTheorems, NaturalsInduction, WellFoundedInduction, TLAPS

-----------------------------------------------------------------------------
(* Numbers: the least one of a set, induction, mod.                        *)

(* A non-empty set of naturals has a least element, and Least finds it.    *)
LEMMA LeastIsLeast ==
  ASSUME NEW S \in SUBSET Nat, S # {}
  PROVE  Least(S) \in S /\ \A y \in S : Least(S) <= y
<1> DEFINE R == OpToRel(<, Nat)
<1>1. IsWellFoundedOn(R, Nat)
  BY NatLessThanWellFounded DEF OpToRel
<1> HIDE DEF R
<1>2. PICK x \in S : \A y \in S : <<y, x>> \notin R
  BY <1>1, WFMin
<1>3. ASSUME NEW y \in S PROVE x <= y
  <2>1. <<y, x>> \notin R
    BY <1>2
  <2>2. y < x => <<y, x>> \in R
    BY DEF R, OpToRel
  <2> QED BY <2>1, <2>2
<1> QED BY <1>3 DEF Least

(* Induction up to n, over the set of the numbers a fact holds of.         *)
LEMMA InductionTo ==
  ASSUME NEW S, NEW m \in Nat, NEW n \in Nat, m <= n => m \in S,
         \A i \in m .. n - 1 : i \in S => i + 1 \in S
  PROVE  m .. n \subseteq S
<1> SUFFICES ASSUME ~(m .. n \subseteq S) PROVE FALSE
  OBVIOUS
<1> DEFINE T == (m .. n) \ S
<1>1. PICK x \in T : \A y \in T : x <= y
  <2>1. T \in SUBSET Nat /\ T # {}
    OBVIOUS
  <2> HIDE DEF T
  <2> QED BY <2>1, LeastIsLeast
<1>2. x # m
  OBVIOUS
<1>3. x - 1 \in S
  BY <1>1, <1>2
<1> QED BY <1>1, <1>2, <1>3

(* mod of the sums the table computes: at most one turn is taken off.      *)
LEMMA ModIsWrap ==
  ASSUME NEW cap \in Nat \ {0}
  PROVE  /\ \A x \in Nat : Mod(cap, x) \in 0 .. cap - 1
         /\ \A x \in 0 .. cap - 1 : Mod(cap, x) = x
         /\ \A x \in cap .. 2 * cap - 1 : Mod(cap, x) = x - cap
<1>1. \A x \in Nat : Mod(cap, x) \in 0 .. cap - 1
  BY DEF Mod
<1>2. \A x \in 0 .. cap - 1 : Mod(cap, x) = x
  BY DEF Mod
<1>3. \A x \in cap .. 2 * cap - 1 : Mod(cap, x) = x - cap
  BY DEF Mod
<1> QED BY <1>1, <1>2, <1>3

-----------------------------------------------------------------------------
(* Powers of two.                                                          *)

LEMMA OneIsPowerOfTwo == IsPowerOfTwo(1)
  BY DEF IsPowerOfTwo

(* Twice a power of two is one.                                            *)
LEMMA DoubledPower ==
  ASSUME NEW c \in Nat, IsPowerOfTwo(c)
  PROVE  IsPowerOfTwo(2 * c)
<1> SUFFICES ASSUME NEW k \in 1 .. 2 * c, NEW q \in 1 .. 2 * c, 2 * c = (2 * k + 1) * q
             PROVE  FALSE
  BY DEF IsPowerOfTwo
<1> DEFINE r == c - k * q
<1>1. k * q \in Nat /\ r \in Int
  OBVIOUS
<1>2. 2 * c = 2 * (k * q) + q
  OBVIOUS
<1>3. q = 2 * r
  BY <1>1, <1>2
<1>4. r >= 1 /\ r <= c
  BY <1>1, <1>3
<1>5. c = k * q + r
  BY <1>1
<1>6. k * q = 2 * (k * r)
  BY <1>3, <1>4
<1>7. c = (2 * k + 1) * r
  BY <1>5, <1>6, <1>4
<1>8. k * r >= k
  BY <1>4
<1>9. k \in 1 .. c /\ r \in 1 .. c
  BY <1>1, <1>5, <1>6, <1>8, <1>4
<1> HIDE DEF r
<1> QED BY <1>7, <1>9 DEF IsPowerOfTwo

(* A power of two other than 1 is twice a power of two.                    *)
LEMMA HalvedPower ==
  ASSUME NEW c \in Nat, IsPowerOfTwo(c), c # 1
  PROVE  \E h \in Nat : c = 2 * h /\ IsPowerOfTwo(h)
<1>1. c > 1
  BY DEF IsPowerOfTwo
<1>2. PICK h \in Nat : c = 2 * h \/ c = 2 * h + 1
  <2>1. c \div 2 \in Nat /\ (c = 2 * (c \div 2) \/ c = 2 * (c \div 2) + 1)
    OBVIOUS
  <2> QED BY <2>1
<1>3. c # 2 * h + 1
  <2> SUFFICES ASSUME c = (2 * h + 1) * 1 PROVE FALSE
    OBVIOUS
  <2> QED BY <1>1 DEF IsPowerOfTwo
<1>4. IsPowerOfTwo(h)
  <2> SUFFICES ASSUME NEW k \in 1 .. h, NEW q \in 1 .. h, h = (2 * k + 1) * q
               PROVE  FALSE
    BY <1>1, <1>2, <1>3 DEF IsPowerOfTwo
  <2>1. c = (2 * k + 1) * (2 * q)
    BY <1>2, <1>3
  <2>2. 2 * q \in 1 .. c /\ k \in 1 .. c
    BY <1>2, <1>3
  <2> QED BY <2>1, <2>2 DEF IsPowerOfTwo
<1> QED BY <1>2, <1>3, <1>4

(* Every number has a power of two between it and its double.              *)
LEMMA PowerAbove ==
  ASSUME NEW n \in Nat \ {0}
  PROVE  \E c \in n .. 2 * n : IsPowerOfTwo(c)
<1> DEFINE S == {s \in Nat : \E c \in s .. 2 * s : IsPowerOfTwo(c)}
<1>1. 1 \in S
  BY OneIsPowerOfTwo
<1>2. ASSUME NEW s \in 1 .. n - 1, s \in S PROVE s + 1 \in S
  <2>1. PICK c \in s .. 2 * s : IsPowerOfTwo(c)
    BY <1>2
  <2>2. CASE c >= s + 1
    BY <2>1, <2>2
  <2>3. CASE c = s
    BY <2>1, <2>3, DoubledPower
  <2> QED BY <2>1, <2>2, <2>3
<1> HIDE DEF S
<1>3. 1 .. n \subseteq S
  BY <1>1, <1>2, InductionTo
<1> QED BY <1>3 DEF S

-----------------------------------------------------------------------------
(* Definitions by recursion over a range of numbers.                       *)

(* f is what step makes of a between m and k, within the numbered values W. *)
Iterates(f, m, k, a, step, W) ==
  /\ f[m] = a
  /\ \A i \in m .. k - 1 : f[i + 1] = step[<<i, f[i]>>]
  /\ \A i \in m .. k : <<i, f[i]>> \in W

(* Values computed step by step, each step staying within W, exist.        *)
LEMMA IterationExists ==
  ASSUME NEW V, NEW W \in SUBSET (Nat \X V), NEW m \in Nat, NEW n \in Nat, m <= n,
         NEW a \in V, NEW step, <<m, a>> \in W,
         \A i \in m .. n - 1 : \A v \in V :
           <<i, v>> \in W => step[<<i, v>>] \in V /\ <<i + 1, step[<<i, v>>]>> \in W
  PROVE  \E f \in [m .. n -> V] : Iterates(f, m, n, a, step, W)
<1> DEFINE S == {k \in m .. n : \E f \in [m .. k -> V] : Iterates(f, m, k, a, step, W)}
<1>1. m \in S
  <2> DEFINE f == [i \in m .. m |-> a]
  <2>1. f \in [m .. m -> V] /\ Iterates(f, m, m, a, step, W)
    BY DEF Iterates
  <2> QED BY <2>1
<1>2. ASSUME NEW k \in m .. n - 1, k \in S PROVE k + 1 \in S
  <2>1. PICK f \in [m .. k -> V] : Iterates(f, m, k, a, step, W)
    BY <1>2
  <2> DEFINE next == step[<<k, f[k]>>]
             g == [i \in m .. k + 1 |-> IF i = k + 1 THEN next ELSE f[i]]
  <2>2. next \in V /\ <<k + 1, next>> \in W
    <3>1. k \in m .. k /\ f[k] \in V /\ <<k, f[k]>> \in W
      BY <2>1 DEF Iterates
    <3> QED BY <3>1
  <2> HIDE DEF next
  <2>3. g \in [m .. k + 1 -> V]
    BY <2>2
  <2>4. g[k + 1] = next /\ \A i \in m .. k : g[i] = f[i]
    OBVIOUS
  <2> HIDE DEF g
  <2>5. \A i \in m .. k : g[i + 1] = step[<<i, g[i]>>]
    <3> SUFFICES ASSUME NEW i \in m .. k PROVE g[i + 1] = step[<<i, g[i]>>]
      OBVIOUS
    <3>1. CASE i = k
      BY <2>4, <3>1 DEF next
    <3>2. CASE i # k
      <4>1. i \in m .. k - 1 /\ i + 1 \in m .. k
        BY <3>2
      <4> QED BY <2>1, <2>4, <4>1 DEF Iterates
    <3> QED BY <3>1, <3>2
  <2>6. \A i \in m .. k + 1 : <<i, g[i]>> \in W
    <3> SUFFICES ASSUME NEW i \in m .. k + 1 PROVE <<i, g[i]>> \in W
      OBVIOUS
    <3>1. CASE i = k + 1
      BY <2>2, <2>4, <3>1
    <3>2. CASE i # k + 1
      <4>1. i \in m .. k
        BY <3>2
      <4> QED BY <2>1, <2>4, <4>1 DEF Iterates
    <3> QED BY <3>1, <3>2
  <2>7. g[m] = a
    BY <2>1, <2>4 DEF Iterates
  <2>8. (k + 1) - 1 = k
    OBVIOUS
  <2>9. Iterates(g, m, k + 1, a, step, W)
    BY <2>5, <2>6, <2>7, <2>8 DEF Iterates
  <2> QED BY <2>3, <2>9
<1>3. m .. n \subseteq S
  <2> HIDE DEF S
  <2> QED BY <1>1, <1>2, InductionTo
<1>4. n \in S
  BY <1>3
<1> QED BY <1>4

-----------------------------------------------------------------------------
(* Slots, and how far they are from where an element wants to be.          *)

(* The elements and their hashes.                                          *)
Hashed(E, hash) == Sentinel \notin E /\ \A e \in E : hash[e] \in Nat

(* What nodes_ of capacity cap can hold.                                   *)
NodesOf(cap, E) == [0 .. cap - 1 -> E \cup {Sentinel}]
Used(cap, nodes) == {i \in 0 .. cap - 1 : nodes[i] # Sentinel}

(* How far slot i is from the desired slot of e.                           *)
Away(cap, e, i, hash) == Mod(cap, i + cap - DesiredPos(cap, e, hash))

(* No two slots hold the same element.                                     *)
Distinct(cap, nodes) == \A i, j \in Used(cap, nodes) : nodes[i] = nodes[j] => i = j

(* Robin Hood order of a table's slots.                                    *)
Ordered(cap, nodes, hash) ==
  \A i \in Used(cap, nodes) :
    ProbeDistance(cap, nodes, i, hash) > 0 =>
      LET prev == Mod(cap, i + cap - 1)
      IN  /\ nodes[prev] # Sentinel
          /\ ProbeDistance(cap, nodes, prev, hash) >= ProbeDistance(cap, nodes, i, hash) - 1

(* The probe slots of an element and the distances of the slots from it    *)
(* number the same circle; one step back on it is one distance less.       *)
LEMMA Circle ==
  ASSUME NEW cap \in Nat \ {0}, NEW E, NEW hash, Hashed(E, hash), NEW e \in E
  PROVE  /\ \A i \in 0 .. cap - 1 : /\ Away(cap, e, i, hash) \in 0 .. cap - 1
                                    /\ ProbeSlot(cap, e, Away(cap, e, i, hash), hash) = i
         /\ \A d \in 0 .. cap - 1 : /\ ProbeSlot(cap, e, d, hash) \in 0 .. cap - 1
                                    /\ Away(cap, e, ProbeSlot(cap, e, d, hash), hash) = d
         /\ \A d \in 0 .. cap - 1 :
              Mod(cap, ProbeSlot(cap, e, d, hash) + cap - 1)
                = ProbeSlot(cap, e, IF d = 0 THEN cap - 1 ELSE d - 1, hash)
<1> DEFINE p == DesiredPos(cap, e, hash)
<1>1. p \in 0 .. cap - 1
  BY ModIsWrap DEF DesiredPos, Hashed
<1>2. \A x \in 0 .. 2 * cap - 1 : Mod(cap, x) = IF x < cap THEN x ELSE x - cap
  BY ModIsWrap
<1> HIDE DEF p
<1>3. \A d : ProbeSlot(cap, e, d, hash) = Mod(cap, p + d)
  BY DEF ProbeSlot, p
<1>4. \A i : Away(cap, e, i, hash) = Mod(cap, i + cap - p)
  BY DEF Away, p
<1>5. ASSUME NEW i \in 0 .. cap - 1
      PROVE  /\ Away(cap, e, i, hash) \in 0 .. cap - 1
             /\ ProbeSlot(cap, e, Away(cap, e, i, hash), hash) = i
  <2>1. Away(cap, e, i, hash) = IF i + cap - p < cap THEN i + cap - p ELSE i - p
    BY <1>1, <1>2, <1>4
  <2> QED BY <1>1, <1>2, <1>3, <2>1
<1>6. ASSUME NEW d \in 0 .. cap - 1
      PROVE  /\ ProbeSlot(cap, e, d, hash) \in 0 .. cap - 1
             /\ Away(cap, e, ProbeSlot(cap, e, d, hash), hash) = d
             /\ Mod(cap, ProbeSlot(cap, e, d, hash) + cap - 1)
                  = ProbeSlot(cap, e, IF d = 0 THEN cap - 1 ELSE d - 1, hash)
  <2>1. ProbeSlot(cap, e, d, hash) = IF p + d < cap THEN p + d ELSE p + d - cap
    BY <1>1, <1>2, <1>3
  <2>2. Away(cap, e, ProbeSlot(cap, e, d, hash), hash) = d
    BY <1>1, <1>2, <1>4, <2>1
  <2>3. CASE d = 0
    BY <1>1, <1>2, <1>3, <2>1, <2>2, <2>3
  <2>4. CASE d # 0
    BY <1>1, <1>2, <1>3, <2>1, <2>2, <2>4
  <2> QED BY <2>3, <2>4
<1> QED BY <1>5, <1>6

(* The distance the code computes for a used slot.                         *)
LEMMA DistanceIsAway ==
  ASSUME NEW cap \in Nat \ {0}, NEW E, NEW hash, Hashed(E, hash), NEW nodes \in NodesOf(cap, E),
         NEW i \in Used(cap, nodes)
  PROVE  /\ nodes[i] \in E /\ i \in 0 .. cap - 1
         /\ ProbeDistance(cap, nodes, i, hash) = Away(cap, nodes[i], i, hash)
         /\ ProbeDistance(cap, nodes, i, hash) \in 0 .. cap - 1
<1>1. nodes[i] \in E /\ i \in 0 .. cap - 1
  BY DEF Used, NodesOf
<1> QED BY <1>1, Circle DEF ProbeDistance, Away

-----------------------------------------------------------------------------
(* Displace: what the loop holds in hand.                                  *)

(* Hand satisfies its recursive definition.                                *)
LEMMA HandCarries ==
  ASSUME NEW E, NEW hash, Hashed(E, hash), NEW cap \in Nat \ {0}, NEW nodes \in NodesOf(cap, E),
         NEW n \in E, NEW first \in 0 .. cap - 1, NEW gap \in first .. cap - 1,
         \A d \in first .. gap - 1 : ProbeSlot(cap, n, d, hash) \in Used(cap, nodes)
  PROVE  LET hand    == Hand(cap, nodes, n, first, gap, hash)
             slot(d) == ProbeSlot(cap, n, d, hash)
             dist(d) == ProbeDistance(cap, nodes, slot(d), hash)
         IN  /\ hand \in [first .. gap -> E \X Nat]
             /\ hand[first] = <<n, first>>
             /\ \A d \in first .. gap - 1 :
                  hand[d + 1] = IF dist(d) < hand[d][2] THEN <<nodes[slot(d)], dist(d) + 1>>
                                ELSE <<hand[d][1], hand[d][2] + 1>>
<1> DEFINE hand    == Hand(cap, nodes, n, first, gap, hash)
           slot(d) == ProbeSlot(cap, n, d, hash)
           dist(d) == ProbeDistance(cap, nodes, slot(d), hash)
           move(d, held) == IF dist(d) < held[2] THEN <<nodes[slot(d)], dist(d) + 1>>
                            ELSE <<held[1], held[2] + 1>>
           V    == E \X Nat
           W    == (first .. gap) \X V
           step == [w \in (first .. gap - 1) \X V |-> move(w[1], w[2])]
           loop(h) == [d \in first .. gap |-> IF d = first THEN <<n, first>>
                                              ELSE move(d - 1, h[d - 1])]
<1>0. first \in Nat /\ gap \in Nat /\ first <= gap /\ <<n, first>> \in V
  OBVIOUS
<1>1. \A d \in first .. gap - 1 : nodes[slot(d)] \in E /\ dist(d) \in Nat
  BY DistanceIsAway
<1>2. \A d \in first .. gap - 1, held \in V : move(d, held) \in V
  BY <1>1
<1>3. \A d \in first .. gap - 1, held \in V : step[<<d, held>>] = move(d, held)
  OBVIOUS
<1> HIDE DEF move, step, dist, slot
<1>4. \E f \in [first .. gap -> V] : Iterates(f, first, gap, <<n, first>>, step, W)
  <2>1. \A d \in first .. gap - 1 : \A held \in V :
          <<d, held>> \in W =>
            step[<<d, held>>] \in V /\ <<d + 1, step[<<d, held>>]>> \in W
    BY <1>2, <1>3
  <2>2. <<n, first>> \in V /\ <<first, <<n, first>>>> \in W /\ W \in SUBSET (Nat \X V)
    OBVIOUS
  <2> HIDE DEF V, W
  <2> QED BY <1>0, <2>1, <2>2, IterationExists
<1>5. PICK f \in [first .. gap -> V] : Iterates(f, first, gap, <<n, first>>, step, W)
  BY <1>4
<1>6. f = loop(f)
  <2>1. \A d \in first .. gap : f[d] = IF d = first THEN <<n, first>> ELSE move(d - 1, f[d - 1])
    <3> SUFFICES ASSUME NEW d \in first .. gap, d # first PROVE f[d] = move(d - 1, f[d - 1])
      BY <1>5 DEF Iterates
    <3>1. d - 1 \in first .. gap - 1 /\ (d - 1) + 1 = d
      OBVIOUS
    <3>2. f[d - 1] \in V
      BY <3>1
    <3>3. f[d] = step[<<d - 1, f[d - 1]>>]
      BY <1>5, <3>1 DEF Iterates
    <3> QED BY <1>3, <3>1, <3>2, <3>3
  <2> QED BY <2>1
<1>7. hand = CHOOSE h : h = loop(h)
  BY DEF Hand, move, dist, slot
<1>8. hand = loop(hand)
  <2> HIDE DEF loop, hand
  <2> QED BY <1>6, <1>7
<1> HIDE DEF hand
<1>9. /\ hand[first] = <<n, first>>
      /\ \A d \in first .. gap - 1 : hand[d + 1] = move(d, hand[d])
  <2>1. \A d \in first .. gap : hand[d] = IF d = first THEN <<n, first>>
                                          ELSE move(d - 1, hand[d - 1])
    BY <1>8
  <2>2. \A d \in first .. gap - 1 : d + 1 \in first .. gap /\ d + 1 # first /\ (d + 1) - 1 = d
    OBVIOUS
  <2> QED BY <2>1, <2>2
<1>10. hand \in [first .. gap -> V]
  <2> DEFINE S == {d \in first .. gap : hand[d] \in V}
  <2>1. first \in S
    BY <1>0, <1>9
  <2>2. \A d \in first .. gap - 1 : d \in S => d + 1 \in S
    BY <1>2, <1>9
  <2> HIDE DEF S
  <2>3. first .. gap \subseteq S
    BY <1>0, <2>1, <2>2, InductionTo
  <2>4. \A d \in first .. gap : hand[d] \in V
    BY <2>3 DEF S
  <2>5. hand = [d \in first .. gap |-> hand[d]]
    BY <1>8
  <2> HIDE DEF V
  <2> QED BY <2>4, <2>5
<1> QED BY <1>9, <1>10 DEF hand, move, dist, slot

-----------------------------------------------------------------------------
(* Displace: what the loop leaves behind.                                  *)

(* The loop may place n, new to an ordered table, from step first on: the  *)
(* steps before gap meet used slots, and those before first no slot whose  *)
(* element would give way.                                                 *)
Displacing(cap, nodes, n, first, gap, E, hash) ==
  /\ cap \in Nat \ {0} /\ Hashed(E, hash) /\ nodes \in NodesOf(cap, E)
  /\ n \in E /\ \A i \in Used(cap, nodes) : nodes[i] # n
  /\ Distinct(cap, nodes) /\ Ordered(cap, nodes, hash)
  /\ first \in 0 .. cap - 1 /\ gap \in first .. cap - 1
  /\ nodes[ProbeSlot(cap, n, gap, hash)] = Sentinel
  /\ \A d \in 0 .. gap - 1 : ProbeSlot(cap, n, d, hash) \in Used(cap, nodes)
  /\ \A d \in 0 .. first - 1 :
       ProbeDistance(cap, nodes, ProbeSlot(cap, n, d, hash), hash) >= d

(* What the slot of step d holds in the end, and the distance of that.     *)
Gives(cap, nodes, n, first, gap, hash, d) ==
  \/ d = gap
  \/ ProbeDistance(cap, nodes, ProbeSlot(cap, n, d, hash), hash)
       < Hand(cap, nodes, n, first, gap, hash)[d][2]
Put(cap, nodes, n, first, gap, hash, d) ==
  IF Gives(cap, nodes, n, first, gap, hash, d) THEN Hand(cap, nodes, n, first, gap, hash)[d][1]
  ELSE nodes[ProbeSlot(cap, n, d, hash)]

(* A step forward on the circle is one more away, unless it ends a turn.   *)
LEMMA AwayStep ==
  ASSUME NEW cap \in Nat \ {0}, NEW E, NEW hash, Hashed(E, hash), NEW e \in E,
         NEW i \in 0 .. cap - 1
  PROVE  LET prev == Mod(cap, i + cap - 1)
         IN  /\ prev \in 0 .. cap - 1
             /\ Away(cap, e, i, hash) > 0 => Away(cap, e, prev, hash) = Away(cap, e, i, hash) - 1
             /\ Away(cap, e, i, hash) = 0 => Away(cap, e, prev, hash) = cap - 1
             /\ Away(cap, e, prev, hash) < cap - 1
                  => Away(cap, e, i, hash) = Away(cap, e, prev, hash) + 1
<1> DEFINE prev == Mod(cap, i + cap - 1)
           a == Away(cap, e, i, hash)
<1>1. a \in 0 .. cap - 1 /\ i = ProbeSlot(cap, e, a, hash)
  BY Circle
<1>2. prev = ProbeSlot(cap, e, IF a = 0 THEN cap - 1 ELSE a - 1, hash)
  BY <1>1, Circle
<1>3. (IF a = 0 THEN cap - 1 ELSE a - 1) \in 0 .. cap - 1
  BY <1>1
<1>4. prev \in 0 .. cap - 1 /\ Away(cap, e, prev, hash) = IF a = 0 THEN cap - 1 ELSE a - 1
  BY <1>2, <1>3, Circle
<1> HIDE DEF prev, a
<1>5. /\ a > 0 => Away(cap, e, prev, hash) = a - 1
      /\ a = 0 => Away(cap, e, prev, hash) = cap - 1
      /\ Away(cap, e, prev, hash) < cap - 1 => a = Away(cap, e, prev, hash) + 1
  BY <1>1, <1>4
<1> QED BY <1>4, <1>5 DEF prev, a

(* The loop's invariant: the element in hand is where it would be at its   *)
(* distance, and what the loop has left behind, with it, is what was there *)
(* and n, each element once.                                               *)
HandInvariant(cap, nodes, n, first, gap, hash, d) ==
  LET held == Hand(cap, nodes, n, first, gap, hash)[d]
      put(k) == Put(cap, nodes, n, first, gap, hash, k)
  IN  /\ held[2] <= d
      /\ Away(cap, held[1], ProbeSlot(cap, n, d, hash), hash) = held[2]
      /\ {put(k) : k \in first .. d - 1} \cup {held[1]}
           = {nodes[ProbeSlot(cap, n, k, hash)] : k \in first .. d - 1} \cup {n}
      /\ \A k \in first .. d - 1 : put(k) # held[1]
      /\ \A k, l \in first .. d - 1 : put(k) = put(l) => k = l

LEMMA HandInvariantHolds ==
  ASSUME NEW E, NEW hash, NEW cap, NEW nodes, NEW n, NEW first, NEW gap,
         Displacing(cap, nodes, n, first, gap, E, hash)
  PROVE  \A d \in first .. gap : HandInvariant(cap, nodes, n, first, gap, hash, d)
<1> DEFINE hand    == Hand(cap, nodes, n, first, gap, hash)
           slot(d) == ProbeSlot(cap, n, d, hash)
           dist(d) == ProbeDistance(cap, nodes, slot(d), hash)
           put(d)  == Put(cap, nodes, n, first, gap, hash, d)
           Inv(d)  == HandInvariant(cap, nodes, n, first, gap, hash, d)
           S       == {d \in first .. gap : Inv(d)}
<1>1. /\ cap \in Nat \ {0} /\ Hashed(E, hash) /\ nodes \in NodesOf(cap, E) /\ n \in E
      /\ first \in 0 .. cap - 1 /\ gap \in first .. cap - 1
      /\ first \in Nat /\ gap \in Nat /\ first <= gap
      /\ \A d \in first .. gap - 1 : slot(d) \in Used(cap, nodes)
  BY DEF Displacing
<1>2. /\ hand \in [first .. gap -> E \X Nat]
      /\ hand[first] = <<n, first>>
      /\ \A d \in first .. gap - 1 :
           hand[d + 1] = IF dist(d) < hand[d][2] THEN <<nodes[slot(d)], dist(d) + 1>>
                         ELSE <<hand[d][1], hand[d][2] + 1>>
  BY <1>1, HandCarries
<1>3. first \in S
  <2>1. Away(cap, n, slot(first), hash) = first
    BY <1>1, Circle
  <2>2. first .. first - 1 = {}
    BY <1>1
  <2>3. first \in first .. gap
    BY <1>1
  <2> QED BY <1>2, <2>1, <2>2, <2>3 DEF HandInvariant
<1>4. ASSUME NEW d \in first .. gap - 1, Inv(d) PROVE Inv(d + 1)
  <2> DEFINE held == hand[d]
             here == nodes[slot(d)]
             old  == {nodes[slot(k)] : k \in first .. d - 1}
             new  == {put(k) : k \in first .. d - 1}
  <2>1. d \in 0 .. cap - 1 /\ d + 1 \in 0 .. cap - 1 /\ d \in first .. gap /\ d # gap /\ d < cap - 1
    BY <1>1
  <2>2. /\ held[1] \in E /\ held[2] \in Nat /\ held[2] <= d
        /\ Away(cap, held[1], slot(d), hash) = held[2]
        /\ new \cup {held[1]} = old \cup {n}
        /\ held[1] \notin new
        /\ \A k, l \in first .. d - 1 : put(k) = put(l) => k = l
    BY <1>2, <1>4, <2>1 DEF HandInvariant
  <2>3. slot(d) = Mod(cap, slot(d + 1) + cap - 1) /\ slot(d + 1) \in 0 .. cap - 1
    BY <1>1, <2>1, Circle
  <2>4. /\ slot(d) \in Used(cap, nodes) /\ here \in E /\ dist(d) \in 0 .. cap - 1
        /\ dist(d) = Away(cap, here, slot(d), hash)
    BY <1>1, DistanceIsAway
  <2>5. here # n /\ here \notin old
    <3>1. here # n
      BY <2>4 DEF Displacing
    <3>2. ASSUME NEW k \in first .. d - 1 PROVE nodes[slot(k)] # here
      <4>1. k \in 0 .. cap - 1 /\ k \in first .. gap - 1 /\ k # d
        BY <1>1, <2>1
      <4>2. slot(k) # slot(d)
        BY <1>1, <2>1, <4>1, Circle
      <4> QED BY <1>1, <2>4, <4>1, <4>2 DEF Displacing, Distinct
    <3> QED BY <3>1, <3>2
  <2>6. \A e \in E : Away(cap, e, slot(d), hash) < cap - 1 =>
          Away(cap, e, slot(d + 1), hash) = Away(cap, e, slot(d), hash) + 1
    BY <1>1, <2>3, AwayStep
  <2>7. /\ {nodes[slot(k)] : k \in first .. (d + 1) - 1} = old \cup {here}
        /\ {put(k) : k \in first .. (d + 1) - 1} = new \cup {put(d)}
        /\ \A k \in first .. (d + 1) - 1 : k \in first .. d - 1 \/ k = d
    <3>1. first .. (d + 1) - 1 = (first .. d - 1) \cup {d}
      BY <1>1, <2>1
    <3> HIDE DEF put, slot
    <3> QED BY <3>1
  <2>8. CASE dist(d) < held[2]
    <3>1. put(d) = held[1] /\ hand[d + 1] = <<here, dist(d) + 1>>
      BY <1>2, <2>1, <2>8 DEF Put, Gives
    <3>2. Away(cap, here, slot(d + 1), hash) = dist(d) + 1 /\ dist(d) + 1 <= d + 1
      <4> HIDE DEF hand, slot, dist, here
      <4>1. Away(cap, here, slot(d), hash) < cap - 1
        BY <1>1, <2>1, <2>2, <2>4, <2>8
      <4> QED BY <1>1, <2>1, <2>2, <2>4, <2>6, <2>8, <4>1
    <3>3. here \notin new /\ here # held[1]
      BY <2>2, <2>5
    <3>4. (new \cup {put(d)}) \cup {hand[d + 1][1]} = (old \cup {here}) \cup {n}
      BY <2>2, <3>1
    <3>5. \A k \in first .. (d + 1) - 1 : put(k) # hand[d + 1][1]
      BY <2>2, <2>7, <3>1, <3>3
    <3>6. \A k, l \in first .. (d + 1) - 1 : put(k) = put(l) => k = l
      <4>1. \A k \in first .. d - 1 : put(k) # put(d)
        BY <2>2, <3>1, <3>3
      <4> HIDE DEF put
      <4> QED BY <2>2, <2>7, <4>1
    <3>7. hand[d + 1][2] <= d + 1 /\ Away(cap, hand[d + 1][1], slot(d + 1), hash) = hand[d + 1][2]
      BY <3>1, <3>2
    <3> QED BY <2>7, <3>4, <3>5, <3>6, <3>7 DEF HandInvariant
  <2>9. CASE ~(dist(d) < held[2])
    <3>1. put(d) = here /\ hand[d + 1] = <<held[1], held[2] + 1>>
      BY <1>2, <2>1, <2>9 DEF Put, Gives
    <3>2. Away(cap, held[1], slot(d + 1), hash) = held[2] + 1 /\ held[2] + 1 <= d + 1
      <4> HIDE DEF hand, slot, dist, held
      <4>1. Away(cap, held[1], slot(d), hash) < cap - 1
        BY <1>1, <2>1, <2>2
      <4> QED BY <1>1, <2>1, <2>2, <2>6, <4>1
    <3>3. here \notin new /\ here # held[1]
      BY <2>2, <2>5
    <3>4. (new \cup {put(d)}) \cup {hand[d + 1][1]} = (old \cup {here}) \cup {n}
      BY <2>2, <3>1
    <3>5. \A k \in first .. (d + 1) - 1 : put(k) # hand[d + 1][1]
      BY <2>2, <2>7, <3>1, <3>3
    <3>6. \A k, l \in first .. (d + 1) - 1 : put(k) = put(l) => k = l
      <4>1. \A k \in first .. d - 1 : put(k) # put(d)
        BY <2>2, <3>1, <3>3
      <4> HIDE DEF put
      <4> QED BY <2>2, <2>7, <4>1
    <3>7. hand[d + 1][2] <= d + 1 /\ Away(cap, hand[d + 1][1], slot(d + 1), hash) = hand[d + 1][2]
      BY <3>1, <3>2
    <3> QED BY <2>7, <3>4, <3>5, <3>6, <3>7 DEF HandInvariant
  <2> QED BY <2>8, <2>9
<1>5. first .. gap \subseteq S
  <2>1. \A d \in first .. gap - 1 : d \in S => d + 1 \in S
    BY <1>1, <1>4
  <2> HIDE DEF S
  <2> QED BY <1>1, <1>3, <2>1, InductionTo
<1> QED BY <1>5

(* The elements in the slots.                                              *)
Members(cap, nodes) == {nodes[i] : i \in Used(cap, nodes)}

(* The loop's own search for a free slot ends at gap.                      *)
LEMMA GapIsLeast ==
  ASSUME NEW E, NEW hash, NEW cap, NEW nodes, NEW n, NEW first, NEW gap,
         Displacing(cap, nodes, n, first, gap, E, hash)
  PROVE  gap = Least({d \in first .. cap - 1 : nodes[ProbeSlot(cap, n, d, hash)] = Sentinel})
<1> DEFINE F == {d \in first .. cap - 1 : nodes[ProbeSlot(cap, n, d, hash)] = Sentinel}
<1>1. cap \in Nat \ {0} /\ first \in 0 .. cap - 1 /\ gap \in first .. cap - 1 /\ gap \in F
  BY DEF Displacing
<1>2. F \in SUBSET Nat /\ F # {}
  BY <1>1
<1>3. \A d \in F : d >= gap
  BY <1>1 DEF Displacing, Used
<1> HIDE DEF F
<1>4. Least(F) \in F /\ Least(F) <= gap
  BY <1>1, <1>2, LeastIsLeast
<1>5. Least(F) >= gap /\ Least(F) \in Nat
  BY <1>2, <1>3, <1>4
<1>6. gap = Least(F)
  BY <1>1, <1>4, <1>5
<1> QED BY <1>6 DEF F

(* Displace puts n among the elements: one more slot is used, every        *)
(* element stays, and the slots remain ordered unless they are now full.   *)
LEMMA DisplaceInserts ==
  ASSUME NEW E, NEW hash, NEW cap, NEW nodes, NEW n, NEW first, NEW gap,
         Displacing(cap, nodes, n, first, gap, E, hash)
  PROVE  LET new  == Displace(cap, nodes, n, first, hash)
             free == ProbeSlot(cap, n, gap, hash)
         IN  /\ new \in NodesOf(cap, E)
             /\ Used(cap, new) = Used(cap, nodes) \cup {free}
             /\ free \in 0 .. cap - 1 /\ free \notin Used(cap, nodes)
             /\ Members(cap, new) = Members(cap, nodes) \cup {n}
             /\ Distinct(cap, new)
             /\ gap < cap - 1 => Ordered(cap, new, hash)
<1> DEFINE hand    == Hand(cap, nodes, n, first, gap, hash)
           slot(d) == ProbeSlot(cap, n, d, hash)
           dist(d) == ProbeDistance(cap, nodes, slot(d), hash)
           put(d)  == Put(cap, nodes, n, first, gap, hash, d)
           gives(d) == Gives(cap, nodes, n, first, gap, hash, d)
           at(i)   == Away(cap, n, i, hash)
           new     == Displace(cap, nodes, n, first, hash)
<1>1. /\ cap \in Nat \ {0} /\ Hashed(E, hash) /\ nodes \in NodesOf(cap, E) /\ n \in E
      /\ first \in 0 .. cap - 1 /\ gap \in first .. cap - 1
      /\ first \in Nat /\ gap \in Nat /\ first <= gap
      /\ \A d \in first .. gap - 1 : slot(d) \in Used(cap, nodes)
      /\ nodes[slot(gap)] = Sentinel
  BY DEF Displacing
<1>2. /\ hand \in [first .. gap -> E \X Nat]
      /\ hand[first] = <<n, first>>
      /\ \A d \in first .. gap - 1 :
           hand[d + 1] = IF dist(d) < hand[d][2] THEN <<nodes[slot(d)], dist(d) + 1>>
                         ELSE <<hand[d][1], hand[d][2] + 1>>
  BY <1>1, HandCarries
<1>3. \A d \in first .. gap : HandInvariant(cap, nodes, n, first, gap, hash, d)
  BY HandInvariantHolds
<1>4. /\ \A i \in 0 .. cap - 1 : at(i) \in 0 .. cap - 1 /\ slot(at(i)) = i
      /\ \A d \in 0 .. cap - 1 : slot(d) \in 0 .. cap - 1 /\ at(slot(d)) = d
      /\ \A d \in 0 .. cap - 1 :
           Mod(cap, slot(d) + cap - 1) = slot(IF d = 0 THEN cap - 1 ELSE d - 1)
  BY <1>1, Circle
<1>5. new = [i \in 0 .. cap - 1 |-> IF at(i) \in first .. gap THEN put(at(i)) ELSE nodes[i]]
  BY GapIsLeast DEF Displace, Put, Gives, Away
<1>6. \A d \in first .. gap : put(d) \in E
  <2> SUFFICES ASSUME NEW d \in first .. gap PROVE put(d) \in E
    OBVIOUS
  <2>1. hand[d][1] \in E
    BY <1>2
  <2>2. d # gap => nodes[slot(d)] \in E
    BY <1>1, DistanceIsAway
  <2> QED BY <2>1, <2>2 DEF Put, Gives
<1>7. put(gap) = hand[gap][1]
  BY DEF Put, Gives
<1>8. \A d \in first .. gap : ~gives(d) => put(d) = nodes[slot(d)]
  BY DEF Put
<1>9. \A d \in first .. gap : gives(d) => put(d) = hand[d][1]
  BY DEF Put
<1>10. \A d \in first .. gap : gives(d) <=> d = gap \/ dist(d) < hand[d][2]
  BY DEF Gives
<1>11. {put(d) : d \in first .. gap} = {nodes[slot(d)] : d \in first .. gap - 1} \cup {n}
  <2>1. first .. gap = (first .. gap - 1) \cup {gap} /\ gap \in first .. gap
    BY <1>1
  <2>2. {put(d) : d \in first .. gap - 1} \cup {put(gap)}
          = {nodes[slot(d)] : d \in first .. gap - 1} \cup {n}
    BY <1>3, <1>7, <2>1 DEF HandInvariant
  <2> HIDE DEF put, slot
  <2> QED BY <2>1, <2>2
<1>12. \A k, l \in first .. gap : put(k) = put(l) => k = l
  <2>1. /\ \A k \in first .. gap - 1 : put(k) # put(gap)
        /\ \A k, l \in first .. gap - 1 : put(k) = put(l) => k = l
    BY <1>1, <1>3, <1>7 DEF HandInvariant
  <2>2. \A k \in first .. gap : k \in first .. gap - 1 \/ k = gap
    BY <1>1
  <2> HIDE DEF put
  <2> QED BY <2>1, <2>2
<1> HIDE DEF hand, slot, dist, put, gives, at, new
<1>13. /\ \A i \in 0 .. cap - 1 : at(i) \notin first .. gap => new[i] = nodes[i]
       /\ \A i \in 0 .. cap - 1 : at(i) \in first .. gap => new[i] = put(at(i))
       /\ \A d \in first .. gap : new[slot(d)] = put(d) /\ slot(d) \in 0 .. cap - 1
  <2>1. \A d \in first .. gap : d \in 0 .. cap - 1
    BY <1>1
  <2> QED BY <1>4, <1>5, <2>1
<1>14. new \in NodesOf(cap, E)
  BY <1>1, <1>4, <1>5, <1>6 DEF NodesOf
<1>15. slot(gap) \in 0 .. cap - 1 /\ slot(gap) \notin Used(cap, nodes) /\ at(slot(gap)) = gap
  BY <1>1, <1>4 DEF Used
<1>16. \A i \in 0 .. cap - 1 : at(i) \in first .. gap - 1 => nodes[i] # Sentinel
  BY <1>1, <1>4 DEF Used
<1>17. Used(cap, new) = Used(cap, nodes) \cup {slot(gap)}
  <2> SUFFICES ASSUME NEW i \in 0 .. cap - 1
               PROVE  new[i] # Sentinel <=> nodes[i] # Sentinel \/ i = slot(gap)
    BY <1>15 DEF Used
  <2>1. CASE at(i) \in first .. gap
    <3>1. new[i] # Sentinel
      BY <1>1, <1>6, <1>13, <2>1 DEF Hashed
    <3>2. at(i) = gap => i = slot(gap)
      BY <1>4
    <3>3. at(i) # gap => at(i) \in first .. gap - 1
      BY <1>1, <1>4, <2>1
    <3> QED BY <1>16, <3>1, <3>2, <3>3
  <2>2. CASE at(i) \notin first .. gap
    BY <1>1, <1>13, <1>15, <2>2
  <2> QED BY <2>1, <2>2
<1>18. Members(cap, new) = Members(cap, nodes) \cup {n}
  <2>1. ASSUME NEW x \in Members(cap, new) PROVE x \in Members(cap, nodes) \cup {n}
    <3>1. PICK i \in Used(cap, new) : x = new[i]
      BY <2>1 DEF Members
    <3>2. CASE at(i) \in first .. gap
      <4>1. x \in {nodes[slot(d)] : d \in first .. gap - 1} \cup {n}
        BY <1>11, <1>13, <3>1, <3>2 DEF Used
      <4> QED BY <1>1, <4>1 DEF Members, slot
    <3>3. CASE at(i) \notin first .. gap
      BY <1>13, <3>1, <3>3 DEF Members, Used
    <3> QED BY <3>2, <3>3
  <2>2. \A d \in first .. gap : put(d) \in Members(cap, new)
    <3> SUFFICES ASSUME NEW d \in first .. gap PROVE put(d) \in Members(cap, new)
      OBVIOUS
    <3>1. slot(d) \in Used(cap, new)
      BY <1>1, <1>6, <1>13 DEF Used, Hashed
    <3> QED BY <1>13, <3>1 DEF Members
  <2>3. n \in Members(cap, new)
    BY <1>11, <2>2
  <2>4. ASSUME NEW i \in Used(cap, nodes) PROVE nodes[i] \in Members(cap, new)
    <3>1. i \in 0 .. cap - 1 /\ nodes[i] # Sentinel /\ i \in Used(cap, new)
      BY <1>17 DEF Used
    <3>2. CASE at(i) \in first .. gap
      <4>1. at(i) \in first .. gap - 1 /\ nodes[i] = nodes[slot(at(i))]
        BY <1>1, <1>4, <3>1, <3>2
      <4>2. nodes[i] \in {put(d) : d \in first .. gap}
        BY <1>11, <4>1
      <4> QED BY <2>2, <4>2
    <3>3. CASE at(i) \notin first .. gap
      BY <1>13, <3>1, <3>3 DEF Members
    <3> QED BY <3>2, <3>3
  <2> QED BY <2>1, <2>3, <2>4 DEF Members
<1>19. Distinct(cap, new)
  <2> SUFFICES ASSUME NEW i \in Used(cap, new), NEW j \in Used(cap, new), new[i] = new[j]
               PROVE  i = j
    BY DEF Distinct
  <2>1. i \in 0 .. cap - 1 /\ j \in 0 .. cap - 1
    BY DEF Used
  <2>2. CASE at(i) \in first .. gap /\ at(j) \in first .. gap
    BY <1>4, <1>12, <1>13, <2>1, <2>2
  <2>3. \A k, l \in 0 .. cap - 1 :
          at(k) \in first .. gap /\ at(l) \notin first .. gap /\ l \in Used(cap, new)
            => new[k] # new[l]
    <3> SUFFICES ASSUME NEW k \in 0 .. cap - 1, NEW l \in 0 .. cap - 1, l \in Used(cap, new),
                        at(k) \in first .. gap, at(l) \notin first .. gap, new[k] = new[l]
                 PROVE  FALSE
      OBVIOUS
    <3>1. new[l] = nodes[l] /\ l \in Used(cap, nodes)
      BY <1>1, <1>13, <1>15, <1>17
    <3>2. nodes[l] \in {nodes[slot(d)] : d \in first .. gap - 1} \cup {n}
      BY <1>11, <1>13, <3>1
    <3>3. nodes[l] # n
      BY <3>1 DEF Displacing
    <3>4. PICK d \in first .. gap - 1 : nodes[l] = nodes[slot(d)]
      BY <3>2, <3>3
    <3>5. l = slot(d)
      BY <1>1, <3>1, <3>4 DEF Displacing, Distinct
    <3> QED BY <1>1, <1>4, <3>5
  <2>4. CASE at(i) \notin first .. gap /\ at(j) \notin first .. gap
    <3>1. i \in Used(cap, nodes) /\ j \in Used(cap, nodes) /\ nodes[i] = nodes[j]
      BY <1>1, <1>13, <1>15, <1>17, <2>1, <2>4
    <3> QED BY <3>1 DEF Displacing, Distinct
  <2> QED BY <2>1, <2>2, <2>3, <2>4
<1>20. ASSUME gap < cap - 1 PROVE Ordered(cap, new, hash)
  <2> DEFINE away(i) == ProbeDistance(cap, new, i, hash)
             was(i)  == ProbeDistance(cap, nodes, i, hash)
             prev(i) == Mod(cap, i + cap - 1)
  <2>1. \A i \in Used(cap, nodes) :
          was(i) > 0 => prev(i) \in Used(cap, nodes) /\ was(prev(i)) >= was(i) - 1
    <3>1. \A i \in 0 .. cap - 1 : prev(i) \in 0 .. cap - 1
      BY <1>1, <1>4, AwayStep
    <3> QED BY <3>1 DEF Displacing, Ordered, Used
  <2>2. /\ \A i \in 0 .. cap - 1 : at(i) \notin first .. gap => away(i) = was(i)
        /\ \A i \in Used(cap, nodes) : was(i) \in 0 .. cap - 1
    BY <1>1, <1>13, DistanceIsAway DEF ProbeDistance
  <2>3. \A d \in first .. gap : away(slot(d)) = IF gives(d) THEN hand[d][2] ELSE dist(d)
    <3> SUFFICES ASSUME NEW d \in first .. gap
                 PROVE  away(slot(d)) = IF gives(d) THEN hand[d][2] ELSE dist(d)
      OBVIOUS
    <3>1. CASE gives(d)
      <4>1. new[slot(d)] = hand[d][1]
        BY <1>9, <1>13, <3>1
      <4>2. Away(cap, hand[d][1], slot(d), hash) = hand[d][2]
        BY <1>3 DEF HandInvariant, hand, slot
      <4> QED BY <3>1, <4>1, <4>2 DEF ProbeDistance, Away
    <3>2. CASE ~gives(d)
      BY <1>8, <1>13, <3>2 DEF ProbeDistance, dist
    <3> QED BY <3>1, <3>2
  <2>4. \A d \in first .. gap - 1 : dist(d) \in 0 .. cap - 1 /\ dist(d) = was(slot(d))
    BY <1>1, <2>2 DEF dist
  <2>5. \A d \in first .. gap : hand[d][2] \in Nat
    BY <1>2
  <2>6. ASSUME NEW d \in first .. gap - 1
        PROVE  away(slot(d)) >= dist(d) /\ away(slot(d)) >= hand[d + 1][2] - 1
    <3>1. d \in first .. gap /\ d # gap /\ d + 1 \in first .. gap
      BY <1>1
    <3>2. away(slot(d)) = IF dist(d) < hand[d][2] THEN hand[d][2] ELSE dist(d)
      <4>1. gives(d) <=> dist(d) < hand[d][2]
        BY <1>10, <3>1
      <4> HIDE DEF away
      <4> QED BY <2>3, <3>1, <4>1
    <3>4. hand[d + 1][2] = IF dist(d) < hand[d][2] THEN dist(d) + 1 ELSE hand[d][2] + 1
      <4>1. hand[d + 1] = IF dist(d) < hand[d][2] THEN <<nodes[slot(d)], dist(d) + 1>>
                          ELSE <<hand[d][1], hand[d][2] + 1>>
        BY <1>2
      <4> QED BY <4>1
    <3>3. dist(d) \in Nat /\ hand[d][2] \in Nat
      BY <2>4, <2>5, <3>1
    <3> HIDE DEF away
    <3> QED BY <3>2, <3>3, <3>4
  <2> SUFFICES ASSUME NEW i \in Used(cap, new), away(i) > 0
               PROVE  prev(i) \in Used(cap, new) /\ away(prev(i)) >= away(i) - 1
    BY DEF Ordered, Used
  <2>7. i \in 0 .. cap - 1 /\ at(i) \in 0 .. cap - 1 /\ i = slot(at(i))
    BY <1>4 DEF Used
  <2>8. prev(i) = slot(IF at(i) = 0 THEN cap - 1 ELSE at(i) - 1)
    BY <1>4, <2>7
  <2>9. CASE at(i) \in first + 1 .. gap
    <3>1. /\ at(i) - 1 \in first .. gap - 1 /\ at(i) # 0 /\ at(i) \in first .. gap
          /\ (at(i) - 1) + 1 = at(i)
      BY <1>1, <2>9
    <3>2. prev(i) = slot(at(i) - 1) /\ prev(i) \in Used(cap, new)
      BY <1>1, <1>17, <2>8, <3>1
    <3>3. CASE gives(at(i))
      <4>1. away(i) = hand[at(i)][2]
        BY <2>3, <2>7, <3>1, <3>3
      <4> QED BY <2>6, <3>1, <3>2, <4>1
    <3>4. CASE ~gives(at(i))
      <4>1. at(i) \in first .. gap - 1 /\ away(i) = dist(at(i))
        BY <1>1, <1>10, <2>3, <2>7, <3>1, <3>4
      <4>2. i \in Used(cap, nodes) /\ away(i) = was(i) /\ was(prev(i)) = dist(at(i) - 1)
        BY <1>1, <2>4, <2>7, <3>1, <3>2, <4>1
      <4>3. was(prev(i)) >= away(i) - 1
        BY <2>1, <4>2
      <4>4. away(prev(i)) >= dist(at(i) - 1)
        BY <2>6, <3>1, <3>2
      <4>5. dist(at(i) - 1) \in Int /\ away(prev(i)) \in Int /\ away(i) \in Int
        BY <1>14, <1>1, <2>4, <3>1, <3>2, DistanceIsAway
      <4> HIDE DEF away, was, prev
      <4> QED BY <3>2, <4>2, <4>3, <4>4, <4>5
    <3> QED BY <3>3, <3>4
  <2>10. ASSUME i \in Used(cap, nodes), away(i) = was(i),
                at(i) \notin first + 1 .. gap
         PROVE  prev(i) \in Used(cap, new) /\ away(prev(i)) >= away(i) - 1
    <3>1. prev(i) \in Used(cap, nodes) /\ was(prev(i)) >= away(i) - 1
      BY <2>1, <2>10
    <3>2. at(prev(i)) = (IF at(i) = 0 THEN cap - 1 ELSE at(i) - 1) /\ prev(i) \in 0 .. cap - 1
      BY <1>1, <1>4, <2>7, <2>8
    <3>3. at(prev(i)) # gap
      <4>1. prev(i) # slot(gap)
        BY <1>15, <3>1
      <4> QED BY <1>4, <3>2, <4>1
    <3>4. at(prev(i)) \notin first .. gap
      BY <1>1, <1>20, <2>7, <2>10, <3>2, <3>3
    <3>5. away(prev(i)) = was(prev(i))
      BY <2>2, <3>2, <3>4
    <3> QED BY <1>17, <3>1, <3>5
  <2>11. CASE at(i) = first
    <3>1. first \in first .. gap
      BY <1>1
    <3>2. CASE gives(first)
      <4>1. away(i) = first
        BY <1>2, <2>3, <2>7, <2>11, <3>1, <3>2
      <4>2. first - 1 \in 0 .. first - 1 /\ first - 1 \in 0 .. gap - 1 /\ first - 1 \notin first .. gap
            /\ first - 1 \in 0 .. cap - 1
        BY <1>1, <4>1
      <4>3. prev(i) = slot(first - 1) /\ prev(i) \in Used(cap, nodes) /\ dist(first - 1) >= first - 1
        BY <2>8, <2>11, <4>1, <4>2 DEF Displacing, slot, dist
      <4>4. away(prev(i)) = dist(first - 1)
        BY <1>4, <2>2, <4>2, <4>3 DEF dist
      <4> QED BY <1>17, <4>1, <4>3, <4>4
    <3>3. CASE ~gives(first)
      <4>1. first \in first .. gap - 1
        BY <1>1, <1>10, <3>1, <3>3
      <4>2. i \in Used(cap, nodes) /\ away(i) = was(i)
        BY <1>1, <2>3, <2>4, <2>7, <2>11, <3>1, <3>3, <4>1
      <4> QED BY <1>1, <2>10, <2>11, <4>2
    <3> QED BY <3>2, <3>3
  <2>12. CASE at(i) \notin first .. gap
    <3>1. i # slot(gap)
      BY <1>1, <1>15, <2>12
    <3>2. i \in Used(cap, nodes) /\ away(i) = was(i)
      BY <1>17, <2>2, <2>7, <2>12, <3>1
    <3> QED BY <1>1, <2>10, <2>12, <3>2
  <2>13. at(i) \in first + 1 .. gap \/ at(i) = first \/ at(i) \notin first .. gap
    BY <1>1, <2>7
  <2> QED BY <2>9, <2>11, <2>12, <2>13
<1> QED BY <1>14, <1>15, <1>17, <1>18, <1>19, <1>20 DEF new, slot

-----------------------------------------------------------------------------
(* Counting the used slots.                                                *)

(* There are finitely many slots in use, and a free one unless all are.    *)
LEMMA UsedCount ==
  ASSUME NEW cap \in Nat \ {0}, NEW nodes
  PROVE  /\ IsFiniteSet(Used(cap, nodes)) /\ Cardinality(Used(cap, nodes)) \in Nat
         /\ Cardinality(Used(cap, nodes)) <= cap
         /\ Cardinality(Used(cap, nodes)) < cap => \E i \in 0 .. cap - 1 : nodes[i] = Sentinel
<1> DEFINE U == Used(cap, nodes)
           A == 0 .. cap - 1
<1>1. U \in SUBSET A /\ (U # A => \E i \in A : nodes[i] = Sentinel)
  BY DEF Used
<1>2. IsFiniteSet(A) /\ Cardinality(A) = cap
  <2>1. 0 \in Int /\ cap - 1 \in Int /\ ~(0 > cap - 1) /\ (cap - 1) - 0 + 1 = cap
    OBVIOUS
  <2> QED BY <2>1, FS_Interval
<1> HIDE DEF U, A
<1>3. IsFiniteSet(U) /\ Cardinality(U) <= cap
  BY <1>1, <1>2, FS_Subset
<1>4. Cardinality(U) \in Nat
  BY <1>3, FS_CardinalityType
<1>5. Cardinality(U) < cap => U # A
  BY <1>2
<1> QED BY <1>1, <1>3, <1>4, <1>5 DEF U, A

(* One more slot in use is one more.                                       *)
LEMMA OneMoreUsed ==
  ASSUME NEW cap \in Nat \ {0}, NEW nodes, NEW new, NEW i, i \notin Used(cap, nodes),
         Used(cap, new) = Used(cap, nodes) \cup {i}
  PROVE  Cardinality(Used(cap, new)) = Cardinality(Used(cap, nodes)) + 1
BY UsedCount, FS_AddElement

(* The first free slot on the way of an element.  With a second free slot  *)
(* it is not the last one of a turn.                                       *)
LEMMA GapExists ==
  ASSUME NEW cap \in Nat \ {0}, NEW E, NEW hash, Hashed(E, hash), NEW nodes, NEW n \in E,
         NEW first \in 0 .. cap - 1,
         \A d \in 0 .. first - 1 : ProbeSlot(cap, n, d, hash) \in Used(cap, nodes),
         Cardinality(Used(cap, nodes)) < cap
  PROVE  \E gap \in first .. cap - 1 :
           /\ nodes[ProbeSlot(cap, n, gap, hash)] = Sentinel
           /\ \A d \in 0 .. gap - 1 : ProbeSlot(cap, n, d, hash) \in Used(cap, nodes)
           /\ Cardinality(Used(cap, nodes)) < cap - 1 => gap < cap - 1
<1> DEFINE slot(d) == ProbeSlot(cap, n, d, hash)
           F == {d \in 0 .. cap - 1 : nodes[slot(d)] = Sentinel}
<1>1. PICK i \in 0 .. cap - 1 : nodes[i] = Sentinel
  BY UsedCount
<1>2. /\ \A j \in 0 .. cap - 1 : Away(cap, n, j, hash) \in 0 .. cap - 1
                                 /\ slot(Away(cap, n, j, hash)) = j
      /\ \A d \in 0 .. cap - 1 : slot(d) \in 0 .. cap - 1
  BY Circle
<1>3. F \in SUBSET Nat /\ F # {}
  <2>1. Away(cap, n, i, hash) \in F
    BY <1>1, <1>2
  <2> QED BY <2>1
<1>4. PICK gap \in F : \A d \in F : gap <= d
  <2> HIDE DEF F
  <2> QED BY <1>3, LeastIsLeast
<1>5. gap \in first .. cap - 1
  <2>1. gap \notin 0 .. first - 1
    BY DEF Used
  <2> QED BY <2>1
<1>6. \A d \in 0 .. gap - 1 : slot(d) \in Used(cap, nodes)
  <2> SUFFICES ASSUME NEW d \in 0 .. gap - 1 PROVE slot(d) \in Used(cap, nodes)
    OBVIOUS
  <2>1. d \in 0 .. cap - 1 /\ ~(gap <= d)
    OBVIOUS
  <2>2. d \notin F
    BY <1>4, <2>1
  <2> QED BY <1>2, <2>1, <2>2 DEF Used
<1>7. ASSUME gap = cap - 1 PROVE ~(Cardinality(Used(cap, nodes)) < cap - 1)
  <2> DEFINE U == Used(cap, nodes)
             new == [j \in 0 .. cap - 1 |-> IF j = slot(gap) THEN n ELSE nodes[j]]
  <2>1. slot(gap) \notin U /\ slot(gap) \in 0 .. cap - 1
    BY <1>2 DEF Used
  <2>2. Used(cap, new) = U \cup {slot(gap)}
    BY <2>1 DEF Used, Hashed
  <2>3. \A j \in 0 .. cap - 1 : new[j] # Sentinel
    <3> SUFFICES ASSUME NEW j \in 0 .. cap - 1, j # slot(gap) PROVE nodes[j] # Sentinel
      BY DEF Hashed
    <3>1. Away(cap, n, j, hash) \in 0 .. gap - 1
      BY <1>2, <1>7
    <3> QED BY <1>2, <1>6, <3>1 DEF Used
  <2> HIDE DEF new, slot
  <2>4. Cardinality(Used(cap, new)) = Cardinality(U) + 1
    BY <2>1, <2>2, OneMoreUsed
  <2>5. ~(Cardinality(Used(cap, new)) < cap)
    BY <2>3, UsedCount
  <2>6. Cardinality(U) \in Nat
    BY UsedCount
  <2> QED BY <2>4, <2>5, <2>6
<1>8. Cardinality(Used(cap, nodes)) < cap - 1 => gap < cap - 1
  BY <1>5, <1>7
<1> QED BY <1>5, <1>6, <1>8

(* Placing an element in an ordered table with two free slots.             *)
LEMMA DisplaceRoom ==
  ASSUME NEW cap \in Nat \ {0}, NEW E, NEW hash, Hashed(E, hash), NEW nodes \in NodesOf(cap, E),
         Distinct(cap, nodes), Ordered(cap, nodes, hash), NEW n \in E, n \notin Members(cap, nodes),
         NEW first \in 0 .. cap - 1,
         \A d \in 0 .. first - 1 :
           /\ ProbeSlot(cap, n, d, hash) \in Used(cap, nodes)
           /\ ProbeDistance(cap, nodes, ProbeSlot(cap, n, d, hash), hash) >= d,
         Cardinality(Used(cap, nodes)) < cap - 1
  PROVE  LET new == Displace(cap, nodes, n, first, hash)
         IN  /\ new \in NodesOf(cap, E) /\ Distinct(cap, new) /\ Ordered(cap, new, hash)
             /\ Members(cap, new) = Members(cap, nodes) \cup {n}
             /\ Cardinality(Used(cap, new)) = Cardinality(Used(cap, nodes)) + 1
<1>1. PICK gap \in first .. cap - 1 :
        /\ nodes[ProbeSlot(cap, n, gap, hash)] = Sentinel
        /\ \A d \in 0 .. gap - 1 : ProbeSlot(cap, n, d, hash) \in Used(cap, nodes)
        /\ gap < cap - 1
  <2>1. Cardinality(Used(cap, nodes)) < cap
    BY UsedCount
  <2> QED BY <2>1, GapExists, ZenonT(60)
<1>2. Displacing(cap, nodes, n, first, gap, E, hash)
  BY <1>1 DEF Displacing, Members
<1> QED BY <1>1, <1>2, DisplaceInserts, OneMoreUsed

-----------------------------------------------------------------------------
(* Well-formed tables.                                                     *)

(* size_ counts the used slots, and no element is in two of them.          *)
Table(t, E) ==
  /\ t \in [cap : Nat \ {0}, size : Nat, nodes : NodesOf(t.cap, E)]
  /\ t.size = Cardinality(Used(t.cap, t.nodes))
  /\ Distinct(t.cap, t.nodes)

(* A table on the heap has a free slot and is ordered; an inline one is    *)
(* packed.                                                                 *)
WellFormed(t, E, hash) ==
  /\ Table(t, E) /\ IsPowerOfTwo(t.cap)
  /\ OnHeap(t) => t.cap >= MinHeapCapacity /\ t.size < t.cap /\ Ordered(t.cap, t.nodes, hash)
  /\ ~OnHeap(t) => \A i \in Slots(t) : t.nodes[i] # Sentinel <=> i < t.size

LEMMA ElemsAreMembers ==
  ASSUME NEW t
  PROVE  Elems(t) = Members(t.cap, t.nodes)
BY DEF Elems, Members, Used, Slots

(* The capacities an inline table and a new heap table start from.         *)
LEMMA SmallCapacities ==
  /\ StackCapacity \in Nat \ {0} /\ IsPowerOfTwo(StackCapacity)
  /\ MinHeapCapacity \in Nat /\ IsPowerOfTwo(MinHeapCapacity)
  /\ MinHeapCapacity >= 4 /\ MinHeapCapacity > StackCapacity
<1>1. StackCapacity \in {1, 2, 4, 8}
  BY StackCapacityAssumption
<1>2. IsPowerOfTwo(1) /\ IsPowerOfTwo(2) /\ IsPowerOfTwo(4) /\ IsPowerOfTwo(8)
  <2>1. IsPowerOfTwo(2 * 1)
    BY OneIsPowerOfTwo, DoubledPower
  <2>2. IsPowerOfTwo(2)
    BY <2>1
  <2>3. IsPowerOfTwo(2 * 2)
    BY <2>2, DoubledPower
  <2>4. IsPowerOfTwo(4)
    BY <2>3
  <2>5. IsPowerOfTwo(2 * 4)
    BY <2>4, DoubledPower
  <2> QED BY <2>2, <2>4, <2>5, OneIsPowerOfTwo
<1>3. IsPowerOfTwo(StackCapacity) /\ StackCapacity \in Nat \ {0}
  BY <1>1, <1>2
<1>4. IsPowerOfTwo(2 * (2 * StackCapacity))
  BY <1>3, DoubledPower
<1>5. MinHeapCapacity = 2 * (2 * StackCapacity)
  BY <1>3 DEF MinHeapCapacity
<1> QED BY <1>3, <1>4, <1>5

(* The empty table is well formed.                                         *)
LEMMA EmptyTableWellFormed ==
  ASSUME NEW E, NEW hash
  PROVE  WellFormed(EmptyTable, E, hash) /\ Elems(EmptyTable) = {}
<1>1. Used(EmptyTable.cap, EmptyTable.nodes) = {}
  BY DEF Used, EmptyTable, Sentinels
<1>2. EmptyTable \in [cap : Nat \ {0}, size : Nat, nodes : NodesOf(EmptyTable.cap, E)]
  BY SmallCapacities DEF EmptyTable, Sentinels, NodesOf
<1>3. EmptyTable.size = 0 /\ EmptyTable.cap = StackCapacity
  BY DEF EmptyTable
<1>4. Table(EmptyTable, E)
  BY <1>1, <1>2, <1>3, FS_EmptySet DEF Table, Distinct
<1>5. \A i \in Slots(EmptyTable) : EmptyTable.nodes[i] # Sentinel <=> i < EmptyTable.size
  BY <1>3, SmallCapacities DEF Slots, EmptyTable, Sentinels
<1> QED BY <1>1, <1>3, <1>4, <1>5, SmallCapacities, ElemsAreMembers DEF WellFormed, OnHeap, Members

-----------------------------------------------------------------------------
(* Looking up.                                                             *)

(* In an ordered table the steps up to an element meet used slots, whose   *)
(* elements are at least that far away.                                    *)
LEMMA OrderedPath ==
  ASSUME NEW cap \in Nat \ {0}, NEW E, NEW hash, Hashed(E, hash), NEW nodes \in NodesOf(cap, E),
         Ordered(cap, nodes, hash), NEW i \in Used(cap, nodes), NEW e \in E,
         hash[e] = hash[nodes[i]]
  PROVE  /\ ProbeDistance(cap, nodes, i, hash) \in 0 .. cap - 1
         /\ ProbeSlot(cap, e, ProbeDistance(cap, nodes, i, hash), hash) = i
         /\ \A d \in 0 .. ProbeDistance(cap, nodes, i, hash) :
              /\ ProbeSlot(cap, e, d, hash) \in Used(cap, nodes)
              /\ ProbeDistance(cap, nodes, ProbeSlot(cap, e, d, hash), hash) >= d
<1> DEFINE D == ProbeDistance(cap, nodes, i, hash)
           slot(d) == ProbeSlot(cap, e, d, hash)
           dist(d) == ProbeDistance(cap, nodes, slot(d), hash)
           S == {k \in 0 .. D : slot(D - k) \in Used(cap, nodes) /\ dist(D - k) >= D - k}
<1>1. nodes[i] \in E /\ i \in 0 .. cap - 1 /\ D \in 0 .. cap - 1 /\ D = Away(cap, e, i, hash)
  BY DistanceIsAway DEF Away, DesiredPos
<1>2. slot(D) = i
  BY <1>1, Circle
<1>3. 0 \in S
  BY <1>1, <1>2
<1>4. ASSUME NEW k \in 0 .. D - 1, k \in S PROVE k + 1 \in S
  <2> DEFINE d == D - k
  <2>1. d \in 1 .. cap - 1 /\ d \in 0 .. cap - 1 /\ D - (k + 1) = d - 1 /\ k + 1 \in 0 .. D
    BY <1>1
  <2>2. slot(d) \in Used(cap, nodes) /\ dist(d) >= d /\ dist(d) \in Nat
    BY <1>4, DistanceIsAway
  <2>3. Mod(cap, slot(d) + cap - 1) = slot(d - 1) /\ slot(d - 1) \in 0 .. cap - 1
    <3>1. d - 1 \in 0 .. cap - 1 /\ d # 0
      BY <2>1
    <3> HIDE DEF d
    <3> QED BY <2>1, <3>1, Circle
  <2>4. nodes[slot(d - 1)] # Sentinel /\ dist(d - 1) >= dist(d) - 1
    BY <2>1, <2>2, <2>3 DEF Ordered
  <2>5. slot(d - 1) \in Used(cap, nodes) /\ dist(d - 1) \in Nat
    BY <2>3, <2>4, DistanceIsAway DEF Used
  <2> HIDE DEF d, slot, dist
  <2>6. dist(d - 1) >= d - 1
    BY <2>1, <2>2, <2>4, <2>5
  <2> QED BY <2>1, <2>5, <2>6 DEF d
<1>5. 0 .. D \subseteq S
  <2>1. D \in Nat
    BY <1>1
  <2> HIDE DEF S, D
  <2> QED BY <1>3, <1>4, <2>1, InductionTo
<1>6. ASSUME NEW d \in 0 .. D PROVE slot(d) \in Used(cap, nodes) /\ dist(d) >= d
  <2>1. D - d \in S /\ D - (D - d) = d
    BY <1>1, <1>5
  <2> HIDE DEF D, slot, dist
  <2> QED BY <2>1
<1> QED BY <1>1, <1>2, <1>6

(* What find answers is the slot of an element equal to e.                 *)
LEMMA FindIsSound ==
  ASSUME NEW E, NEW hash, NEW key, NEW t, NEW e, Hashed(E, hash), WellFormed(t, E, hash), e \in E
  PROVE  LET i == FindSlot(t, e, hash, key)
         IN  i # -1 => i \in Used(t.cap, t.nodes) /\ key[t.nodes[i]] = key[e]
<1> DEFINE slot(d) == ProbeSlot(t.cap, e, d, hash)
           hits(i) == t.nodes[i] # Sentinel /\ key[t.nodes[i]] = key[e]
           stops   == {d \in Slots(t) : t.nodes[slot(d)] = Sentinel \/ hits(slot(d))}
           packed  == {i \in 0 .. t.size - 1 : hits(i)}
<1>1. t.cap \in Nat \ {0} /\ t.size \in Nat /\ t.size <= t.cap
  BY UsedCount DEF WellFormed, Table
<1>2. CASE OnHeap(t)
  <2>1. stops # {} /\ stops \in SUBSET Nat
    <3>1. PICK i \in 0 .. t.cap - 1 : t.nodes[i] = Sentinel
      BY <1>1, <1>2, UsedCount DEF WellFormed, Table
    <3>2. Away(t.cap, e, i, hash) \in stops
      BY <1>1, <3>1, Circle DEF Slots
    <3> QED BY <1>1, <3>2 DEF Slots
  <2>2. Least(stops) \in stops
    <3> HIDE DEF stops
    <3> QED BY <2>1, LeastIsLeast
  <2>3. slot(Least(stops)) \in 0 .. t.cap - 1
    BY <1>1, <2>2, Circle DEF Slots
  <2>4. FindSlot(t, e, hash, key) # -1 =>
          FindSlot(t, e, hash, key) = slot(Least(stops)) /\ hits(slot(Least(stops)))
    BY <1>2 DEF FindSlot
  <2> QED BY <2>3, <2>4 DEF Used
<1>3. CASE ~OnHeap(t)
  <2>1. packed \in SUBSET Nat
    BY <1>1
  <2>2. packed # {} => Least(packed) \in packed
    <3> HIDE DEF packed
    <3> QED BY <2>1, LeastIsLeast
  <2>3. FindSlot(t, e, hash, key) # -1 =>
          FindSlot(t, e, hash, key) = Least(packed) /\ packed # {}
    BY <1>3 DEF FindSlot
  <2> QED BY <1>1, <2>2, <2>3 DEF Used
<1> QED BY <1>2, <1>3

(* find does not miss an element equal to e that has e's hash.             *)
LEMMA FindIsComplete ==
  ASSUME NEW E, NEW hash, NEW key, NEW t, NEW e, Hashed(E, hash), WellFormed(t, E, hash), e \in E,
         NEW m \in Elems(t), key[m] = key[e], hash[m] = hash[e]
  PROVE  FindSlot(t, e, hash, key) # -1
<1> DEFINE slot(d) == ProbeSlot(t.cap, e, d, hash)
           hits(i) == t.nodes[i] # Sentinel /\ key[t.nodes[i]] = key[e]
           stops   == {d \in Slots(t) : t.nodes[slot(d)] = Sentinel \/ hits(slot(d))}
           packed  == {i \in 0 .. t.size - 1 : hits(i)}
<1>1. /\ t.cap \in Nat \ {0} /\ t.size \in Nat /\ t.nodes \in NodesOf(t.cap, E)
      /\ t.size = Cardinality(Used(t.cap, t.nodes))
  BY DEF WellFormed, Table
<1>2. PICK i \in Used(t.cap, t.nodes) : t.nodes[i] = m
  BY ElemsAreMembers DEF Members
<1>3. i \in 0 .. t.cap - 1 /\ hits(i)
  BY <1>2 DEF Used
<1>4. CASE OnHeap(t)
  <2>1. /\ ProbeDistance(t.cap, t.nodes, i, hash) \in 0 .. t.cap - 1
        /\ slot(ProbeDistance(t.cap, t.nodes, i, hash)) = i
        /\ \A d \in 0 .. ProbeDistance(t.cap, t.nodes, i, hash) : slot(d) \in Used(t.cap, t.nodes)
    BY <1>1, <1>2, <1>4, OrderedPath DEF WellFormed
  <2>2. /\ stops \in SUBSET Nat
        /\ ProbeDistance(t.cap, t.nodes, i, hash) \in stops
    BY <1>1, <1>3, <2>1 DEF Slots
  <2>3. /\ Least(stops) \in stops /\ Least(stops) \in Nat
        /\ Least(stops) <= ProbeDistance(t.cap, t.nodes, i, hash)
    <3> HIDE DEF stops
    <3> QED BY <2>2, LeastIsLeast
  <2>4. Least(stops) \in 0 .. ProbeDistance(t.cap, t.nodes, i, hash)
    <3> HIDE DEF stops, slot
    <3> QED BY <1>1, <2>1, <2>3
  <2>5. hits(slot(Least(stops))) /\ slot(Least(stops)) \in 0 .. t.cap - 1
    BY <2>1, <2>3, <2>4 DEF Used
  <2>6. t.size > 0
    BY <1>1, <1>2, UsedCount, FS_EmptySet
  <2>7. FindSlot(t, e, hash, key) = slot(Least(stops))
    <3>1. OnHeap(t) /\ t.size > 0 /\ hits(slot(Least(stops)))
      BY <1>4, <2>5, <2>6
    <3> QED BY <3>1, Zenon DEF FindSlot
  <2> HIDE DEF stops, slot, hits
  <2> QED BY <1>1, <2>5, <2>7
<1>5. CASE ~OnHeap(t)
  <2>1. i \in packed /\ packed \in SUBSET Nat
    BY <1>1, <1>3, <1>5 DEF WellFormed, Slots
  <2>2. Least(packed) \in packed
    <3> HIDE DEF packed
    <3> QED BY <2>1, LeastIsLeast
  <2>3. FindSlot(t, e, hash, key) = Least(packed)
    BY <1>5, <2>1 DEF FindSlot
  <2> QED BY <1>1, <2>2, <2>3
<1> QED BY <1>4, <1>5

-----------------------------------------------------------------------------
(* Rehashing.                                                              *)

LEMMA LargerOf ==
  ASSUME NEW a \in Nat, NEW b \in Nat
  PROVE  /\ Larger(a, b) \in {a, b} /\ Larger(a, b) >= a /\ Larger(a, b) >= b
         /\ IsPowerOfTwo(a) /\ IsPowerOfTwo(b) => IsPowerOfTwo(Larger(a, b))
BY DEF Larger

(* A new table of sentinels is empty and ordered.                          *)
LEMMA SentinelsEmpty ==
  ASSUME NEW cap \in Nat \ {0}, NEW E, NEW hash
  PROVE  /\ Sentinels(cap) \in NodesOf(cap, E) /\ Used(cap, Sentinels(cap)) = {}
         /\ Members(cap, Sentinels(cap)) = {}
         /\ Distinct(cap, Sentinels(cap)) /\ Ordered(cap, Sentinels(cap), hash)
BY DEF Sentinels, NodesOf, Used, Members, Distinct, Ordered

(* A table laid out anew holds the same elements, in order, on the heap.   *)
LEMMA RehashKeeps ==
  ASSUME NEW E, NEW hash, Hashed(E, hash), NEW t, Table(t, E),
         NEW capacity \in Nat, IsPowerOfTwo(capacity), t.size < Larger(capacity, MinHeapCapacity)
  PROVE  LET u == Rehash(t, capacity, hash)
         IN  /\ WellFormed(u, E, hash) /\ OnHeap(u)
             /\ u.cap = Larger(capacity, MinHeapCapacity) /\ u.size = t.size
             /\ Elems(u) = Elems(t)
<1> DEFINE cap     == Larger(capacity, MinHeapCapacity)
           before(i) == {j \in Used(t.cap, t.nodes) : j < i}
           move(i, v) == IF t.nodes[i] = Sentinel THEN v
                         ELSE Displace(cap, v, t.nodes[i], 0, hash)
           Placed(i, v) == /\ Members(cap, v) = {t.nodes[j] : j \in before(i)}
                           /\ Cardinality(Used(cap, v)) = Cardinality(before(i))
                           /\ Distinct(cap, v) /\ Ordered(cap, v, hash)
           V    == NodesOf(cap, E)
           W    == {w \in (0 .. t.cap) \X V : Placed(w[1], w[2])}
           step == [w \in W |-> move(w[1], w[2])]
           loop(p) == [i \in 0 .. t.cap |-> IF i = 0 THEN Sentinels(cap) ELSE move(i - 1, p[i - 1])]
           placed  == CHOOSE p : p = loop(p)
<1>1. /\ t.cap \in Nat \ {0} /\ t.size \in Nat /\ t.nodes \in NodesOf(t.cap, E)
      /\ t.size = Cardinality(Used(t.cap, t.nodes))
      /\ IsFiniteSet(Used(t.cap, t.nodes))
  BY UsedCount DEF Table
<1>2. cap \in Nat \ {0} /\ IsPowerOfTwo(cap) /\ cap >= MinHeapCapacity /\ t.size < cap
  BY LargerOf, SmallCapacities
<1> HIDE DEF cap
<1>3. Placed(0, Sentinels(cap)) /\ Sentinels(cap) \in V
  <2>1. before(0) = {}
    BY DEF Used
  <2> QED BY <1>2, <2>1, SentinelsEmpty
<1>4. ASSUME NEW i \in 0 .. t.cap - 1, NEW v \in V, Placed(i, v)
      PROVE  move(i, v) \in V /\ Placed(i + 1, move(i, v))
  <2>1. CASE t.nodes[i] = Sentinel
    <3>1. before(i + 1) = before(i)
      BY <1>1, <2>1 DEF Used
    <3> QED BY <1>4, <2>1, <3>1
  <2>2. CASE t.nodes[i] # Sentinel
    <3>1. /\ before(i + 1) = before(i) \cup {i} /\ i \notin before(i) /\ i \in Used(t.cap, t.nodes)
          /\ before(i + 1) \in SUBSET Used(t.cap, t.nodes)
          /\ before(i) \in SUBSET Used(t.cap, t.nodes)
      BY <1>1, <2>2 DEF Used
    <3>2. IsFiniteSet(before(i))
      <4> HIDE DEF before
      <4> QED BY <1>1, <3>1, FS_Subset
    <3>3. /\ Cardinality(before(i + 1)) = Cardinality(before(i)) + 1
          /\ Cardinality(before(i + 1)) <= t.size
          /\ Cardinality(before(i)) \in Nat
      <4> HIDE DEF before
      <4> QED BY <1>1, <3>1, <3>2, FS_AddElement, FS_Subset, FS_CardinalityType
    <3>4. t.nodes[i] \in E /\ t.nodes[i] \notin Members(cap, v)
      <4>1. \A j \in before(i) : t.nodes[j] # t.nodes[i]
        BY <3>1 DEF Table, Distinct
      <4> QED BY <1>1, <1>4, <2>2, <4>1 DEF NodesOf
    <3> DEFINE new == Displace(cap, v, t.nodes[i], 0, hash)
    <3>5. /\ new \in NodesOf(cap, E) /\ Distinct(cap, new) /\ Ordered(cap, new, hash)
          /\ Members(cap, new) = Members(cap, v) \cup {t.nodes[i]}
          /\ Cardinality(Used(cap, new)) = Cardinality(Used(cap, v)) + 1
      <4>1. Cardinality(Used(cap, v)) < cap - 1
        BY <1>1, <1>2, <1>4, <3>3
      <4>2. 0 \in 0 .. cap - 1 /\ 0 .. 0 - 1 = {}
        BY <1>2
      <4> QED BY <1>2, <1>4, <3>4, <4>1, <4>2, DisplaceRoom
    <3> QED BY <1>4, <2>2, <3>1, <3>3, <3>5
  <2> QED BY <2>1, <2>2
<1>5. \A i \in 0 .. t.cap - 1 : \A v \in V : Placed(i, v) => step[<<i, v>>] = move(i, v)
  BY <1>1
<1> HIDE DEF move, Placed, V, step
<1>6. \E f \in [0 .. t.cap -> V] : Iterates(f, 0, t.cap, Sentinels(cap), step, W)
  <2>1. \A i \in 0 .. t.cap - 1 : \A v \in V :
          <<i, v>> \in W => step[<<i, v>>] \in V /\ <<i + 1, step[<<i, v>>]>> \in W
    BY <1>1, <1>4, <1>5
  <2>2. W \in SUBSET (Nat \X V) /\ <<0, Sentinels(cap)>> \in W
    BY <1>1, <1>3
  <2>3. 0 <= t.cap /\ t.cap \in Nat /\ 0 \in Nat
    BY <1>1
  <2> HIDE DEF W
  <2> QED BY <1>3, <2>1, <2>2, <2>3, IterationExists
<1>7. PICK f \in [0 .. t.cap -> V] : Iterates(f, 0, t.cap, Sentinels(cap), step, W)
  BY <1>6
<1>8. f = loop(f)
  <2>1. ASSUME NEW i \in 0 .. t.cap, i # 0 PROVE f[i] = move(i - 1, f[i - 1])
    <3>1. i - 1 \in 0 .. t.cap - 1 /\ i - 1 \in 0 .. t.cap /\ (i - 1) + 1 = i
      BY <1>1, <2>1
    <3>2. f[i] = step[<<i - 1, f[i - 1]>>] /\ <<i - 1, f[i - 1]>> \in W
      BY <1>7, <3>1 DEF Iterates
    <3> QED BY <1>5, <3>1, <3>2
  <2>2. f[0] = Sentinels(cap)
    BY <1>7 DEF Iterates
  <2> QED BY <2>1, <2>2
<1>9. placed = loop(placed)
  <2> HIDE DEF loop
  <2> QED BY <1>8
<1> HIDE DEF placed
<1>10. /\ placed[0] = Sentinels(cap)
       /\ \A i \in 0 .. t.cap - 1 : placed[i + 1] = move(i, placed[i])
  <2>1. \A i \in 0 .. t.cap : placed[i] = IF i = 0 THEN Sentinels(cap) ELSE move(i - 1, placed[i - 1])
    BY <1>9
  <2>2. \A i \in 0 .. t.cap - 1 : i + 1 \in 0 .. t.cap /\ i + 1 # 0 /\ (i + 1) - 1 = i
    BY <1>1
  <2>3. 0 \in 0 .. t.cap
    BY <1>1
  <2> QED BY <2>1, <2>2, <2>3
<1>11. placed[t.cap] \in V /\ Placed(t.cap, placed[t.cap])
  <2> DEFINE S == {i \in 0 .. t.cap : placed[i] \in V /\ Placed(i, placed[i])}
  <2>1. 0 \in S
    BY <1>1, <1>3, <1>10
  <2>2. \A i \in 0 .. t.cap - 1 : i \in S => i + 1 \in S
    BY <1>1, <1>4, <1>10
  <2> HIDE DEF S
  <2>3. 0 .. t.cap \subseteq S
    BY <1>1, <2>1, <2>2, InductionTo
  <2> QED BY <1>1, <2>3 DEF S
<1>12. before(t.cap) = Used(t.cap, t.nodes)
  BY <1>1 DEF Used
<1> DEFINE nodes == placed[t.cap]
           u == Rehash(t, capacity, hash)
<1>13. u = [t EXCEPT !.cap = cap, !.nodes = nodes]
  BY DEF Rehash, placed, move, cap
<1> HIDE DEF nodes, u
<1>14. u = [cap |-> cap, size |-> t.size, nodes |-> nodes]
  BY <1>13 DEF Table
<1>15. /\ nodes \in NodesOf(cap, E) /\ Distinct(cap, nodes) /\ Ordered(cap, nodes, hash)
       /\ Members(cap, nodes) = Members(t.cap, t.nodes)
       /\ Cardinality(Used(cap, nodes)) = t.size
  BY <1>1, <1>11, <1>12 DEF nodes, Placed, V, Members
<1>16. u.cap = cap /\ u.size = t.size /\ u.nodes = nodes
  BY <1>14
<1>17. OnHeap(u)
  BY <1>2, <1>16, SmallCapacities DEF OnHeap
<1>18. Table(u, E)
  BY <1>1, <1>2, <1>14, <1>15, <1>16 DEF Table
<1>19. WellFormed(u, E, hash)
  BY <1>2, <1>15, <1>16, <1>17, <1>18 DEF WellFormed
<1> QED BY <1>15, <1>16, <1>17, <1>19, ElemsAreMembers DEF u, cap

-----------------------------------------------------------------------------
(* Emplacing.                                                              *)

(* u is t after e was put in, or t's elements where an equal one was met.  *)
(* An equal one with e's hash would have been met.                         *)
Emplaced(t, u, e, hash, key) ==
  \/ /\ Elems(u) = Elems(t) /\ u.size = t.size
     /\ \E m \in Elems(t) : key[m] = key[e]
  \/ /\ Elems(u) = Elems(t) \cup {e} /\ u.size = t.size + 1 /\ e \notin Elems(t)
     /\ \A m \in Elems(t) : ~(key[m] = key[e] /\ hash[m] = hash[e])

LEMMA EmplaceNoRehashPuts ==
  ASSUME NEW E, NEW hash, NEW key, NEW t, NEW e \in E, Hashed(E, hash), WellFormed(t, E, hash),
         OnHeap(t), t.size < t.cap - 1
  PROVE  LET u == EmplaceNoRehash(t, e, hash, key)
         IN  WellFormed(u, E, hash) /\ u.cap = t.cap /\ Emplaced(t, u, e, hash, key)
<1> DEFINE slot(d)  == ProbeSlot(t.cap, e, d, hash)
           dist(d)  == ProbeDistance(t.cap, t.nodes, slot(d), hash)
           free(i)  == t.nodes[i] = Sentinel
           equal(i) == ~free(i) /\ key[t.nodes[i]] = key[e]
           stops    == {d \in Slots(t) : free(slot(d)) \/ equal(slot(d)) \/ dist(d) < d}
           d0       == Least(stops)
           nodes    == Displace(t.cap, t.nodes, e, d0, hash)
           u        == EmplaceNoRehash(t, e, hash, key)
<1>1. /\ t.cap \in Nat \ {0} /\ t.size \in Nat /\ t.nodes \in NodesOf(t.cap, E)
      /\ t.size = Cardinality(Used(t.cap, t.nodes))
      /\ Distinct(t.cap, t.nodes) /\ Ordered(t.cap, t.nodes, hash)
      /\ t = [cap |-> t.cap, size |-> t.size, nodes |-> t.nodes]
  BY DEF WellFormed, Table
<1>2. u = IF equal(slot(d0)) THEN t ELSE [t EXCEPT !.size = @ + 1, !.nodes = nodes]
  BY DEF EmplaceNoRehash
<1>3. stops # {} /\ stops \in SUBSET Nat
  <2>1. PICK i \in 0 .. t.cap - 1 : t.nodes[i] = Sentinel
    BY <1>1, UsedCount
  <2>2. Away(t.cap, e, i, hash) \in stops
    BY <1>1, <2>1, Circle DEF Slots
  <2> QED BY <1>1, <2>2 DEF Slots
<1>4. d0 \in stops /\ d0 \in 0 .. t.cap - 1 /\ \A d \in stops : d0 <= d
  <2>1. d0 \in stops /\ \A d \in stops : d0 <= d
    <3> HIDE DEF stops
    <3> QED BY <1>3, LeastIsLeast
  <2> QED BY <2>1 DEF Slots
<1>5. CASE equal(slot(d0))
  <2>1. u = t
    BY <1>2, <1>5
  <2>2. slot(d0) \in Used(t.cap, t.nodes)
    BY <1>1, <1>4, <1>5, Circle DEF Used
  <2>3. \E m \in Elems(t) : key[m] = key[e]
    BY <1>5, <2>2, ElemsAreMembers DEF Members
  <2> QED BY <2>1, <2>3 DEF Emplaced
<1>6. CASE ~equal(slot(d0))
  <2>1. ASSUME NEW m \in Elems(t), key[m] = key[e], hash[m] = hash[e] PROVE FALSE
    <3>1. PICK i \in Used(t.cap, t.nodes) : t.nodes[i] = m
      BY ElemsAreMembers DEF Members
    <3> DEFINE D == ProbeDistance(t.cap, t.nodes, i, hash)
    <3>2. /\ D \in 0 .. t.cap - 1 /\ slot(D) = i
          /\ \A d \in 0 .. D : slot(d) \in Used(t.cap, t.nodes) /\ dist(d) >= d
      BY <1>1, <2>1, <3>1, OrderedPath
    <3>3. D \in stops
      BY <2>1, <3>1, <3>2 DEF Slots, Used
    <3>4. d0 \in 0 .. D
      <4>1. d0 <= D
        BY <1>4, <3>3
      <4> HIDE DEF D, d0
      <4> QED BY <1>1, <1>4, <3>2, <4>1
    <3>5. ~free(slot(d0)) /\ dist(d0) >= d0
      BY <3>2, <3>4 DEF Used
    <3>6. dist(d0) < d0
      BY <1>4, <1>6, <3>5
    <3>7. dist(d0) \in Nat /\ d0 \in Nat
      <4>1. slot(d0) \in Used(t.cap, t.nodes)
        BY <3>2, <3>4
      <4> HIDE DEF slot, d0
      <4> QED BY <1>1, <1>4, <4>1, DistanceIsAway
    <3> HIDE DEF dist, d0
    <3> QED BY <3>5, <3>6, <3>7
  <2>2. e \notin Members(t.cap, t.nodes)
    BY <2>1, ElemsAreMembers
  <2>3. \A d \in 0 .. d0 - 1 : slot(d) \in Used(t.cap, t.nodes) /\ dist(d) >= d
    <3> SUFFICES ASSUME NEW d \in 0 .. d0 - 1
                 PROVE  slot(d) \in Used(t.cap, t.nodes) /\ dist(d) >= d
      OBVIOUS
    <3>1. d \in 0 .. t.cap - 1 /\ ~(d0 <= d) /\ d \in Nat
      <4> HIDE DEF d0
      <4> QED BY <1>1, <1>4
    <3>2. d \notin stops
      BY <1>4, <3>1
    <3>3. ~free(slot(d)) /\ ~(dist(d) < d)
      BY <3>1, <3>2 DEF Slots
    <3>4. slot(d) \in Used(t.cap, t.nodes)
      BY <1>1, <3>1, <3>3, Circle DEF Used
    <3>5. dist(d) \in Nat
      BY <1>1, <3>4, DistanceIsAway
    <3> HIDE DEF dist
    <3> QED BY <3>1, <3>3, <3>4, <3>5
  <2>4. /\ nodes \in NodesOf(t.cap, E) /\ Distinct(t.cap, nodes) /\ Ordered(t.cap, nodes, hash)
        /\ Members(t.cap, nodes) = Members(t.cap, t.nodes) \cup {e}
        /\ Cardinality(Used(t.cap, nodes)) = t.size + 1
    <3> HIDE DEF d0
    <3> QED BY <1>1, <1>4, <2>2, <2>3, DisplaceRoom
  <2> HIDE DEF nodes
  <2>5. u = [cap |-> t.cap, size |-> t.size + 1, nodes |-> nodes]
    BY <1>1, <1>2, <1>6
  <2> HIDE DEF u
  <2>6. u.cap = t.cap /\ u.size = t.size + 1 /\ u.nodes = nodes /\ OnHeap(u)
    BY <2>5 DEF OnHeap
  <2>7. Table(u, E)
    BY <1>1, <2>4, <2>5, <2>6 DEF Table
  <2>8. WellFormed(u, E, hash)
    BY <1>1, <2>4, <2>6, <2>7 DEF WellFormed
  <2>9. Emplaced(t, u, e, hash, key)
    BY <2>1, <2>2, <2>4, <2>6, ElemsAreMembers DEF Emplaced
  <2> QED BY <2>6, <2>8, <2>9 DEF u
<1> QED BY <1>5, <1>6

LEMMA ArrayEmplacePuts ==
  ASSUME NEW E, NEW hash, NEW key, NEW t, NEW e \in E, Hashed(E, hash), WellFormed(t, E, hash),
         ~OnHeap(t), t.size < t.cap
  PROVE  LET u == ArrayEmplace(t, e, hash, key)
         IN  WellFormed(u, E, hash) /\ u.cap = t.cap /\ Emplaced(t, u, e, hash, key)
<1> DEFINE u == ArrayEmplace(t, e, hash, key)
           nodes == [t.nodes EXCEPT ![t.size] = e]
<1>1. /\ t.cap \in Nat \ {0} /\ t.size \in Nat /\ t.nodes \in NodesOf(t.cap, E)
      /\ t.size = Cardinality(Used(t.cap, t.nodes)) /\ Distinct(t.cap, t.nodes)
      /\ t = [cap |-> t.cap, size |-> t.size, nodes |-> t.nodes]
      /\ \A i \in 0 .. t.cap - 1 : t.nodes[i] # Sentinel <=> i < t.size
  BY DEF WellFormed, Table, Slots
<1>2. CASE FindSlot(t, e, hash, key) # -1
  <2>1. u = t
    BY <1>2 DEF ArrayEmplace
  <2>2. \E m \in Elems(t) : key[m] = key[e]
    BY <1>2, FindIsSound, ElemsAreMembers DEF Members
  <2> QED BY <2>1, <2>2 DEF Emplaced
<1>3. CASE FindSlot(t, e, hash, key) = -1
  <2>1. \A m \in Elems(t) : ~(key[m] = key[e] /\ hash[m] = hash[e])
    BY <1>3, FindIsComplete
  <2>2. e \notin Members(t.cap, t.nodes)
    BY <2>1, ElemsAreMembers
  <2>3. u = [cap |-> t.cap, size |-> t.size + 1, nodes |-> nodes]
    BY <1>1, <1>3 DEF ArrayEmplace
  <2>4. t.size \in 0 .. t.cap - 1 /\ t.size \notin Used(t.cap, t.nodes)
    BY <1>1 DEF Used
  <2>5. /\ nodes \in NodesOf(t.cap, E) /\ nodes[t.size] = e
        /\ \A i \in 0 .. t.cap - 1 : i # t.size => nodes[i] = t.nodes[i]
    BY <1>1, <2>4 DEF NodesOf
  <2> HIDE DEF nodes, u
  <2>6. Used(t.cap, nodes) = Used(t.cap, t.nodes) \cup {t.size}
    BY <2>4, <2>5 DEF Used, Hashed
  <2>7. Cardinality(Used(t.cap, nodes)) = t.size + 1
    BY <1>1, <2>4, <2>6, OneMoreUsed
  <2>8. Members(t.cap, nodes) = Members(t.cap, t.nodes) \cup {e}
    BY <2>4, <2>5, <2>6 DEF Members, Used
  <2>9. Distinct(t.cap, nodes)
    BY <1>1, <2>2, <2>4, <2>5, <2>6, ZenonT(60) DEF Distinct, Members, Used
  <2>10. u.cap = t.cap /\ u.size = t.size + 1 /\ u.nodes = nodes /\ ~OnHeap(u)
    BY <2>3 DEF OnHeap
  <2>11. Table(u, E)
    BY <1>1, <2>3, <2>5, <2>7, <2>9, <2>10 DEF Table
  <2>12. \A i \in Slots(u) : u.nodes[i] # Sentinel <=> i < u.size
    <3> SUFFICES ASSUME NEW i \in 0 .. t.cap - 1
                 PROVE  nodes[i] # Sentinel <=> i < t.size + 1
      BY <2>10 DEF Slots
    <3> QED BY <1>1, <2>4, <2>5 DEF Hashed
  <2>13. WellFormed(u, E, hash)
    BY <2>10, <2>11, <2>12 DEF WellFormed
  <2>14. Emplaced(t, u, e, hash, key)
    BY <2>1, <2>2, <2>8, <2>10, ElemsAreMembers DEF Emplaced
  <2> QED BY <2>10, <2>13, <2>14 DEF u
<1> QED BY <1>2, <1>3

(* A power of two from MinHeapCapacity on is a multiple of four.           *)
LEMMA QuarterOfCapacity ==
  ASSUME NEW c \in Nat, IsPowerOfTwo(c), c >= 4
  PROVE  \E q \in Nat \ {0} : c = 4 * q /\ IsPowerOfTwo(q) /\ c \div 4 = q /\ c \div 2 = 2 * q
<1>1. PICK h \in Nat : c = 2 * h /\ IsPowerOfTwo(h)
  BY HalvedPower
<1>2. h # 1
  BY <1>1
<1>3. PICK q \in Nat : h = 2 * q /\ IsPowerOfTwo(q)
  BY <1>1, <1>2, HalvedPower
<1>4. c = 4 * q /\ q # 0
  BY <1>1, <1>3
<1> QED BY <1>3, <1>4

LEMMA Quadrupled ==
  ASSUME NEW c \in Nat, IsPowerOfTwo(c)
  PROVE  IsPowerOfTwo(4 * c)
<1>1. IsPowerOfTwo(2 * c) /\ 2 * c \in Nat
  BY DoubledPower
<1>2. IsPowerOfTwo(2 * (2 * c))
  BY <1>1, DoubledPower
<1>3. 2 * (2 * c) = 4 * c
  OBVIOUS
<1> QED BY <1>2, <1>3

(* emplace puts the element in, growing the table first where it must.     *)
LEMMA EmplacePuts ==
  ASSUME NEW E, NEW hash, NEW key, NEW t, NEW e \in E, Hashed(E, hash), WellFormed(t, E, hash)
  PROVE  LET u == Emplace(t, e, hash, key)
         IN  WellFormed(u, E, hash) /\ Emplaced(t, u, e, hash, key)
<1>1. /\ t.cap \in Nat \ {0} /\ t.size \in Nat /\ t.size <= t.cap /\ IsPowerOfTwo(t.cap)
      /\ Table(t, E)
  BY UsedCount DEF WellFormed, Table
<1>2. CASE ~OnHeap(t) /\ t.size < t.cap
  BY <1>2, ArrayEmplacePuts DEF Emplace
<1>3. CASE ~(~OnHeap(t) /\ t.size < t.cap) /\ t.size >= t.cap \div 4 + t.cap \div 2
  <2> DEFINE r == Rehash(t, 4 * t.cap, hash)
  <2>1. 4 * t.cap \in Nat /\ IsPowerOfTwo(4 * t.cap)
    BY <1>1, Quadrupled
  <2>2. Larger(4 * t.cap, MinHeapCapacity) >= 4 * t.cap
    BY <1>1, <2>1, LargerOf, SmallCapacities
  <2>3. Larger(4 * t.cap, MinHeapCapacity) \in Nat
    BY <1>1, <2>1, LargerOf, SmallCapacities
  <2>4. /\ WellFormed(r, E, hash) /\ OnHeap(r) /\ r.cap = Larger(4 * t.cap, MinHeapCapacity)
        /\ r.size = t.size /\ Elems(r) = Elems(t)
    BY <1>1, <2>1, <2>2, <2>3, RehashKeeps
  <2>5. r.size < r.cap - 1
    BY <1>1, <2>2, <2>3, <2>4
  <2>6. Emplace(t, e, hash, key) = EmplaceNoRehash(r, e, hash, key)
    BY <1>3 DEF Emplace
  <2> HIDE DEF r
  <2> DEFINE u == EmplaceNoRehash(r, e, hash, key)
  <2>7. WellFormed(u, E, hash) /\ Emplaced(r, u, e, hash, key)
    BY <2>4, <2>5, EmplaceNoRehashPuts
  <2> HIDE DEF u
  <2>8. Emplaced(t, u, e, hash, key)
    BY <2>4, <2>7 DEF Emplaced
  <2> QED BY <2>6, <2>7, <2>8 DEF u
<1>4. CASE ~(~OnHeap(t) /\ t.size < t.cap) /\ ~(t.size >= t.cap \div 4 + t.cap \div 2)
  <2>1. OnHeap(t) \/ t.size = t.cap
    BY <1>1, <1>4
  <2>2. OnHeap(t)
    BY <1>1, <1>4, <2>1
  <2>3. t.cap >= 4
    BY <1>1, <2>2, SmallCapacities DEF WellFormed
  <2>4. PICK q \in Nat \ {0} : t.cap = 4 * q /\ t.cap \div 4 = q /\ t.cap \div 2 = 2 * q
    BY <1>1, <2>3, QuarterOfCapacity
  <2>5. t.size < t.cap - 1
    BY <1>1, <1>4, <2>4
  <2>6. Emplace(t, e, hash, key) = EmplaceNoRehash(t, e, hash, key)
    BY <1>4 DEF Emplace
  <2> QED BY <2>2, <2>5, <2>6, EmplaceNoRehashPuts
<1> QED BY <1>2, <1>3, <1>4

(* insert makes room: the table then has a slot more than the elements     *)
(* there are and will be.                                                  *)
LEMMA RangeFits ==
  ASSUME NEW E, NEW hash, Hashed(E, hash), NEW t, WellFormed(t, E, hash), NEW s \in Nat,
         t.size <= s
  PROVE  LET pow    == IF s = 0 THEN 0 ELSE Least({c \in s .. 2 * s : IsPowerOfTwo(c)})
             wanted == Larger(IF s > pow \div 4 + pow \div 2 THEN 4 * pow ELSE pow, t.cap)
             roomy  == IF wanted # t.cap THEN Rehash(t, wanted, hash) ELSE t
         IN  /\ WellFormed(roomy, E, hash) /\ Elems(roomy) = Elems(t) /\ roomy.size = t.size
             /\ s < roomy.cap
<1> DEFINE P      == {c \in s .. 2 * s : IsPowerOfTwo(c)}
           pow    == IF s = 0 THEN 0 ELSE Least(P)
           c0     == IF s > pow \div 4 + pow \div 2 THEN 4 * pow ELSE pow
           wanted == Larger(c0, t.cap)
           roomy  == IF wanted # t.cap THEN Rehash(t, wanted, hash) ELSE t
<1>1. /\ t.cap \in Nat \ {0} /\ t.size \in Nat /\ IsPowerOfTwo(t.cap) /\ Table(t, E)
  BY DEF WellFormed, Table
<1>2. CASE s = 0
  <2>1. c0 = 0
    BY <1>2
  <2>2. roomy = t
    BY <1>1, <2>1 DEF Larger
  <2> QED BY <1>1, <1>2, <2>2
<1>3. CASE s # 0
  <2>1. P # {} /\ P \in SUBSET Nat
    BY <1>3, PowerAbove
  <2>2. Least(P) \in P
    <3> HIDE DEF P
    <3> QED BY <2>1, LeastIsLeast
  <2>3. pow \in Nat /\ pow >= s /\ IsPowerOfTwo(pow)
    BY <1>3, <2>2
  <2> HIDE DEF pow
  <2>4. c0 \in Nat /\ IsPowerOfTwo(c0) /\ s < c0
    BY <1>3, <2>3, Quadrupled
  <2> HIDE DEF c0
  <2>5. wanted \in Nat /\ IsPowerOfTwo(wanted) /\ s < wanted
    BY <1>1, <2>4, LargerOf
  <2> HIDE DEF wanted
  <2>6. CASE wanted = t.cap
    <3>1. roomy = t
      BY <2>6
    <3> QED BY <2>5, <2>6, <3>1 DEF wanted, c0, pow
  <2>7. CASE wanted # t.cap
    <3>1. /\ Larger(wanted, MinHeapCapacity) \in Nat
          /\ Larger(wanted, MinHeapCapacity) >= wanted
      BY <2>5, LargerOf, SmallCapacities
    <3>2. t.size < Larger(wanted, MinHeapCapacity) /\ s < Larger(wanted, MinHeapCapacity)
      BY <1>1, <2>5, <3>1
    <3>3. roomy = Rehash(t, wanted, hash)
      BY <2>7
    <3>4. /\ WellFormed(roomy, E, hash) /\ Elems(roomy) = Elems(t) /\ roomy.size = t.size
          /\ roomy.cap = Larger(wanted, MinHeapCapacity)
      <4> HIDE DEF roomy
      <4> QED BY <1>1, <2>5, <3>2, <3>3, RehashKeeps
    <3> QED BY <3>2, <3>4 DEF wanted, c0, pow
  <2> QED BY <2>6, <2>7
<1> QED BY <1>2, <1>3

(* insert of a range: whatever was in the table stays, nothing but the     *)
(* range comes in, each of its elements has an equal one in the table, and *)
(* the size tells whether any was new.                                     *)
LEMMA EmplaceRangePuts ==
  ASSUME NEW E, NEW hash, NEW key, NEW t, NEW es \in Seq(E), Hashed(E, hash),
         WellFormed(t, E, hash)
  PROVE  LET u == EmplaceRange(t, es, hash, key)
         IN  /\ WellFormed(u, E, hash) /\ (u.size = t.size <=> Elems(u) = Elems(t))
             /\ Elems(t) \subseteq Elems(u)
             /\ Elems(u) \subseteq Elems(t) \cup {es[i] : i \in DOMAIN es}
             /\ \A i \in DOMAIN es : \E m \in Elems(u) : key[m] = key[es[i]]
<1> DEFINE s      == t.size + Len(es)
           pow    == IF s = 0 THEN 0 ELSE Least({c \in s .. 2 * s : IsPowerOfTwo(c)})
           wanted == Larger(IF s > pow \div 4 + pow \div 2 THEN 4 * pow ELSE pow, t.cap)
           roomy  == IF wanted # t.cap THEN Rehash(t, wanted, hash) ELSE t
           put(u, e) == IF OnHeap(roomy) THEN EmplaceNoRehash(u, e, hash, key)
                        ELSE ArrayEmplace(u, e, hash, key)
           loop(p) == [i \in 0 .. Len(es) |-> IF i = 0 THEN roomy ELSE put(p[i - 1], es[i])]
           after   == CHOOSE p : p = loop(p)
           V == [cap : {roomy.cap}, size : Nat, nodes : NodesOf(roomy.cap, E)]
           Good(i, u) == /\ WellFormed(u, E, hash) /\ u.cap = roomy.cap
                         /\ u.size <= t.size + i /\ t.size <= u.size
                         /\ (u.size = t.size <=> Elems(u) = Elems(t))
                         /\ Elems(t) \subseteq Elems(u)
                         /\ Elems(u) \subseteq Elems(t) \cup {es[j] : j \in 1 .. i}
                         /\ \A j \in 1 .. i : \E m \in Elems(u) : key[m] = key[es[j]]
           W    == {w \in (0 .. Len(es)) \X V : Good(w[1], w[2])}
           step == [w \in W |-> put(w[2], es[w[1] + 1])]
<1>1. /\ t.size \in Nat /\ Len(es) \in Nat /\ s \in Nat /\ t.size <= s
      /\ DOMAIN es = 1 .. Len(es) /\ \A i \in 1 .. Len(es) : es[i] \in E
  BY DEF WellFormed, Table
<1>2. /\ WellFormed(roomy, E, hash) /\ Elems(roomy) = Elems(t) /\ roomy.size = t.size
      /\ s < roomy.cap
  <2> HIDE DEF s
  <2> QED BY <1>1, RangeFits
<1>3. EmplaceRange(t, es, hash, key) = after[Len(es)]
  BY DEF EmplaceRange
<1> HIDE DEF roomy
<1>4. \A i, u : Good(i, u) => u \in V
  BY DEF WellFormed, Table
<1>5. Good(0, roomy)
  BY <1>1, <1>2
<1>6. ASSUME NEW i \in 0 .. Len(es) - 1, NEW u \in V, Good(i, u)
      PROVE  Good(i + 1, put(u, es[i + 1]))
  <2> DEFINE e == es[i + 1]
             v == put(u, e)
  <2>1. e \in E /\ i + 1 \in 1 .. Len(es)
    BY <1>1
  <2>2. u.size \in Nat /\ roomy.cap \in Nat /\ u.size < roomy.cap - 1
    <3>1. u.size \in Nat /\ roomy.cap \in Nat
      BY <1>2, <1>6 DEF WellFormed, Table
    <3>2. u.size <= t.size + i
      BY <1>6
    <3> QED BY <1>1, <1>2, <3>1, <3>2
  <2>3. OnHeap(u) <=> OnHeap(roomy)
    BY <1>6 DEF OnHeap
  <2>4. WellFormed(v, E, hash) /\ v.cap = roomy.cap /\ Emplaced(u, v, e, hash, key)
    <3> HIDE DEF e
    <3>1. WellFormed(u, E, hash) /\ u.cap = roomy.cap /\ u.size < u.cap - 1 /\ u.size < u.cap
      BY <1>6, <2>2
    <3>2. CASE OnHeap(roomy)
      <4>1. v = EmplaceNoRehash(u, e, hash, key)
        BY <3>2
      <4>2. OnHeap(u)
        BY <2>3, <3>2
      <4> HIDE DEF v
      <4>3. WellFormed(v, E, hash) /\ v.cap = u.cap /\ Emplaced(u, v, e, hash, key)
        <5> HIDE DEF Good, V, put, loop, s, W, step, pow, wanted
        <5> QED BY <2>1, <3>1, <4>1, <4>2, EmplaceNoRehashPuts, SMTT(30)
      <4> QED BY <3>1, <4>3
    <3>3. CASE ~OnHeap(roomy)
      <4>1. v = ArrayEmplace(u, e, hash, key)
        BY <3>3
      <4> HIDE DEF v
      <4> QED BY <2>1, <2>3, <3>1, <3>3, <4>1, ArrayEmplacePuts
    <3> QED BY <3>2, <3>3
  <2>5. {es[j] : j \in 1 .. i + 1} = {es[j] : j \in 1 .. i} \cup {e}
    BY <1>1, <2>1
  <2> HIDE DEF v
  <2>6. \A j \in 1 .. i + 1 : \E m \in Elems(v) : key[m] = key[es[j]]
    <3>1. \A j \in 1 .. i + 1 : j \in 1 .. i \/ es[j] = e
      OBVIOUS
    <3>2. Elems(u) \subseteq Elems(v)
      BY <2>4 DEF Emplaced
    <3>3. \E m \in Elems(v) : key[m] = key[e]
      BY <2>4 DEF Emplaced
    <3> QED BY <1>6, <3>1, <3>2, <3>3
  <2>7. v.size \in {u.size, u.size + 1} /\ (v.size = u.size <=> Elems(v) = Elems(u))
        /\ Elems(u) \subseteq Elems(v) /\ Elems(v) \subseteq Elems(u) \cup {e}
        /\ (v.size # u.size => e \notin Elems(u) /\ e \in Elems(v))
    BY <2>2, <2>4 DEF Emplaced
  <2>8. v.size <= t.size + (i + 1) /\ t.size <= v.size
    BY <1>1, <1>6, <2>2, <2>7, SMTT(30)
  <2>9. v.size = t.size <=> Elems(v) = Elems(t)
    <3>1. CASE v.size = u.size
      BY <1>6, <2>7, <3>1
    <3>2. CASE v.size # u.size
      <4>1. v.size # t.size
        BY <1>1, <1>6, <2>2, <2>7, <3>2
      <4>2. Elems(v) # Elems(t)
        BY <1>6, <2>7, <3>2
      <4> QED BY <4>1, <4>2
    <3> QED BY <3>1, <3>2
  <2>10. Elems(t) \subseteq Elems(v) /\ Elems(v) \subseteq Elems(t) \cup {es[j] : j \in 1 .. i + 1}
    BY <1>6, <2>5, <2>7
  <2> QED BY <2>4, <2>6, <2>8, <2>9, <2>10 DEF v
<1>7. \A i \in 0 .. Len(es) - 1 : \A u \in V : Good(i, u) => step[<<i, u>>] = put(u, es[i + 1])
  <2> HIDE DEF V, Good, put
  <2> QED BY <1>1
<1> HIDE DEF V, Good, put, step
<1>8. \E f \in [0 .. Len(es) -> V] : Iterates(f, 0, Len(es), roomy, step, W)
  <2>1. \A i \in 0 .. Len(es) - 1 : \A u \in V :
          <<i, u>> \in W => step[<<i, u>>] \in V /\ <<i + 1, step[<<i, u>>]>> \in W
    BY <1>1, <1>4, <1>6, <1>7
  <2>2. W \in SUBSET (Nat \X V) /\ <<0, roomy>> \in W /\ roomy \in V
    BY <1>1, <1>4, <1>5
  <2>3. 0 <= Len(es) /\ 0 \in Nat
    BY <1>1
  <2> HIDE DEF W
  <2> QED BY <1>1, <2>1, <2>2, <2>3, IterationExists
<1>9. PICK f \in [0 .. Len(es) -> V] : Iterates(f, 0, Len(es), roomy, step, W)
  BY <1>8
<1>10. f = loop(f)
  <2>1. ASSUME NEW i \in 0 .. Len(es), i # 0 PROVE f[i] = put(f[i - 1], es[i])
    <3>1. i - 1 \in 0 .. Len(es) - 1 /\ i - 1 \in 0 .. Len(es) /\ (i - 1) + 1 = i
      BY <1>1, <2>1
    <3>2. f[i] = step[<<i - 1, f[i - 1]>>] /\ <<i - 1, f[i - 1]>> \in W
      BY <1>9, <3>1 DEF Iterates
    <3> QED BY <1>7, <3>1, <3>2
  <2>2. f[0] = roomy
    BY <1>9 DEF Iterates
  <2> QED BY <2>1, <2>2
<1>11. after = loop(after)
  <2> HIDE DEF loop
  <2> QED BY <1>10
<1> HIDE DEF after
<1>12. Good(Len(es), after[Len(es)])
  <2> DEFINE S == {i \in 0 .. Len(es) : Good(i, after[i])}
  <2>1. 0 \in S
    BY <1>1, <1>5, <1>11
  <2>2. \A i \in 0 .. Len(es) - 1 : i \in S => i + 1 \in S
    <3> SUFFICES ASSUME NEW i \in 0 .. Len(es) - 1, Good(i, after[i])
                 PROVE  Good(i + 1, after[i + 1])
      BY <1>1
    <3>1. after[i + 1] = put(after[i], es[i + 1])
      <4>1. i + 1 \in 0 .. Len(es) /\ i + 1 # 0 /\ (i + 1) - 1 = i
        BY <1>1
      <4> HIDE DEF put
      <4> QED BY <1>11, <4>1
    <3> QED BY <1>4, <1>6, <3>1
  <2> HIDE DEF S
  <2>3. 0 .. Len(es) \subseteq S
    BY <1>1, <2>1, <2>2, InductionTo
  <2> QED BY <1>1, <2>3 DEF S
<1> QED BY <1>1, <1>3, <1>12 DEF Good

-----------------------------------------------------------------------------
(* Counting the slots from pos on goes round the same circle.              *)
LEMMA Ring ==
  ASSUME NEW cap \in Nat \ {0}, NEW pos \in 0 .. cap - 1
  PROVE  LET s(d) == Mod(cap, pos + d)
             back(i) == Mod(cap, i + cap - pos)
         IN  /\ \A i \in 0 .. cap - 1 : back(i) \in 0 .. cap - 1 /\ s(back(i)) = i
             /\ \A d \in 0 .. cap - 1 : s(d) \in 0 .. cap - 1 /\ back(s(d)) = d
             /\ \A d \in 0 .. cap - 1 :
                  Mod(cap, s(d) + cap - 1) = s(IF d = 0 THEN cap - 1 ELSE d - 1)
             /\ s(0) = pos /\ s(cap) = pos
<1> DEFINE s(d) == Mod(cap, pos + d)
           back(i) == Mod(cap, i + cap - pos)
<1>1. /\ \A x \in Nat : Mod(cap, x) \in 0 .. cap - 1
      /\ \A x \in 0 .. cap - 1 : Mod(cap, x) = x
      /\ \A x \in cap .. 2 * cap - 1 : Mod(cap, x) = x - cap
  BY ModIsWrap
<1>2. ASSUME NEW i \in 0 .. cap - 1
      PROVE  back(i) = IF i >= pos THEN i - pos ELSE i + cap - pos
  BY <1>1
<1>3. ASSUME NEW d \in 0 .. cap - 1
      PROVE  s(d) = IF pos + d < cap THEN pos + d ELSE pos + d - cap
  BY <1>1
<1>4. \A i \in 0 .. cap - 1 : Mod(cap, i + cap - 1) = IF i = 0 THEN cap - 1 ELSE i - 1
  BY <1>1
<1>5. s(0) = pos /\ s(cap) = pos
  BY <1>1
<1> HIDE DEF s, back
<1>6. \A i \in 0 .. cap - 1 : back(i) \in 0 .. cap - 1 /\ s(back(i)) = i
  BY <1>2, <1>3
<1>7. \A d \in 0 .. cap - 1 : s(d) \in 0 .. cap - 1 /\ back(s(d)) = d
  BY <1>2, <1>3
<1>8. \A d \in 0 .. cap - 1 : Mod(cap, s(d) + cap - 1) = s(IF d = 0 THEN cap - 1 ELSE d - 1)
  <2> SUFFICES ASSUME NEW d \in 0 .. cap - 1
               PROVE  Mod(cap, s(d) + cap - 1) = s(IF d = 0 THEN cap - 1 ELSE d - 1)
    OBVIOUS
  <2>1. s(d) \in 0 .. cap - 1
    BY <1>7
  <2>2. Mod(cap, s(d) + cap - 1) = IF s(d) = 0 THEN cap - 1 ELSE s(d) - 1
    BY <1>4, <2>1
  <2>3. s(d) = IF pos + d < cap THEN pos + d ELSE pos + d - cap
    BY <1>3
  <2>4. CASE d = 0
    <3>1. s(cap - 1) = IF pos + (cap - 1) < cap THEN pos + (cap - 1) ELSE pos + (cap - 1) - cap
      BY <1>3
    <3> QED BY <1>5, <2>2, <2>4, <3>1
  <2>5. CASE d # 0
    <3>1. s(d - 1) = IF pos + (d - 1) < cap THEN pos + (d - 1) ELSE pos + (d - 1) - cap
      BY <1>3, <2>5
    <3> QED BY <2>2, <2>3, <2>5, <3>1
  <2> QED BY <2>4, <2>5
<1> QED BY <1>5, <1>6, <1>7, <1>8 DEF s, back

(* The shift of erase: the elements of the run behind pos move back by one *)
(* slot each, and the order holds again.                                   *)
ShiftedBack(cap, nodes, pos, last) ==
  [i \in 0 .. cap - 1 |->
     LET d == Mod(cap, i + cap - pos)
     IN  CASE d < last -> nodes[Mod(cap, pos + (d + 1))]
           [] d = last -> Sentinel
           [] OTHER    -> nodes[i]]

LEMMA ShiftErases ==
  ASSUME NEW cap \in Nat \ {0}, NEW E, NEW hash, Hashed(E, hash), NEW nodes \in NodesOf(cap, E),
         Distinct(cap, nodes), Ordered(cap, nodes, hash), NEW pos \in Used(cap, nodes),
         NEW last \in 0 .. cap - 2,
         \A d \in 1 .. last : /\ Mod(cap, pos + d) \in Used(cap, nodes)
                              /\ ProbeDistance(cap, nodes, Mod(cap, pos + d), hash) > 0,
         \/ nodes[Mod(cap, pos + (last + 1))] = Sentinel
         \/ ProbeDistance(cap, nodes, Mod(cap, pos + (last + 1)), hash) = 0,
         NEW new, new = ShiftedBack(cap, nodes, pos, last)
  PROVE  /\ new \in NodesOf(cap, E) /\ Distinct(cap, new) /\ Ordered(cap, new, hash)
         /\ \E i \in Used(cap, nodes) : Used(cap, new) = Used(cap, nodes) \ {i}
         /\ Members(cap, new) = Members(cap, nodes) \ {nodes[pos]}
<1> DEFINE s(d) == Mod(cap, pos + d)
           back(i) == Mod(cap, i + cap - pos)
           dist(d) == ProbeDistance(cap, nodes, s(d), hash)
<1>1. pos \in 0 .. cap - 1 /\ last \in Nat /\ last + 1 \in 0 .. cap - 1
  BY DEF Used
<1>2. /\ \A i \in 0 .. cap - 1 : back(i) \in 0 .. cap - 1 /\ s(back(i)) = i
      /\ \A d \in 0 .. cap - 1 : s(d) \in 0 .. cap - 1 /\ back(s(d)) = d
      /\ s(0) = pos
  <2>1. \A i \in 0 .. cap - 1 : back(i) \in 0 .. cap - 1 /\ s(back(i)) = i
    <3> SUFFICES ASSUME NEW i \in 0 .. cap - 1
                 PROVE  back(i) \in 0 .. cap - 1 /\ s(back(i)) = i
      OBVIOUS
    <3>1. back(i) \in 0 .. cap - 1
      BY <1>1, Ring
    <3>2. s(back(i)) = i
      BY <1>1, Ring
    <3> QED BY <3>1, <3>2
  <2>2. \A d \in 0 .. cap - 1 : s(d) \in 0 .. cap - 1 /\ back(s(d)) = d
    <3> SUFFICES ASSUME NEW d \in 0 .. cap - 1
                 PROVE  s(d) \in 0 .. cap - 1 /\ back(s(d)) = d
      OBVIOUS
    <3>1. s(d) \in 0 .. cap - 1
      BY <1>1, Ring
    <3>2. back(s(d)) = d
      BY <1>1, Ring
    <3> QED BY <3>1, <3>2
  <2>3. s(0) = pos
    BY <1>1, Ring
  <2> QED BY <2>1, <2>2, <2>3
<1>0. \A d \in 0 .. cap - 1 : Mod(cap, s(d) + cap - 1) = s(IF d = 0 THEN cap - 1 ELSE d - 1)
  BY <1>1, Ring, ZenonT(60)
<1>3. \A d \in 0 .. last : s(d) \in Used(cap, nodes)
  <2> SUFFICES ASSUME NEW d \in 0 .. last PROVE s(d) \in Used(cap, nodes)
    OBVIOUS
  <2>1. CASE d = 0
    BY <1>2, <2>1
  <2>2. CASE d # 0
    <3>1. d \in 1 .. last
      BY <1>1, <2>2
    <3> QED BY <3>1
  <2> QED BY <2>1, <2>2
<1>4. \A d \in 1 .. last : dist(d) > 0
  OBVIOUS
<1>5. nodes[s(last + 1)] = Sentinel \/ dist(last + 1) = 0
  OBVIOUS
<1>6. \A i \in 0 .. cap - 1 : new[i] = IF back(i) < last THEN nodes[s(back(i) + 1)]
                                      ELSE IF back(i) = last THEN Sentinel ELSE nodes[i]
  <2> SUFFICES ASSUME NEW i \in 0 .. cap - 1
               PROVE  new[i] = IF back(i) < last THEN nodes[s(back(i) + 1)]
                               ELSE IF back(i) = last THEN Sentinel ELSE nodes[i]
    OBVIOUS
  <2>1. back(i) \in Nat
    BY <1>2
  <2>2. new[i] = CASE back(i) < last -> nodes[s(back(i) + 1)]
                   [] back(i) = last -> Sentinel
                   [] OTHER -> nodes[i]
    BY DEF ShiftedBack
  <2> HIDE DEF back, s
  <2> QED BY <1>1, <2>1, <2>2
<1> HIDE DEF s, back
<1>7. \A i \in 0 .. cap - 1 : nodes[i] \in E \cup {Sentinel} /\ Sentinel \notin E
  BY DEF NodesOf, Hashed
<1>8. new \in NodesOf(cap, E)
  <2>1. \A i \in 0 .. cap - 1 : new[i] \in E \cup {Sentinel}
    <3> SUFFICES ASSUME NEW i \in 0 .. cap - 1 PROVE new[i] \in E \cup {Sentinel}
      OBVIOUS
    <3>1. ASSUME back(i) < last PROVE s(back(i) + 1) \in 0 .. cap - 1
      <4>1. back(i) + 1 \in 0 .. cap - 1
        BY <1>1, <1>2, <3>1
      <4> QED BY <1>2, <4>1
    <3> QED BY <1>6, <1>7, <3>1
  <2>2. new = [i \in 0 .. cap - 1 |-> new[i]]
    BY DEF ShiftedBack
  <2> QED BY <2>1, <2>2 DEF NodesOf
(* Where the element that i holds in the end came from.                    *)
<1> DEFINE src(i) == IF back(i) < last THEN s(back(i) + 1) ELSE i
<1>9. Used(cap, new) = Used(cap, nodes) \ {s(last)}
  <2> SUFFICES ASSUME NEW i \in 0 .. cap - 1
               PROVE  new[i] # Sentinel <=> nodes[i] # Sentinel /\ i # s(last)
    BY DEF Used
  <2>1. back(i) = last <=> i = s(last)
    BY <1>1, <1>2
  <2>2. CASE back(i) < last
    <3>1. s(back(i) + 1) \in Used(cap, nodes) /\ s(back(i)) \in Used(cap, nodes)
      BY <1>1, <1>2, <1>3, <2>2
    <3>2. i \in Used(cap, nodes) /\ new[i] = nodes[s(back(i) + 1)] /\ back(i) # last
      BY <1>1, <1>2, <1>6, <2>2, <3>1
    <3> QED BY <2>1, <3>1, <3>2 DEF Used
  <2>3. CASE back(i) = last
    BY <1>1, <1>6, <2>1, <2>3
  <2>4. CASE ~(back(i) < last) /\ back(i) # last
    BY <1>6, <2>1, <2>4
  <2> QED BY <2>2, <2>3, <2>4
<1>10. \A i \in Used(cap, new) : /\ i \in 0 .. cap - 1 /\ back(i) # last
                                 /\ src(i) \in Used(cap, nodes) /\ src(i) # pos
                                 /\ new[i] = nodes[src(i)]
  <2> SUFFICES ASSUME NEW i \in Used(cap, new)
               PROVE  /\ i \in 0 .. cap - 1 /\ back(i) # last
                      /\ src(i) \in Used(cap, nodes) /\ src(i) # pos
                      /\ new[i] = nodes[src(i)]
    OBVIOUS
  <2>1. i \in 0 .. cap - 1 /\ i # s(last) /\ i \in Used(cap, nodes)
    BY <1>9 DEF Used
  <2>2. back(i) # last
    BY <1>2, <2>1
  <2>3. CASE back(i) < last
    <3>1. back(i) + 1 \in 1 .. last /\ back(i) + 1 \in 0 .. cap - 1
      BY <1>1, <1>2, <2>1, <2>3
    <3>2. s(back(i) + 1) \in Used(cap, nodes)
      BY <1>1, <1>3, <3>1
    <3>3. s(back(i) + 1) # s(0)
      <4>1. back(s(back(i) + 1)) = back(i) + 1 /\ back(s(0)) = 0
        BY <1>1, <1>2, <3>1
      <4> QED BY <3>1, <4>1
    <3> QED BY <1>2, <1>6, <2>1, <2>2, <2>3, <3>2, <3>3
  <2>4. CASE ~(back(i) < last)
    <3>1. i # s(0)
      BY <1>1, <1>2, <2>1, <2>2, <2>4
    <3> QED BY <1>2, <1>6, <2>1, <2>2, <2>4, <3>1
  <2> QED BY <2>3, <2>4
<1>11. \A i, j \in Used(cap, new) : src(i) = src(j) => i = j
  <2> SUFFICES ASSUME NEW i \in Used(cap, new), NEW j \in Used(cap, new), src(i) = src(j)
               PROVE  i = j
    OBVIOUS
  <2>1. /\ i \in 0 .. cap - 1 /\ back(i) # last /\ back(i) \in 0 .. cap - 1
        /\ j \in 0 .. cap - 1 /\ back(j) # last /\ back(j) \in 0 .. cap - 1
    BY <1>2, <1>10
  <2>2. /\ back(src(i)) = IF back(i) < last THEN back(i) + 1 ELSE back(i)
        /\ back(src(j)) = IF back(j) < last THEN back(j) + 1 ELSE back(j)
    <3>1. \A k \in 0 .. cap - 1 : back(k) < last => back(k) + 1 \in 0 .. cap - 1
      BY <1>1, <1>2
    <3>2. \A k \in 0 .. cap - 1 : back(k) < last => back(s(back(k) + 1)) = back(k) + 1
      BY <1>2, <3>1
    <3> QED BY <2>1, <3>2
  <2>3. back(i) = back(j)
    BY <1>1, <2>1, <2>2
  <2> QED BY <1>2, <2>1, <2>3
<1>12. \A j \in Used(cap, nodes) : j # pos => \E i \in Used(cap, new) : src(i) = j
  <2> SUFFICES ASSUME NEW j \in Used(cap, nodes), j # pos
               PROVE  \E i \in Used(cap, new) : src(i) = j
    OBVIOUS
  <2>1. j \in 0 .. cap - 1 /\ back(j) \in 0 .. cap - 1 /\ s(back(j)) = j /\ back(j) # 0
    BY <1>2 DEF Used
  <2>2. CASE back(j) <= last
    <3> DEFINE i == s(back(j) - 1)
    <3>1. back(j) - 1 \in 0 .. last - 1 /\ back(j) - 1 \in 0 .. cap - 1
      BY <1>1, <2>1, <2>2
    <3>2. back(i) = back(j) - 1 /\ i \in 0 .. cap - 1
      BY <1>2, <3>1
    <3>3. i \in Used(cap, nodes) /\ i # s(last)
      BY <1>1, <1>2, <1>3, <3>1, <3>2
    <3>4. src(i) = j
      BY <1>1, <2>1, <2>2, <3>1, <3>2
    <3> QED BY <1>9, <3>3, <3>4
  <2>3. CASE ~(back(j) <= last)
    <3>1. j # s(last) /\ src(j) = j
      BY <1>1, <1>2, <2>1, <2>3
    <3> QED BY <1>9, <3>1
  <2> QED BY <2>2, <2>3
<1>13. Distinct(cap, new)
  <2> SUFFICES ASSUME NEW i \in Used(cap, new), NEW j \in Used(cap, new), new[i] = new[j]
               PROVE  i = j
    BY DEF Distinct
  <2> HIDE DEF src
  <2> QED BY <1>10, <1>11 DEF Distinct
<1>14. Members(cap, new) = Members(cap, nodes) \ {nodes[pos]}
  <2> HIDE DEF src
  <2>1. \A j \in Used(cap, nodes) : j # pos => nodes[j] # nodes[pos]
    BY DEF Distinct
  <2>2. \A i \in Used(cap, new) : new[i] \in Members(cap, nodes) \ {nodes[pos]}
    BY <1>10, <2>1 DEF Members
  <2>3. \A j \in Used(cap, nodes) : j # pos => nodes[j] \in Members(cap, new)
    BY <1>10, <1>12 DEF Members
  <2> QED BY <2>2, <2>3 DEF Members
(* One step back on the circle, in the old table and in the new one.       *)
<1> DEFINE prior(d) == IF d = 0 THEN cap - 1 ELSE d - 1
           ndist(d) == ProbeDistance(cap, new, s(d), hash)
<1>15. \A d \in 0 .. cap - 1 : s(d) \in Used(cap, nodes) /\ dist(d) > 0 =>
         s(prior(d)) \in Used(cap, nodes) /\ dist(prior(d)) >= dist(d) - 1
  <2> SUFFICES ASSUME NEW d \in 0 .. cap - 1, s(d) \in Used(cap, nodes), dist(d) > 0
               PROVE  s(prior(d)) \in Used(cap, nodes) /\ dist(prior(d)) >= dist(d) - 1
    OBVIOUS
  <2>1. Mod(cap, s(d) + cap - 1) = s(prior(d)) /\ prior(d) \in 0 .. cap - 1
    BY <1>0
  <2>2. s(prior(d)) \in 0 .. cap - 1
    BY <1>2, <2>1
  <2> QED BY <2>1, <2>2 DEF Ordered, Used
<1>16. \A d \in 0 .. cap - 1 : s(d) \in Used(cap, nodes) => dist(d) \in 0 .. cap - 1
  BY DistanceIsAway
<1>17. \A d \in 0 .. cap - 1 : d > last /\ s(d) \in Used(cap, nodes) =>
         s(d) \in Used(cap, new) /\ ndist(d) = dist(d)
  <2> SUFFICES ASSUME NEW d \in 0 .. cap - 1, d > last, s(d) \in Used(cap, nodes)
               PROVE  s(d) \in Used(cap, new) /\ ndist(d) = dist(d)
    OBVIOUS
  <2>1. s(d) \in 0 .. cap - 1 /\ back(s(d)) = d /\ back(s(last)) = last
    BY <1>1, <1>2
  <2>2. new[s(d)] = nodes[s(d)]
    BY <1>1, <1>6, <2>1
  <2>3. s(d) # s(last)
    BY <1>1, <2>1
  <2> QED BY <1>9, <2>2, <2>3 DEF ProbeDistance
<1>18. \A d \in 0 .. last - 1 : s(d) \in Used(cap, new) /\ ndist(d) = dist(d + 1) - 1
  <2> SUFFICES ASSUME NEW d \in 0 .. last - 1
               PROVE  s(d) \in Used(cap, new) /\ ndist(d) = dist(d + 1) - 1
    OBVIOUS
  <2>1. /\ d \in 0 .. cap - 1 /\ d < last /\ d + 1 \in 1 .. last /\ d + 1 \in 0 .. cap - 1
        /\ d \in 0 .. last /\ d + 1 \in 0 .. last
    BY <1>1
  <2>2. s(d) \in 0 .. cap - 1 /\ back(s(d)) = d /\ back(s(last)) = last
    BY <1>1, <1>2, <2>1
  <2>3. new[s(d)] = nodes[s(d + 1)]
    BY <1>6, <2>1, <2>2
  <2>4. s(d) # s(last)
    BY <2>1, <2>2
  <2>5. s(d) \in Used(cap, new)
    BY <1>3, <1>9, <2>1, <2>4
  <2>6. s(d + 1) \in Used(cap, nodes) /\ s(d + 1) \in 0 .. cap - 1 /\ nodes[s(d + 1)] \in E
    BY <1>2, <1>3, <1>7, <2>1 DEF Used
  <2>7. Mod(cap, s(d + 1) + cap - 1) = s(d)
    BY <1>0, <2>1
  <2>8. dist(d + 1) = Away(cap, nodes[s(d + 1)], s(d + 1), hash) /\ dist(d + 1) > 0
    BY <1>4, <2>1, <2>6, DistanceIsAway
  <2>9. Away(cap, nodes[s(d + 1)], s(d), hash) = dist(d + 1) - 1
    BY <2>6, <2>7, <2>8, AwayStep
  <2>10. ndist(d) = Away(cap, new[s(d)], s(d), hash)
    BY DEF ProbeDistance, Away
  <2> QED BY <2>3, <2>5, <2>9, <2>10
<1>19. Ordered(cap, new, hash)
  <2> SUFFICES ASSUME NEW i \in Used(cap, new), ProbeDistance(cap, new, i, hash) > 0
               PROVE  LET prev == Mod(cap, i + cap - 1)
                      IN  /\ new[prev] # Sentinel
                          /\ ProbeDistance(cap, new, prev, hash)
                               >= ProbeDistance(cap, new, i, hash) - 1
    BY DEF Ordered
  <2> DEFINE d == back(i)
             p == prior(d)
  <2>1. i \in 0 .. cap - 1 /\ d # last /\ s(d) = i /\ d \in 0 .. cap - 1
    BY <1>2, <1>10
  <2>2. Mod(cap, i + cap - 1) = s(p) /\ p \in 0 .. cap - 1
    BY <1>0, <2>1
  <2>3. ndist(d) = ProbeDistance(cap, new, i, hash) /\ ndist(d) > 0
    BY <2>1
  <2>4. s(p) \in Used(cap, new) /\ ndist(p) >= ndist(d) - 1
    <3> HIDE DEF d, ndist, dist
    <3>1. CASE d < last
      <4>1. /\ d \in 0 .. last - 1 /\ d + 1 \in 1 .. last /\ d + 1 \in 0 .. cap - 1
            /\ d + 1 \in 0 .. last /\ prior(d + 1) = d /\ d \in 0 .. last
        BY <1>1, <2>1, <3>1
      <4>2. ndist(d) = dist(d + 1) - 1 /\ dist(d + 1) > 0
        BY <1>4, <1>18, <4>1
      <4>3. dist(d) >= dist(d + 1) - 1
        BY <1>3, <1>15, <4>1, <4>2
      <4>4. dist(d) \in Nat /\ dist(d + 1) \in Nat
        BY <1>3, <1>16, <2>1, <4>1
      <4>5. dist(d) > 0
        BY <2>3, <4>2, <4>3, <4>4
      <4>6. s(p) \in Used(cap, nodes) /\ dist(p) >= dist(d) - 1
        BY <1>3, <1>15, <2>1, <4>1, <4>5
      <4>7. CASE d = 0
        <5>1. p = cap - 1 /\ p > last
          BY <1>1, <4>7
        <5>2. s(p) \in Used(cap, new) /\ ndist(p) = dist(p)
          BY <1>17, <2>2, <4>6, <5>1
        <5>3. dist(p) \in Nat
          BY <1>16, <2>2, <4>6
        <5> HIDE DEF p
        <5> QED BY <4>2, <4>3, <4>4, <4>6, <5>2, <5>3
      <4>8. CASE d # 0
        <5>1. p \in 0 .. last - 1 /\ p + 1 = d
          BY <1>1, <2>1, <3>1, <4>8
        <5>2. s(p) \in Used(cap, new) /\ ndist(p) = dist(d) - 1
          BY <1>18, <5>1
        <5> HIDE DEF p
        <5> QED BY <4>2, <4>3, <4>4, <5>2
      <4> QED BY <4>7, <4>8
    <3>2. CASE ~(d < last)
      <4>1. d > last /\ s(d) \in Used(cap, nodes)
        BY <1>1, <1>9, <2>1, <3>2
      <4>2. ndist(d) = dist(d)
        BY <1>17, <2>1, <4>1
      <4>3. d # last + 1
        BY <1>5, <2>3, <4>1, <4>2 DEF Used
      <4>4. p \in 0 .. cap - 1 /\ p > last
        BY <1>1, <2>1, <4>1, <4>3
      <4>5. s(p) \in Used(cap, nodes) /\ dist(p) >= dist(d) - 1
        BY <1>15, <2>1, <2>3, <4>1, <4>2
      <4>6. s(p) \in Used(cap, new) /\ ndist(p) = dist(p)
        BY <1>17, <4>4, <4>5
      <4> QED BY <4>2, <4>5, <4>6
    <3> QED BY <3>1, <3>2
  <2> HIDE DEF p
  <2> QED BY <2>2, <2>3, <2>4 DEF Used
<1>20. s(last) \in Used(cap, nodes)
  BY <1>1, <1>3
<1> QED BY <1>8, <1>9, <1>13, <1>14, <1>19, <1>20

(* What an erase leaves of an element's table.                             *)
Erased(t, u, pos) ==
  Elems(u) = Elems(t) \ {t.nodes[pos]} /\ u.size = t.size - 1

(* Whatever clears one slot counts one element less.                       *)
LEMMA OneLessUsed ==
  ASSUME NEW cap \in Nat \ {0}, NEW nodes, NEW new, NEW i \in Used(cap, nodes),
         Used(cap, new) = Used(cap, nodes) \ {i}
  PROVE  /\ Cardinality(Used(cap, new)) = Cardinality(Used(cap, nodes)) - 1
         /\ Cardinality(Used(cap, new)) \in Nat
BY UsedCount, FS_RemoveElement

LEMMA HeapErases ==
  ASSUME NEW E, NEW hash, Hashed(E, hash), NEW t, WellFormed(t, E, hash), OnHeap(t),
         NEW pos \in Used(t.cap, t.nodes)
  PROVE  LET u == HeapErase(t, pos, hash)
         IN  WellFormed(u, E, hash) /\ Erased(t, u, pos)
<1> DEFINE cap == t.cap
           nodes == t.nodes
           freed == [t EXCEPT !.size = @ - 1, !.nodes[pos] = Sentinel]
<1>1. /\ cap \in Nat \ {0} /\ IsPowerOfTwo(cap) /\ t.size \in Nat /\ nodes \in NodesOf(cap, E)
      /\ t.size = Cardinality(Used(cap, nodes)) /\ Distinct(cap, nodes)
      /\ Ordered(cap, nodes, hash) /\ t.size < cap /\ cap >= MinHeapCapacity
      /\ pos \in 0 .. cap - 1 /\ nodes[pos] # Sentinel /\ Sentinel \notin E
  BY DEF WellFormed, Table, Used, Hashed
<1>2. freed = [cap |-> cap, size |-> t.size - 1, nodes |-> [nodes EXCEPT ![pos] = Sentinel]]
  <2>1. t \in [cap : Nat \ {0}, size : Nat, nodes : NodesOf(t.cap, E)]
    BY DEF WellFormed, Table
  <2>2. PICK c, n, nn : t = [cap |-> c, size |-> n, nodes |-> nn]
    BY <2>1
  <2>3. t.cap = c /\ t.size = n /\ t.nodes = nn
    BY <2>2
  <2>4. freed = [cap |-> c, size |-> n - 1, nodes |-> [nn EXCEPT ![pos] = Sentinel]]
    <3> DEFINE fewer == [t EXCEPT !.size = @ - 1]
    <3>1. fewer = [cap |-> c, size |-> n - 1, nodes |-> nn]
      BY <2>2
    <3>2. freed = [fewer EXCEPT !.nodes = [fewer.nodes EXCEPT ![pos] = Sentinel]]
      OBVIOUS
    <3> HIDE DEF fewer
    <3> QED BY <3>1, <3>2
  <2> QED BY <2>3, <2>4, Zenon
<1>3. \A i \in 0 .. cap - 1 : freed.nodes[i] = IF i = pos THEN Sentinel ELSE nodes[i]
  BY <1>1, <1>2 DEF NodesOf
<1>4. freed.cap = cap /\ freed.size = t.size - 1 /\ freed.nodes \in NodesOf(cap, E)
  BY <1>1, <1>2 DEF NodesOf
<1>5. Used(cap, freed.nodes) = Used(cap, nodes) \ {pos}
  BY <1>1, <1>3 DEF Used
<1>6. Table(freed, E)
  <2>1. /\ t.size - 1 = Cardinality(Used(cap, freed.nodes))
        /\ Cardinality(Used(cap, freed.nodes)) \in Nat
    BY <1>1, <1>5, OneLessUsed
  <2>2. Distinct(cap, freed.nodes)
    BY <1>1, <1>3, <1>5 DEF Distinct, Used
  <2>3. freed \in [cap : Nat \ {0}, size : Nat, nodes : NodesOf(cap, E)]
    BY <1>1, <1>2, <1>4, <2>1
  <2> HIDE DEF freed
  <2> QED BY <1>4, <2>1, <2>2, <2>3 DEF Table
<1>7. Members(cap, freed.nodes) = Members(cap, nodes) \ {nodes[pos]}
  BY <1>1, <1>3, <1>5 DEF Members, Distinct, Used
<1>8. Elems(freed) = Elems(t) \ {nodes[pos]}
  BY <1>4, <1>7, ElemsAreMembers
<1> HIDE DEF freed
<1>9. CASE cap > MinHeapCapacity /\ freed.size < cap \div 8
  <2>1. HeapErase(t, pos, hash) = Rehash(freed, cap \div 4, hash)
    BY <1>9 DEF HeapErase, freed
  <2>2. PICK q \in Nat \ {0} : cap = 4 * q /\ IsPowerOfTwo(q) /\ cap \div 4 = q
    BY <1>1, SmallCapacities, QuarterOfCapacity
  <2>3. cap \div 8 <= q
    BY <2>2
  <2>4. q <= Larger(q, MinHeapCapacity) /\ Larger(q, MinHeapCapacity) \in Nat
    BY LargerOf, SmallCapacities
  <2>5. freed.size < Larger(q, MinHeapCapacity)
    BY <1>1, <1>4, <1>9, <2>2, <2>3, <2>4
  <2>6. LET u == Rehash(freed, q, hash)
        IN  WellFormed(u, E, hash) /\ u.size = freed.size /\ Elems(u) = Elems(freed)
    BY <1>6, <2>2, <2>5, RehashKeeps
  <2> QED BY <1>4, <1>8, <2>1, <2>2, <2>6 DEF Erased
<1>10. CASE ~(cap > MinHeapCapacity /\ freed.size < cap \div 8)
  <2> DEFINE s(d) == Mod(cap, pos + d)
             back(i) == Mod(cap, i + cap - pos)
             stays(i) == freed.nodes[i] = Sentinel \/ ProbeDistance(cap, freed.nodes, i, hash) = 0
             stops == {d \in 1 .. cap : stays(s(d))}
             last == Least(stops) - 1
             new == ShiftedBack(cap, nodes, pos, last)
             shifted == [i \in Slots(t) |->
                           LET d == Mod(t.cap, i + t.cap - pos)
                           IN  CASE d < last -> freed.nodes[s(d + 1)]
                                 [] d = last -> Sentinel
                                 [] OTHER    -> freed.nodes[i]]
             u == [freed EXCEPT !.nodes = shifted]
  <2>1. HeapErase(t, pos, hash) = u
    BY <1>10 DEF HeapErase, freed
  <2>2. \A i \in 0 .. cap - 1 : back(i) \in 0 .. cap - 1
    BY <1>1, Ring
  <2>3. \A i \in 0 .. cap - 1 : s(back(i)) = i
    BY <1>1, Ring
  <2>4. \A d \in 0 .. cap - 1 : s(d) \in 0 .. cap - 1 /\ back(s(d)) = d
    <3> SUFFICES ASSUME NEW d \in 0 .. cap - 1
                 PROVE  s(d) \in 0 .. cap - 1 /\ back(s(d)) = d
      OBVIOUS
    <3>1. s(d) \in 0 .. cap - 1
      BY <1>1, Ring
    <3>2. back(s(d)) = d
      BY <1>1, Ring
    <3> QED BY <3>1, <3>2
  <2>5. s(0) = pos
    BY <1>1, Ring
  <2> HIDE DEF s, back
  <2>6. \A d \in 1 .. cap - 1 : s(d) \in 0 .. cap - 1 /\ s(d) # pos
    BY <1>1, <2>4, <2>5
  <2>7. \E d \in 1 .. cap - 1 : stays(s(d))
    <3>1. PICK i \in 0 .. cap - 1 : nodes[i] = Sentinel
      BY <1>1, UsedCount
    <3>2. freed.nodes[i] = Sentinel /\ i # pos
      BY <1>1, <1>3, <3>1
    <3>3. back(i) # 0
      BY <2>3, <2>5, <3>2
    <3>4. back(i) \in 1 .. cap - 1 /\ s(back(i)) = i
      BY <1>1, <2>2, <2>3, <3>3
    <3> QED BY <3>2, <3>4
  <2>8. /\ Least(stops) \in stops /\ \A d \in stops : Least(stops) <= d
        /\ Least(stops) \in 1 .. cap - 1
    <3>1. PICK d \in 1 .. cap - 1 : stays(s(d))
      BY <2>7
    <3>2. d \in stops /\ stops \in SUBSET Nat
      BY <1>1, <3>1
    <3>3. stops \subseteq 1 .. cap
      OBVIOUS
    <3> HIDE DEF stops
    <3>4. Least(stops) \in stops /\ \A c \in stops : Least(stops) <= c
      BY <3>2, LeastIsLeast
    <3>5. Least(stops) <= d /\ Least(stops) \in 1 .. cap
      BY <3>2, <3>3, <3>4
    <3> QED BY <1>1, <3>1, <3>4, <3>5
  <2>9. last \in 0 .. cap - 2 /\ last + 1 \in 1 .. cap - 1 /\ last + 1 = Least(stops)
    BY <1>1, <2>8
  <2>10. \A i \in 0 .. cap - 1 : i # pos =>
           freed.nodes[i] = nodes[i]
           /\ ProbeDistance(cap, freed.nodes, i, hash) = ProbeDistance(cap, nodes, i, hash)
    BY <1>3 DEF ProbeDistance
  <2>11. \A d \in 1 .. last : s(d) \in Used(cap, nodes) /\ ProbeDistance(cap, nodes, s(d), hash) > 0
    <3> SUFFICES ASSUME NEW d \in 1 .. last
                 PROVE  s(d) \in Used(cap, nodes) /\ ProbeDistance(cap, nodes, s(d), hash) > 0
      OBVIOUS
    <3>1. d \in 1 .. cap - 1 /\ d \in 1 .. cap /\ d < Least(stops)
      BY <1>1, <2>9
    <3>2. d \notin stops
      <4> HIDE DEF stops
      <4> QED BY <1>1, <2>8, <3>1
    <3>3. ~stays(s(d))
      BY <3>1, <3>2
    <3>4. s(d) \in 0 .. cap - 1 /\ s(d) # pos
      BY <2>6, <3>1
    <3>5. nodes[s(d)] # Sentinel /\ ProbeDistance(cap, nodes, s(d), hash) # 0
      BY <2>10, <3>3, <3>4
    <3>6. s(d) \in Used(cap, nodes)
      BY <3>4, <3>5 DEF Used
    <3>7. ProbeDistance(cap, nodes, s(d), hash) \in 0 .. cap - 1
      BY <1>1, <3>6, DistanceIsAway
    <3> QED BY <1>1, <3>5, <3>6, <3>7
  <2>12. nodes[s(last + 1)] = Sentinel \/ ProbeDistance(cap, nodes, s(last + 1), hash) = 0
    <3>1. stays(s(last + 1))
      BY <2>8, <2>9
    <3> QED BY <2>6, <2>9, <2>10, <3>1
  <2> HIDE DEF last, stops, stays
  <2>13. shifted = new
    <3> SUFFICES ASSUME NEW i \in 0 .. cap - 1 PROVE shifted[i] = new[i]
      BY DEF Slots, ShiftedBack
    <3>1. i \in Slots(t) /\ back(i) \in 0 .. cap - 1
      BY <2>2 DEF Slots
    <3>2. CASE back(i) < last
      <4>1. back(i) + 1 \in 1 .. cap - 1
        BY <1>1, <2>9, <3>1, <3>2
      <4>2. freed.nodes[s(back(i) + 1)] = nodes[s(back(i) + 1)]
        BY <2>6, <2>10, <4>1
      <4>3. shifted[i] = freed.nodes[s(back(i) + 1)]
        BY <2>9, <3>1, <3>2 DEF back
      <4>4. new[i] = nodes[s(back(i) + 1)]
        BY <2>9, <3>1, <3>2 DEF s, back, ShiftedBack
      <4> QED BY <4>2, <4>3, <4>4
    <3>3. CASE back(i) = last
      BY <2>9, <3>1, <3>3 DEF back, ShiftedBack
    <3>4. CASE ~(back(i) < last) /\ back(i) # last
      <4>1. i # pos
        <5>1. back(pos) = 0
          BY <1>1, <2>4, <2>5
        <5> QED BY <1>1, <2>9, <3>1, <3>4, <5>1
      <4>2. shifted[i] = freed.nodes[i] /\ new[i] = nodes[i]
        BY <3>1, <3>4 DEF back, ShiftedBack
      <4> QED BY <2>10, <4>1, <4>2
    <3> QED BY <3>2, <3>3, <3>4
  <2> HIDE DEF shifted
  <2>14. /\ new \in NodesOf(cap, E) /\ Distinct(cap, new) /\ Ordered(cap, new, hash)
         /\ \E i \in Used(cap, nodes) : Used(cap, new) = Used(cap, nodes) \ {i}
         /\ Members(cap, new) = Members(cap, nodes) \ {nodes[pos]}
    <3>1. \A d \in 1 .. last : /\ Mod(cap, pos + d) \in Used(cap, nodes)
                               /\ ProbeDistance(cap, nodes, Mod(cap, pos + d), hash) > 0
      BY <2>11 DEF s
    <3>2. \/ nodes[Mod(cap, pos + (last + 1))] = Sentinel
          \/ ProbeDistance(cap, nodes, Mod(cap, pos + (last + 1)), hash) = 0
      BY <2>12 DEF s
    <3>3. new = ShiftedBack(cap, nodes, pos, last)
      OBVIOUS
    <3> HIDE DEF new
    <3>4. last \in 0 .. cap - 2 /\ cap \in Nat \ {0} /\ nodes \in NodesOf(cap, E)
          /\ Distinct(cap, nodes) /\ Ordered(cap, nodes, hash) /\ pos \in Used(cap, nodes)
      BY <1>1, <2>9
    <3> HIDE DEF cap, nodes
    <3> QED BY <3>1, <3>2, <3>3, <3>4, ShiftErases
  <2> HIDE DEF new
  <2>15. u = [cap |-> cap, size |-> t.size - 1, nodes |-> new]
    <3>1. u = [cap |-> cap, size |-> t.size - 1, nodes |-> shifted]
      <4> HIDE DEF cap, nodes
      <4> QED BY <1>2
    <3> QED BY <2>13, <3>1
  <2> HIDE DEF u
  <2>16. u.size = Cardinality(Used(cap, new)) /\ u.size \in Nat
    <3>1. u.size = t.size - 1
      BY <2>15
    <3>2. PICK i \in Used(cap, nodes) : Used(cap, new) = Used(cap, nodes) \ {i}
      BY <2>14
    <3>3. /\ Cardinality(Used(cap, new)) = Cardinality(Used(cap, nodes)) - 1
          /\ Cardinality(Used(cap, new)) \in Nat
      BY <1>1, <3>2, OneLessUsed
    <3> QED BY <1>1, <3>1, <3>3
  <2>17. Table(u, E)
    BY <1>1, <2>14, <2>15, <2>16 DEF Table
  <2>18. WellFormed(u, E, hash)
    BY <1>1, <2>14, <2>15, <2>17 DEF WellFormed, OnHeap
  <2>19. Elems(u) = Elems(t) \ {nodes[pos]}
    BY <2>14, <2>15, ElemsAreMembers
  <2> QED BY <2>1, <2>15, <2>18, <2>19 DEF Erased
<1> QED BY <1>9, <1>10

(* The shift of array_erase: the elements behind pos move up.              *)
MovedUp(cap, nodes, size, pos) ==
  [i \in 0 .. cap - 1 |-> IF i >= size - 1 THEN Sentinel
                          ELSE IF i >= pos THEN nodes[i + 1] ELSE nodes[i]]

LEMMA PackedShift ==
  ASSUME NEW cap \in Nat \ {0}, NEW E, NEW nodes \in NodesOf(cap, E), Sentinel \notin E,
         NEW size \in Nat, Distinct(cap, nodes), size <= cap,
         \A i \in 0 .. cap - 1 : nodes[i] # Sentinel <=> i < size,
         NEW pos \in Used(cap, nodes),
         NEW new, new = MovedUp(cap, nodes, size, pos)
  PROVE  /\ new \in NodesOf(cap, E) /\ Distinct(cap, new)
         /\ \A i \in 0 .. cap - 1 : new[i] # Sentinel <=> i < size - 1
         /\ \E i \in Used(cap, nodes) : Used(cap, new) = Used(cap, nodes) \ {i}
         /\ Members(cap, new) = Members(cap, nodes) \ {nodes[pos]}
<1> DEFINE from(i) == IF i >= pos THEN i + 1 ELSE i
<1>1. pos \in 0 .. size - 1 /\ pos \in 0 .. cap - 1 /\ size > 0
  BY DEF Used
<1>2. Used(cap, nodes) = 0 .. size - 1
  BY DEF Used
<1>3. \A i \in 0 .. cap - 1 : new[i] = IF i >= size - 1 THEN Sentinel ELSE nodes[from(i)]
  BY DEF MovedUp
<1>4. \A i \in 0 .. size - 2 : from(i) \in 0 .. size - 1 /\ from(i) # pos
  BY <1>1
<1>5. \A i, j \in 0 .. size - 2 : from(i) = from(j) => i = j
  BY <1>1
<1>6. \A j \in 0 .. size - 1 : j # pos => \E i \in 0 .. size - 2 : from(i) = j
  <2> SUFFICES ASSUME NEW j \in 0 .. size - 1, j # pos
               PROVE  \E i \in 0 .. size - 2 : from(i) = j
    OBVIOUS
  <2>1. CASE j > pos
    <3>1. j - 1 \in 0 .. size - 2 /\ from(j - 1) = j
      BY <1>1, <2>1
    <3> QED BY <3>1
  <2>2. CASE j < pos
    <3>1. j \in 0 .. size - 2 /\ from(j) = j
      BY <1>1, <2>2
    <3> QED BY <3>1
  <2> QED BY <1>1, <2>1, <2>2
<1> HIDE DEF from
<1>7. \A i \in 0 .. size - 1 : nodes[i] \in E /\ nodes[i] # Sentinel
  BY <1>1 DEF NodesOf
<1>8. \A i \in 0 .. size - 2 : i \in 0 .. cap - 1 /\ new[i] = nodes[from(i)]
  BY <1>1, <1>3
<1>9. \A i \in 0 .. cap - 1 : i >= size - 1 => new[i] = Sentinel
  BY <1>3
<1>10. \A i \in 0 .. cap - 1 : new[i] # Sentinel <=> i < size - 1
  <2> SUFFICES ASSUME NEW i \in 0 .. cap - 1, i < size - 1 PROVE new[i] # Sentinel
    BY <1>9
  <2>1. i \in 0 .. size - 2
    OBVIOUS
  <2> QED BY <1>4, <1>7, <1>8, <2>1
<1>11. Used(cap, new) = 0 .. size - 2
  BY <1>1, <1>10 DEF Used
<1>12. Used(cap, new) = Used(cap, nodes) \ {size - 1} /\ size - 1 \in Used(cap, nodes)
  <2>1. 0 .. size - 2 = (0 .. size - 1) \ {size - 1} /\ size - 1 \in 0 .. size - 1
    BY <1>1
  <2> QED BY <1>2, <1>11, <2>1
<1>13. new \in NodesOf(cap, E)
  <2>1. \A i \in 0 .. cap - 1 : new[i] \in E \cup {Sentinel}
    <3> SUFFICES ASSUME NEW i \in 0 .. cap - 1, i < size - 1 PROVE new[i] \in E
      BY <1>9
    <3>1. i \in 0 .. size - 2
      OBVIOUS
    <3> QED BY <1>4, <1>7, <1>8, <3>1
  <2>2. new = [i \in 0 .. cap - 1 |-> new[i]]
    BY DEF MovedUp
  <2> QED BY <2>1, <2>2 DEF NodesOf
<1>14. Distinct(cap, new)
  <2> SUFFICES ASSUME NEW i \in 0 .. size - 2, NEW j \in 0 .. size - 2, new[i] = new[j]
               PROVE  i = j
    BY <1>11 DEF Distinct
  <2>1. nodes[from(i)] = nodes[from(j)]
    BY <1>8
  <2>2. from(i) \in Used(cap, nodes) /\ from(j) \in Used(cap, nodes)
    BY <1>2, <1>4
  <2>3. from(i) = from(j)
    BY <2>1, <2>2 DEF Distinct
  <2> QED BY <1>5, <2>3
<1>15. Members(cap, new) = Members(cap, nodes) \ {nodes[pos]}
  <2>1. \A j \in 0 .. size - 1 : j # pos => nodes[j] # nodes[pos]
    BY <1>1, <1>2 DEF Distinct
  <2>2. \A i \in 0 .. size - 2 : new[i] \in Members(cap, nodes) \ {nodes[pos]}
    BY <1>2, <1>4, <1>8, <2>1 DEF Members
  <2>3. \A j \in 0 .. size - 1 : j # pos => nodes[j] \in Members(cap, new)
    <3> SUFFICES ASSUME NEW j \in 0 .. size - 1, j # pos PROVE nodes[j] \in Members(cap, new)
      OBVIOUS
    <3>1. PICK i \in 0 .. size - 2 : from(i) = j
      BY <1>6
    <3> QED BY <1>8, <1>11, <3>1 DEF Members
  <2>4. Members(cap, new) \subseteq Members(cap, nodes) \ {nodes[pos]}
    BY <1>11, <2>2 DEF Members
  <2>5. Members(cap, nodes) \ {nodes[pos]} \subseteq Members(cap, new)
    BY <1>2, <2>3 DEF Members
  <2> QED BY <2>4, <2>5
<1> QED BY <1>10, <1>12, <1>13, <1>14, <1>15

LEMMA ArrayErases ==
  ASSUME NEW E, NEW hash, Hashed(E, hash), NEW t, WellFormed(t, E, hash), ~OnHeap(t),
         NEW pos \in Used(t.cap, t.nodes)
  PROVE  LET u == ArrayErase(t, pos)
         IN  WellFormed(u, E, hash) /\ Erased(t, u, pos)
<1> DEFINE u   == ArrayErase(t, pos)
           new == MovedUp(t.cap, t.nodes, t.size, pos)
<1>1. /\ t.cap \in Nat \ {0} /\ IsPowerOfTwo(t.cap) /\ t.size \in Nat
      /\ t.nodes \in NodesOf(t.cap, E)
      /\ t.size = Cardinality(Used(t.cap, t.nodes)) /\ Distinct(t.cap, t.nodes)
      /\ \A i \in 0 .. t.cap - 1 : t.nodes[i] # Sentinel <=> i < t.size
      /\ Sentinel \notin E /\ t.cap = StackCapacity
      /\ t = [cap |-> t.cap, size |-> t.size, nodes |-> t.nodes]
  BY DEF WellFormed, Table, Hashed, Slots, OnHeap
<1>2. t.size <= t.cap
  BY <1>1, UsedCount
<1>3. u = [cap |-> t.cap, size |-> t.size - 1, nodes |-> new]
  <2>1. u = [t EXCEPT !.size = @ - 1, !.nodes = new]
    BY DEF ArrayErase, Slots, MovedUp
  <2> HIDE DEF new, u
  <2> QED BY <1>1, <2>1
<1>4. /\ new \in NodesOf(t.cap, E) /\ Distinct(t.cap, new)
      /\ \A i \in 0 .. t.cap - 1 : new[i] # Sentinel <=> i < t.size - 1
      /\ \E i \in Used(t.cap, t.nodes) : Used(t.cap, new) = Used(t.cap, t.nodes) \ {i}
      /\ Members(t.cap, new) = Members(t.cap, t.nodes) \ {t.nodes[pos]}
  <2>1. new = MovedUp(t.cap, t.nodes, t.size, pos)
    OBVIOUS
  <2> HIDE DEF new
  <2> QED BY <1>1, <1>2, <2>1, PackedShift
<1> HIDE DEF new, u
<1>5. t.size - 1 = Cardinality(Used(t.cap, new)) /\ t.size - 1 \in Nat
  <2>1. PICK i \in Used(t.cap, t.nodes) : Used(t.cap, new) = Used(t.cap, t.nodes) \ {i}
    BY <1>4
  <2>2. /\ Cardinality(Used(t.cap, new)) = Cardinality(Used(t.cap, t.nodes)) - 1
        /\ Cardinality(Used(t.cap, new)) \in Nat
    BY <1>1, <2>1, OneLessUsed
  <2> QED BY <1>1, <2>2
<1>6. Table(u, E)
  BY <1>1, <1>3, <1>4, <1>5 DEF Table
<1>7. WellFormed(u, E, hash)
  BY <1>1, <1>3, <1>4, <1>6 DEF WellFormed, OnHeap, Slots
<1>8. Elems(u) = Elems(t) \ {t.nodes[pos]}
  BY <1>3, <1>4, ElemsAreMembers
<1> QED BY <1>3, <1>7, <1>8 DEF u, Erased

(* erase takes out an equal element, or leaves the table alone when it     *)
(* holds none with the same hash.                                          *)
Removed(t, u, e, hash, key) ==
  \/ u = t /\ \A m \in Elems(t) : ~(key[m] = key[e] /\ hash[m] = hash[e])
  \/ \E m \in Elems(t) : /\ key[m] = key[e] /\ Elems(u) = Elems(t) \ {m}
                         /\ u.size = t.size - 1

LEMMA ErasePuts ==
  ASSUME NEW E, NEW hash, NEW key, NEW t, NEW e \in E, Hashed(E, hash), WellFormed(t, E, hash)
  PROVE  LET u == Erase(t, e, hash, key)
         IN  WellFormed(u, E, hash) /\ Removed(t, u, e, hash, key)
<1> DEFINE pos == FindSlot(t, e, hash, key)
           u   == Erase(t, e, hash, key)
<1>1. CASE pos = -1
  <2>1. u = t
    BY <1>1 DEF Erase
  <2>2. \A m \in Elems(t) : ~(key[m] = key[e] /\ hash[m] = hash[e])
    BY <1>1, FindIsComplete
  <2> QED BY <2>1, <2>2 DEF Removed
<1>2. CASE pos # -1
  <2>1. pos \in Used(t.cap, t.nodes) /\ key[t.nodes[pos]] = key[e]
    BY <1>2, FindIsSound
  <2>2. u = IF OnHeap(t) THEN HeapErase(t, pos, hash) ELSE ArrayErase(t, pos)
    BY <1>2 DEF Erase
  <2> HIDE DEF pos, u
  <2>3. WellFormed(u, E, hash) /\ Erased(t, u, pos)
    <3>1. CASE OnHeap(t)
      BY <2>1, <2>2, <3>1, HeapErases
    <3>2. CASE ~OnHeap(t)
      BY <2>1, <2>2, <3>2, ArrayErases
    <3> QED BY <3>1, <3>2
  <2>4. t.nodes[pos] \in Elems(t)
    BY <2>1, ElemsAreMembers DEF Members
  <2> QED BY <2>1, <2>3, <2>4 DEF Erased, Removed, u
<1> QED BY <1>1, <1>2

(* A well-formed table remains so when elements are added to those it may  *)
(* hold, as long as those it may hold keep their hashes.                   *)
LEMMA WellFormedGrows ==
  ASSUME NEW E, NEW F, E \subseteq F, Sentinel \notin E, NEW hash, NEW wider,
         \A e \in E : wider[e] = hash[e], NEW t, WellFormed(t, E, hash)
  PROVE  WellFormed(t, F, wider)
<1>1. /\ t \in [cap : Nat \ {0}, size : Nat, nodes : NodesOf(t.cap, E)]
      /\ t.nodes \in NodesOf(t.cap, E) /\ t.cap \in Nat \ {0}
  BY DEF WellFormed, Table
<1>2. NodesOf(t.cap, E) \subseteq NodesOf(t.cap, F)
  BY DEF NodesOf
<1>3. Table(t, F)
  BY <1>1, <1>2 DEF WellFormed, Table
<1>4. \A i \in Used(t.cap, t.nodes) :
        ProbeDistance(t.cap, t.nodes, i, wider) = ProbeDistance(t.cap, t.nodes, i, hash)
  <2> SUFFICES ASSUME NEW i \in Used(t.cap, t.nodes)
               PROVE  wider[t.nodes[i]] = hash[t.nodes[i]]
    BY DEF ProbeDistance, DesiredPos
  <2>1. t.nodes[i] \in E
    BY <1>1 DEF Used, NodesOf
  <2> QED BY <2>1
<1>5. ASSUME Ordered(t.cap, t.nodes, hash) PROVE Ordered(t.cap, t.nodes, wider)
  <2> SUFFICES ASSUME NEW i \in Used(t.cap, t.nodes), ProbeDistance(t.cap, t.nodes, i, wider) > 0
               PROVE  LET prev == Mod(t.cap, i + t.cap - 1)
                      IN  /\ t.nodes[prev] # Sentinel
                          /\ ProbeDistance(t.cap, t.nodes, prev, wider)
                               >= ProbeDistance(t.cap, t.nodes, i, wider) - 1
    BY DEF Ordered
  <2> DEFINE prev == Mod(t.cap, i + t.cap - 1)
  <2>1. /\ t.nodes[prev] # Sentinel
        /\ ProbeDistance(t.cap, t.nodes, prev, hash) >= ProbeDistance(t.cap, t.nodes, i, hash) - 1
    BY <1>4, <1>5 DEF Ordered
  <2>2. prev \in 0 .. t.cap - 1
    <3>1. i + t.cap - 1 \in Nat
      BY <1>1 DEF Used
    <3> QED BY <1>1, <3>1, ModIsWrap
  <2>3. prev \in Used(t.cap, t.nodes)
    BY <2>1, <2>2 DEF Used
  <2> HIDE DEF prev
  <2>4. /\ ProbeDistance(t.cap, t.nodes, prev, wider) = ProbeDistance(t.cap, t.nodes, prev, hash)
        /\ ProbeDistance(t.cap, t.nodes, i, wider) = ProbeDistance(t.cap, t.nodes, i, hash)
    BY <1>4, <2>3
  <2> QED BY <2>1, <2>4 DEF prev
<1> QED BY <1>3, <1>5 DEF WellFormed

=============================================================================
