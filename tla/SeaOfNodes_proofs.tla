------------------------- MODULE SeaOfNodes_proofs -------------------------
(***************************************************************************)
(* Proofs about SeaOfNodes for every bound on gids, operands and params.   *)
(***************************************************************************)
EXTENDS SeaOfNodes, FiniteSetTheorems, TLAPS

OpsType  == [Gids -> Seq(Gids)]
UsesType == [Gids -> SUBSET (Nat \X Gids)]

(* The parts of the inductive invariant, as predicates of the parts of the *)
(* world they speak of, so that an action made of several primitive steps  *)
(* (cse, then unset_op and set_op) is proved one primitive step at a time. *)
LiveIn(tg) == {g \in Gids : tg[g] # "None"}

(* Gids are handed out in order, and a definition refers only to such.     *)
Frontier(gc, tg, o, se) ==
  /\ gc \in 8 .. MaxGid + 1
  /\ LiveIn(tg) = 1 .. gc - 1
  /\ se \subseteq LiveIn(tg)
  /\ \A u \in Gids : \A i \in DOMAIN o[u] : o[u][i] \in LiveIn(tg)
  /\ \A g \in Gids \ LiveIn(tg) : o[g] = << >>

(* The two nodes every continuation starts from stay what they are.        *)
Shape(tg, o) ==
  /\ tg[Bottom] = "Bottom" /\ tg[EmptyFilter] = "Filter"
  /\ \A c \in Gids : tg[c] = "Continuation" => DOMAIN o[c] = {1, 2}

PointBack(tg, o, us) ==
  \A d \in Gids, i \in Nat, u \in Gids :
    <<i, u>> \in us[d] => tg[u] # "None" /\ i \in DOMAIN o[u] /\ o[u][i] = d

Registered(tg, o, us) ==
  \A u \in Gids : tg[u] \notin {"None", "Param"} =>
    \A i \in DOMAIN o[u] : <<i, u>> \in us[o[u][i]]

DepCovers(tg, o, dp, mu) ==
  \A u \in Gids : tg[u] \notin Nominal \cup {"None"} =>
    \A i \in DOMAIN o[u] : dp[o[u][i]] \subseteq dp[u] \/ o[u][i] \in mu

(* A cached hash is out of date only for a node replace_uses rewrote.      *)
HashCurrent(tg, o, hs, se, mu) ==
  \A n \in se : hs[n] = Key(tg[n], o[n], n) \/ n \in mu

NoTwins(tg, o, se, mu) ==
  \A m, n \in se \ mu : Key(tg[m], o[m], m) = Key(tg[n], o[n], n) => m = n

World(gc, tg, o, us, dp, hs, se, mu) ==
  /\ o \in OpsType /\ us \in UsesType
  /\ Frontier(gc, tg, o, se)
  /\ Shape(tg, o)
  /\ PointBack(tg, o, us)
  /\ Registered(tg, o, us)
  /\ DepCovers(tg, o, dp, mu)
  /\ HashCurrent(tg, o, hs, se, mu)
  /\ NoTwins(tg, o, se, mu)

IInv ==
  /\ TypeOK
  /\ World(gidCounter, tag, ops, uses, dep, hash, sea, mutated)

-----------------------------------------------------------------------------
(* Registering a definition's operands adds exactly its uses.              *)
LEMMA RegisterUses ==
  ASSUME NEW us \in UsesType, NEW u \in Gids, NEW os \in Seq(Gids)
  PROVE  /\ Register(us, u, os) \in UsesType
         /\ \A d \in Gids, i \in Nat, v \in Gids :
              <<i, v>> \in Register(us, u, os)[d]
                <=> <<i, v>> \in us[d] \/ (v = u /\ i \in DOMAIN os /\ os[i] = d)
<1>1. \A d \in Gids : \A use \in UsesIn(d, u, os) : use \in Nat \X Gids
  BY DEF UsesIn
<1>2. \A d \in Gids : Register(us, u, os)[d] = us[d] \cup UsesIn(d, u, os)
  BY DEF Register
<1>3. \A d \in Gids, i \in Nat, v \in Gids :
        <<i, v>> \in UsesIn(d, u, os) <=> v = u /\ i \in DOMAIN os /\ os[i] = d
  BY DEF UsesIn
<1>4. Register(us, u, os) \in UsesType
  BY <1>1 DEF Register, UsesType
<1>5. QED BY <1>2, <1>3, <1>4

LEMMA UnregisterUses ==
  ASSUME NEW us \in UsesType, NEW u \in Gids, NEW os \in Seq(Gids)
  PROVE  /\ Unregister(us, u, os) \in UsesType
         /\ \A d \in Gids, i \in Nat, v \in Gids :
              <<i, v>> \in Unregister(us, u, os)[d]
                <=> <<i, v>> \in us[d] /\ ~(v = u /\ i \in DOMAIN os /\ os[i] = d)
<1>2. \A d \in Gids : Unregister(us, u, os)[d] = us[d] \ UsesIn(d, u, os)
  BY DEF Unregister
<1>3. \A d \in Gids, i \in Nat, v \in Gids :
        <<i, v>> \in UsesIn(d, u, os) <=> v = u /\ i \in DOMAIN os /\ os[i] = d
  BY DEF UsesIn
<1>4. Unregister(us, u, os) \in UsesType
  BY DEF Unregister, UsesType
<1>5. QED BY <1>2, <1>3, <1>4

(* unset_op and set_op move one use from the old operand to the new one.   *)
LEMMA ResetUses ==
  ASSUME NEW us \in UsesType, NEW c \in Gids, NEW i \in Nat,
         NEW old \in Gids, NEW new \in Gids
  PROVE  /\ Reset(us, c, i, old, new) \in UsesType
         /\ \A d \in Gids, j \in Nat, v \in Gids :
              <<j, v>> \in Reset(us, c, i, old, new)[d]
                <=> IF j = i /\ v = c
                    THEN d = new \/ (d # old /\ <<j, v>> \in us[d])
                    ELSE <<j, v>> \in us[d]
<1> DEFINE unset == [us EXCEPT ![old] = @ \ {<<i, c>>}]
<1>1. unset \in UsesType
  BY DEF UsesType
<1>2. Reset(us, c, i, old, new) = [unset EXCEPT ![new] = @ \cup {<<i, c>>}]
  BY DEF Reset
<1>3. \A d \in Gids : unset[d] = IF d = old THEN us[d] \ {<<i, c>>} ELSE us[d]
  BY DEF UsesType
<1> HIDE DEF unset
<1>4. \A d \in Gids : Reset(us, c, i, old, new)[d] = IF d = new THEN unset[d] \cup {<<i, c>>} ELSE unset[d]
  BY <1>1, <1>2 DEF UsesType
<1>5. Reset(us, c, i, old, new) \in UsesType
  BY <1>1, <1>2 DEF UsesType
<1>6. ASSUME NEW d \in Gids, NEW j \in Nat, NEW v \in Gids
      PROVE  <<j, v>> \in Reset(us, c, i, old, new)[d]
               <=> IF j = i /\ v = c
                   THEN d = new \/ (d # old /\ <<j, v>> \in us[d])
                   ELSE <<j, v>> \in us[d]
  <2>1. <<j, v>> = <<i, c>> <=> j = i /\ v = c
    OBVIOUS
  <2>2. <<j, v>> \in unset[d] <=> <<j, v>> \in us[d] /\ ~(d = old /\ j = i /\ v = c)
    BY <1>3, <2>1
  <2>3. <<j, v>> \in Reset(us, c, i, old, new)[d] <=> <<j, v>> \in unset[d] \/ (d = new /\ j = i /\ v = c)
    BY <1>4, <2>1
  <2>4. QED BY <2>2, <2>3
<1>7. QED BY <1>5, <1>6

-----------------------------------------------------------------------------
(* cse returns a definition with the tag and operands it was asked for.    *)
LEMMA CseReturns ==
  ASSUME IInv, NEW t \in Structural, NEW os \in Seq(Gids),
         NEW b \in CseResults(t, os)
  PROVE  \/ b = gidCounter /\ SureHits(t, os) = {}
         \/ b \in sea /\ b # gidCounter /\ tag[b] = t /\ ops[b] = os
<1>1. SUFFICES ASSUME b \in Equal(t, os)
               PROVE  b \in sea /\ b # gidCounter /\ tag[b] = t /\ ops[b] = os
  BY DEF CseResults
<1>2. b \in sea /\ tag[b] # "None" /\ b \in Gids /\ Content(b) = Key(t, os, gidCounter)
  BY <1>1 DEF Equal, IInv, World, Frontier, LiveIn
<1>3. b # gidCounter
  BY <1>2 DEF IInv, World, Frontier, LiveIn
<1>4. t \notin Nominal \cup {"gid"} /\ tag[b] # "gid"
  BY <1>2 DEF Structural, Nominal, ById, Tags, IInv, World, TypeOK
<1>5. /\ Content(b)[1] = IF tag[b] \in Nominal \cup ById THEN "gid" ELSE tag[b]
      /\ Content(b)[2] = IF tag[b] \in Nominal \cup ById THEN <<b>> ELSE ops[b]
      /\ Key(t, os, gidCounter)[1] = IF t \in ById THEN "gid" ELSE t
      /\ Key(t, os, gidCounter)[2] = IF t \in ById THEN <<gidCounter>> ELSE os
  BY <1>4 DEF Content, Key
<1>6. t \notin ById
  <2>1. SUFFICES ASSUME t \in ById PROVE FALSE
    OBVIOUS
  <2>2. tag[b] \in Nominal \cup ById
    BY <1>2, <1>4, <1>5, <2>1
  <2>3. <<b>> = <<gidCounter>>
    BY <1>2, <1>5, <2>1, <2>2
  <2>4. QED BY <1>3, <2>3
<1>7. tag[b] \notin Nominal \cup ById
  BY <1>2, <1>4, <1>5, <1>6
<1>8. QED BY <1>2, <1>3, <1>5, <1>6, <1>7

(* The use lists after cse are the old ones, and for a new node its own    *)
(* uses with them: what was registered for a discarded node is gone.       *)
LEMMA CseUsesExact ==
  ASSUME IInv, NEW t \in Structural, NEW os \in Seq(Gids),
         NEW b \in CseResults(t, os) \cap Gids
  PROVE  /\ CseUses(b, os) \in UsesType
         /\ b # gidCounter => CseUses(b, os) = uses
<1>1. uses \in UsesType
  BY DEF IInv, World, TypeOK, UsesType
<1>2. CASE b = gidCounter
  BY <1>1, <1>2, RegisterUses DEF CseUses
<1>3. CASE b # gidCounter
  <2>1. \A d \in Gids, i \in Nat : <<i, gidCounter>> \notin uses[d]
    <3>1. SUFFICES ASSUME NEW d \in Gids, NEW i \in Nat, <<i, gidCounter>> \in uses[d]
                   PROVE  FALSE
      OBVIOUS
    <3>2. gidCounter \in Gids
      BY <1>1, <3>1 DEF UsesType
    <3>3. tag[gidCounter] = "None"
      BY <3>2 DEF IInv, World, Frontier, LiveIn, TypeOK
    <3>4. QED BY <3>1, <3>2, <3>3 DEF IInv, World, PointBack
  <2>2. \A d \in Gids : uses[d] \cap UsesIn(d, gidCounter, os) = {}
    <3>1. DOMAIN os \subseteq Nat
      OBVIOUS
    <3>2. QED BY <2>1, <3>1 DEF UsesIn
  <2>3. CseUses(b, os) = [d \in Gids |-> (uses[d] \cup UsesIn(d, gidCounter, os)) \ UsesIn(d, gidCounter, os)]
    BY <1>3 DEF CseUses, Register, Unregister
  <2>4. \A d \in Gids : (uses[d] \cup UsesIn(d, gidCounter, os)) \ UsesIn(d, gidCounter, os) = uses[d]
    BY <2>2
  <2>5. CseUses(b, os) = uses
    BY <2>3, <2>4, <1>1 DEF UsesType
  <2>6. QED BY <2>5, <1>1, <1>3
<1>4. QED BY <1>2, <1>3

-----------------------------------------------------------------------------
(* One primitive step: unset_op(i), set_op(i, new) on a continuation c.    *)
LEMMA ResetPreserves ==
  ASSUME NEW gc, NEW tg, NEW o, NEW us, NEW dp, NEW hs, NEW se, NEW mu,
         World(gc, tg, o, us, dp, hs, se, mu),
         NEW c \in Gids, NEW i \in {1, 2}, NEW new \in LiveIn(tg), tg[c] = "Continuation"
  PROVE  World(gc, tg, [o EXCEPT ![c][i] = new], Reset(us, c, i, o[c][i], new), dp, hs, se, mu)
<1> SUFFICES ASSUME NEW o2, o2 = [o EXCEPT ![c][i] = new],
                    NEW us2, us2 = Reset(us, c, i, o[c][i], new)
             PROVE  World(gc, tg, o2, us2, dp, hs, se, mu)
  OBVIOUS
<1> USE DEF World
<1>1. new \in Gids /\ DOMAIN o[c] = {1, 2} /\ o[c] \in Seq(Gids) /\ o[c][i] \in Gids
  BY DEF LiveIn, Shape, OpsType
<1>2. /\ \A u \in Gids : DOMAIN o2[u] = DOMAIN o[u]
      /\ \A u \in Gids : \A j \in DOMAIN o[u] : o2[u][j] = IF u = c /\ j = i THEN new ELSE o[u][j]
      /\ \A u \in Gids \ {c} : o2[u] = o[u]
  BY <1>1 DEF OpsType
<1>3. o2 \in OpsType
  <2>1. [o[c] EXCEPT ![i] = new] \in Seq(Gids)
    BY <1>1
  <2>2. o2 = [o EXCEPT ![c] = [o[c] EXCEPT ![i] = new]]
    OBVIOUS
  <2>3. QED BY <2>1, <2>2 DEF OpsType
<1>4. /\ us2 \in UsesType
      /\ \A d \in Gids, j \in Nat, v \in Gids :
           <<j, v>> \in us2[d] <=> IF j = i /\ v = c
                                   THEN d = new \/ (d # o[c][i] /\ <<j, v>> \in us[d])
                                   ELSE <<j, v>> \in us[d]
  <2> DEFINE old == o[c][i]
  <2>1. i \in Nat /\ old \in Gids /\ new \in Gids /\ us2 = Reset(us, c, i, old, new)
    BY <1>1
  <2> HIDE DEF old
  <2>2. \A d \in Gids, j \in Nat, v \in Gids :
          <<j, v>> \in us2[d] <=> IF j = i /\ v = c
                                  THEN d = new \/ (d # old /\ <<j, v>> \in us[d])
                                  ELSE <<j, v>> \in us[d]
    <3>1. \A d \in Gids, j \in Nat, v \in Gids :
            <<j, v>> \in Reset(us, c, i, old, new)[d]
               <=> IF j = i /\ v = c
                   THEN d = new \/ (d # old /\ <<j, v>> \in us[d])
                   ELSE <<j, v>> \in us[d]
      BY <2>1, ResetUses, Zenon
    <3>2. QED BY <2>1, <3>1
  <2>3. us2 \in UsesType
    BY <2>1, ResetUses
  <2>4. QED BY <2>2, <2>3 DEF old
<1>5. Frontier(gc, tg, o2, se)
  <2>1. \A u \in Gids : \A j \in DOMAIN o2[u] : o2[u][j] \in LiveIn(tg)
    BY <1>2 DEF Frontier
  <2>2. \A g \in Gids \ LiveIn(tg) : o2[g] = << >>
    BY <1>2 DEF Frontier, LiveIn
  <2>3. QED BY <2>1, <2>2 DEF Frontier
<1>6. Shape(tg, o2)
  BY <1>2 DEF Shape
<1>7. PointBack(tg, o2, us2)
  BY <1>1, <1>2, <1>4 DEF PointBack
<1>8. Registered(tg, o2, us2)
  <2> SUFFICES ASSUME NEW u \in Gids, tg[u] \notin {"None", "Param"}, NEW j \in DOMAIN o2[u]
               PROVE  <<j, u>> \in us2[o2[u][j]]
    BY DEF Registered
  <2>1. j \in DOMAIN o[u] /\ j \in Nat /\ o[u][j] \in Gids /\ o2[u][j] \in Gids
    BY <1>2, <1>3 DEF OpsType
  <2>2. <<j, u>> \in us[o[u][j]]
    BY <2>1 DEF Registered
  <2>3. QED BY <1>1, <1>2, <1>4, <2>1, <2>2
<1>9. DepCovers(tg, o2, dp, mu)
  BY <1>2 DEF DepCovers, Nominal
<1>10. \A n \in se : n \in Gids /\ Key(tg[n], o2[n], n) = Key(tg[n], o[n], n)
  BY <1>2 DEF Frontier, LiveIn, Key, Nominal
<1>11. HashCurrent(tg, o2, hs, se, mu) /\ NoTwins(tg, o2, se, mu)
  BY <1>10 DEF HashCurrent, NoTwins
<1>12. QED BY <1>3, <1>4, <1>5, <1>6, <1>7, <1>8, <1>9, <1>11

-----------------------------------------------------------------------------
(* One primitive step: cse(new T(os)) returning b.                         *)
LEMMA CsePreserves ==
  ASSUME IInv, NEW t \in Structural, NEW os \in Seq(Gids),
         \A i \in DOMAIN os : os[i] \in LiveIn(tag),
         NEW b \in CseResults(t, os) \cap Gids, Insert(b, t, os)
  PROVE  /\ World(gidCounter', tag', [ops EXCEPT ![b] = os], CseUses(b, os), dep', hash', sea', mutated)
         /\ b \in LiveIn(tag') /\ tag'[b] = t
         /\ \A g \in LiveIn(tag) : tag'[g] = tag[g]
<1> SUFFICES ASSUME NEW o2, o2 = [ops EXCEPT ![b] = os],
                    NEW us2, us2 = CseUses(b, os)
             PROVE  /\ World(gidCounter', tag', o2, us2, dep', hash', sea', mutated)
                    /\ b \in LiveIn(tag') /\ tag'[b] = t
                    /\ \A g \in LiveIn(tag) : tag'[g] = tag[g]
  OBVIOUS
<1>1. ops \in OpsType /\ uses \in UsesType
  BY DEF IInv, World, TypeOK, OpsType, UsesType
<1>2. o2 \in OpsType
  BY <1>1 DEF OpsType
<1>3. us2 \in UsesType
  BY CseUsesExact
<1>4. CASE b # gidCounter
  <2>1. b \in sea /\ tag[b] = t /\ ops[b] = os
    BY <1>4, CseReturns
  <2>2. o2 = ops /\ us2 = uses
    BY <1>1, <1>4, <2>1, CseUsesExact DEF OpsType
  <2>3. gidCounter' = gidCounter /\ tag' = tag /\ dep' = dep /\ hash' = hash /\ sea' = sea
    BY <1>4, <2>1 DEF Insert, IInv, World, TypeOK
  <2>4. t # "None" /\ b \in LiveIn(tag)
    BY <2>1 DEF Structural, ById, LiveIn
  <2>5. QED BY <1>2, <1>3, <2>1, <2>2, <2>3, <2>4 DEF IInv, World
<1>5. CASE b = gidCounter
  <2>1. b \notin LiveIn(tag) /\ tag[b] = "None" /\ gidCounter' = b + 1 /\ b \in 8 .. MaxGid
    BY <1>5 DEF IInv, World, Frontier, LiveIn, Insert, Gids
  <2>2. /\ tag' = [tag EXCEPT ![b] = t] /\ dep' = [dep EXCEPT ![b] = DepOf(t, os)]
        /\ hash' = [hash EXCEPT ![b] = Key(t, os, b)] /\ sea' = sea \cup {b}
    BY <1>5 DEF Insert
  <2>3. t \notin Nominal \cup {"None", "gid"}
    BY DEF Structural, ById, Nominal
  <2>4. tag'[b] = t /\ \A g \in Gids \ {b} : tag'[g] = tag[g]
    BY <2>2 DEF IInv, World, TypeOK
  <2>5. LiveIn(tag') = LiveIn(tag) \cup {b}
    BY <2>3, <2>4, <2>1 DEF LiveIn
  <2>6. o2[b] = os /\ \A g \in Gids \ {b} : o2[g] = ops[g]
    BY <1>1 DEF OpsType
  <2>7. Frontier(gidCounter', tag', o2, sea')
    <3>1. LiveIn(tag') = 1 .. gidCounter' - 1
      BY <2>1, <2>5, <1>5 DEF IInv, World, Frontier
    <3>2. \A u \in Gids : \A i \in DOMAIN o2[u] : o2[u][i] \in LiveIn(tag')
      BY <2>5, <2>6 DEF IInv, World, Frontier
    <3>3. \A g \in Gids \ LiveIn(tag') : o2[g] = << >>
      BY <2>5, <2>6 DEF IInv, World, Frontier
    <3>4. sea' \subseteq LiveIn(tag')
      BY <2>2, <2>5 DEF IInv, World, Frontier
    <3>5. QED BY <2>1, <3>1, <3>2, <3>3, <3>4, BoundsAssumption DEF Frontier
  <2>8. Shape(tag', o2)
    BY <2>1, <2>3, <2>4, <2>6, BoundsAssumption, SMTT(30) DEF IInv, World, Shape, Nominal, Bottom, EmptyFilter, Gids
  <2>9. \A d \in Gids, i \in Nat, v \in Gids :
          <<i, v>> \in us2[d] <=> <<i, v>> \in uses[d] \/ (v = b /\ i \in DOMAIN os /\ os[i] = d)
    <3>1. us2 = Register(uses, b, os)
      BY <1>5 DEF CseUses
    <3>2. \A d \in Gids, i \in Nat, v \in Gids :
            <<i, v>> \in Register(uses, b, os)[d] <=> <<i, v>> \in uses[d] \/ (v = b /\ i \in DOMAIN os /\ os[i] = d)
      <4> TAKE d \in Gids, i \in Nat, v \in Gids
      <4> QED BY <1>1, RegisterUses
    <3>3. QED BY <3>1, <3>2
  <2>10. PointBack(tag', o2, us2)
    BY <2>1, <2>3, <2>4, <2>6, <2>9 DEF IInv, World, PointBack
  <2>11. Registered(tag', o2, us2)
    <3> SUFFICES ASSUME NEW u \in Gids, tag'[u] \notin {"None", "Param"}, NEW i \in DOMAIN o2[u]
                 PROVE  <<i, u>> \in us2[o2[u][i]]
      BY DEF Registered
    <3>1. i \in Nat /\ o2[u][i] \in Gids
      BY <1>2 DEF OpsType
    <3>2. CASE u = b
      BY <2>6, <2>9, <3>1, <3>2
    <3>3. CASE u # b
      BY <2>4, <2>6, <2>9, <3>1, <3>3 DEF IInv, World, Registered
    <3>4. QED BY <3>2, <3>3
  <2>12. DepCovers(tag', o2, dep', mutated)
    <3> SUFFICES ASSUME NEW u \in Gids, tag'[u] \notin Nominal \cup {"None"}, NEW i \in DOMAIN o2[u]
                 PROVE  dep'[o2[u][i]] \subseteq dep'[u] \/ o2[u][i] \in mutated
      BY DEF DepCovers
    <3>1. dep'[b] = DepOf(t, os) /\ \A g \in Gids \ {b} : dep'[g] = dep[g]
      BY <2>2 DEF IInv, World, TypeOK
    <3>2. o2[u][i] \in Gids \ {b}
      BY <1>1, <2>1, <2>6 DEF IInv, World, Frontier, OpsType, LiveIn
    <3>3. CASE u = b
      BY <2>3, <2>6, <3>1, <3>2, <3>3 DEF DepOf
    <3>4. CASE u # b
      BY <2>4, <2>6, <3>1, <3>2, <3>4 DEF IInv, World, DepCovers
    <3>5. QED BY <3>3, <3>4
  <2>13. HashCurrent(tag', o2, hash', sea', mutated)
    <3>1. hash'[b] = Key(t, os, b) /\ \A g \in Gids \ {b} : hash'[g] = hash[g]
      BY <2>2 DEF IInv, World, TypeOK
    <3>2. sea \subseteq Gids \ {b}
      BY <2>1 DEF IInv, World, Frontier, LiveIn
    <3>3. QED BY <2>2, <2>4, <2>6, <3>1, <3>2 DEF IInv, World, HashCurrent
  <2>14. NoTwins(tag', o2, sea', mutated)
    <3>1. sea \subseteq Gids \ {b}
      BY <2>1 DEF IInv, World, Frontier, LiveIn
    <3>2. \A n \in sea : Key(tag'[n], o2[n], n) = Key(tag[n], ops[n], n)
      BY <2>4, <2>6, <3>1
    <3>3. SureHits(t, os) = {}
      BY <1>5, CseReturns, <3>1
    <3>4. \A n \in sea \ mutated : Key(tag[n], ops[n], n) # Key(t, os, b)
      BY <3>3, <1>5 DEF SureHits, Equal, Content, IInv, World, HashCurrent
    <3>5. QED BY <2>2, <2>4, <2>6, <3>2, <3>4 DEF IInv, World, NoTwins
  <2>15. QED BY <1>2, <1>3, <2>1, <2>4, <2>5, <2>6, <2>7, <2>8, <2>10, <2>11, <2>12, <2>13, <2>14 DEF LiveIn, World
<1>6. QED BY <1>4, <1>5

(* What cse leaves in tags, bits, hashes and the sea keeps its type.       *)
LEMMA CseTypes ==
  ASSUME IInv, NEW t \in Structural, NEW os \in Seq(Gids),
         NEW b \in CseResults(t, os) \cap Gids, Insert(b, t, os)
  PROVE  /\ tag' \in [Gids -> Tags \cup {"None"}]
         /\ dep' \in [Gids -> SUBSET {"Cont", "Param"}]
         /\ hash' \in [Gids -> (Structural \cup {"gid", "None"}) \X Seq(Gids)]
         /\ sea' \subseteq Gids
<1>1. t \in Tags
  BY DEF Tags
<1>2. DepOf(t, os) \in SUBSET {"Cont", "Param"}
  <2>1. \A i \in DOMAIN os : os[i] \in Gids
    OBVIOUS
  <2>2. OwnDep(t) \in SUBSET {"Cont", "Param"}
    BY DEF OwnDep
  <2>3. QED BY <2>1, <2>2 DEF DepOf, IInv, World, TypeOK
<1>3. Key(t, os, b) \in (Structural \cup {"gid", "None"}) \X Seq(Gids)
  <2>1. <<b>> \in Seq(Gids) /\ t \notin Nominal
    BY DEF Structural, Nominal, ById
  <2>2. CASE t \in ById
    BY <2>1, <2>2 DEF Key
  <2>3. CASE t \notin ById
    BY <2>1, <2>3 DEF Key
  <2>4. QED BY <2>2, <2>3
<1>4. QED BY <1>1, <1>2, <1>3 DEF Insert, IInv, World, TypeOK

LEMMA ArgsAreLive ==
  ASSUME NEW os \in Args
  PROVE  os \in Seq(Gids) /\ \A i \in DOMAIN os : os[i] \in LiveIn(tag)
<1>1. Operands \subseteq LiveIn(tag)
  BY DEF Operands, Tagged, Live, LiveIn
<1>2. PICK n \in 0 .. MaxArgs : os \in [1 .. n -> Operands]
  BY DEF Args
<1>3. n \in Nat
  BY BoundsAssumption
<1>4. os \in Seq(Gids)
  BY <1>1, <1>2, <1>3 DEF LiveIn
<1>5. QED BY <1>1, <1>2, <1>4

-----------------------------------------------------------------------------
(* One lemma per action: it preserves the inductive invariant.             *)

LEMMA NewPrimOpPreserves ==
  ASSUME IInv, NEW t \in {"PrimOp", "MemOp"}, NEW os \in Args, NewPrimOp(t, os)
  PROVE  IInv'
<1>1. t \in Structural
  BY DEF Structural, ById
<1>2. os \in Seq(Gids) /\ \A i \in DOMAIN os : os[i] \in LiveIn(tag)
  BY ArgsAreLive
<1>3. PICK b \in CseResults(t, os) \cap Gids :
        /\ Insert(b, t, os)
        /\ ops'  = [ops EXCEPT ![b] = os]
        /\ uses' = CseUses(b, os)
  BY DEF NewPrimOp
<1>4. dead' = dead /\ mutated' = mutated
  BY DEF NewPrimOp
<1>5. World(gidCounter', tag', [ops EXCEPT ![b] = os], CseUses(b, os), dep', hash', sea', mutated)
  BY <1>1, <1>2, <1>3, CsePreserves
<1>6. World(gidCounter', tag', ops', uses', dep', hash', sea', mutated')
  BY <1>3, <1>4, <1>5
<1>7. TypeOK'
  BY <1>1, <1>2, <1>3, <1>4, <1>6, CseTypes DEF TypeOK, IInv, World, OpsType, UsesType, Frontier
<1>8. QED BY <1>6, <1>7 DEF IInv

LEMMA BuildIntoPreserves ==
  ASSUME IInv, NEW c \in LiveIn(tag), tag[c] = "Continuation", NEW i \in {1, 2},
         NEW t \in Structural, NEW os \in Seq(Gids),
         \A j \in DOMAIN os : os[j] \in LiveIn(tag), BuildInto(c, i, t, os)
  PROVE  IInv'
<1>1. PICK b \in CseResults(t, os) \cap Gids :
        /\ Insert(b, t, os)
        /\ ops'  = [ops EXCEPT ![b] = os, ![c][i] = b]
        /\ uses' = Reset(CseUses(b, os), c, i, ops[c][i], b)
  BY DEF BuildInto
<1>2. dead' = dead /\ mutated' = mutated
  BY DEF BuildInto
<1> DEFINE o2  == [ops EXCEPT ![b] = os]
           us2 == CseUses(b, os)
<1>3. ops' = [o2 EXCEPT ![c][i] = b]
  BY <1>1
<1>4. /\ World(gidCounter', tag', o2, us2, dep', hash', sea', mutated)
      /\ b \in LiveIn(tag') /\ tag'[b] = t
      /\ \A g \in LiveIn(tag) : tag'[g] = tag[g] /\ o2[g] = ops[g]
  <2>1. Insert(b, t, os)
    BY <1>1
  <2>2. World(gidCounter', tag', o2, us2, dep', hash', sea', mutated)
    BY <2>1, CsePreserves
  <2>3. b \in LiveIn(tag') /\ tag'[b] = t
    BY <2>1, CsePreserves
  <2>4. ASSUME NEW g \in LiveIn(tag)
        PROVE  tag'[g] = tag[g] /\ o2[g] = ops[g]
    <3>1. b = gidCounter \/ ops[b] = os
      BY CseReturns
    <3>2. g # gidCounter /\ g \in Gids /\ ops \in OpsType
      BY DEF IInv, World, Frontier, LiveIn
    <3>3. tag'[g] = tag[g]
      BY <2>1, CsePreserves
    <3>4. QED BY <3>1, <3>2, <3>3 DEF OpsType
  <2>5. QED BY <2>2, <2>3, <2>4
<1> HIDE DEF o2, us2
<1>5. uses' = Reset(us2, c, i, o2[c][i], b)
  BY <1>1, <1>4 DEF us2
<1>6. c \in Gids /\ tag'[c] = "Continuation"
  BY <1>4 DEF LiveIn
<1>7. World(gidCounter', tag', ops', uses', dep', hash', sea', mutated)
  BY <1>3, <1>4, <1>5, <1>6, ResetPreserves
<1>8. TypeOK'
  BY <1>1, <1>2, <1>7, CseTypes DEF TypeOK, IInv, World, OpsType, UsesType, Frontier
<1>9. QED BY <1>2, <1>7, <1>8 DEF IInv

LEMMA DestroyPreserves ==
  ASSUME IInv, NEW c \in LiveIn(tag), tag[c] = "Continuation", Destroy(c)
  PROVE  IInv'
<1> DEFINE o2  == [ops EXCEPT ![c][2] = EmptyFilter]
           us2 == Reset(uses, c, 2, ops[c][2], EmptyFilter)
           o3  == [o2 EXCEPT ![c][1] = Bottom]
<1>1. c \in Gids /\ ops \in OpsType /\ uses \in UsesType
  BY DEF LiveIn, IInv, World
<1>2. Bottom \in LiveIn(tag) /\ EmptyFilter \in LiveIn(tag)
  BY BoundsAssumption DEF IInv, World, Shape, LiveIn, Bottom, EmptyFilter, Gids
<1>3. ops[c] \in Seq(Gids) /\ DOMAIN ops[c] = {1, 2}
  BY <1>1 DEF OpsType, IInv, World, Shape
<1>4. o2[c][1] = ops[c][1] /\ o2[c][2] = EmptyFilter
  BY <1>1, <1>3 DEF OpsType
<1>5. World(gidCounter, tag, o2, us2, dep, hash, sea, mutated)
  BY <1>1, <1>2, ResetPreserves DEF IInv
<1> HIDE DEF o2, us2
<1>6. o2[c] \in Seq(Gids) /\ DOMAIN o2[c] = {1, 2} /\ o2 \in OpsType
  BY <1>1, <1>5 DEF World, OpsType, Shape, IInv
<1>7. o3[c] = <<Bottom, EmptyFilter>>
  <2>1. o3[c] = [o2[c] EXCEPT ![1] = Bottom]
    BY <1>1, <1>6 DEF OpsType
  <2>2. QED BY <2>1, <1>4, <1>6
<1>8. ops' = o3
  BY <1>1, <1>7 DEF OpsType, Destroy, o2
<1>9. uses' = Reset(us2, c, 1, o2[c][1], Bottom)
  BY <1>4 DEF Destroy, us2
<1>10. UNCHANGED <<gidCounter, tag, dep, hash, sea, mutated>> /\ dead' = dead \cup {c}
  BY DEF Destroy
<1>11. World(gidCounter, tag, ops', uses', dep, hash, sea, mutated)
  BY <1>1, <1>2, <1>5, <1>8, <1>9, ResetPreserves
<1>12. World(gidCounter', tag', ops', uses', dep', hash', sea', mutated')
  BY <1>10, <1>11
<1>13. TypeOK'
  BY <1>1, <1>10, <1>11 DEF TypeOK, IInv, World, OpsType, UsesType
<1>14. QED BY <1>12, <1>13 DEF IInv

(* A new Param p of a live continuation c.                                 *)
LEMMA AppendParamPreserves ==
  ASSUME IInv, NEW c \in LiveIn(tag), tag[c] = "Continuation", AppendParam(c)
  PROVE  IInv'
<1> DEFINE p == gidCounter
<1>1. /\ p \in Gids /\ gidCounter' = p + 1
      /\ tag' = [tag EXCEPT ![p] = "Param"] /\ ops' = [ops EXCEPT ![p] = <<c>>]
      /\ dep' = [dep EXCEPT ![p] = OwnDep("Param")]
      /\ hash' = [hash EXCEPT ![p] = Key("Param", <<c>>, p)]
      /\ uses' = Register(uses, p, <<c>>)
      /\ UNCHANGED <<sea, dead, mutated>>
  BY DEF AppendParam
<1>2. /\ c \in Gids /\ <<c>> \in Seq(Gids) /\ ops \in OpsType /\ uses \in UsesType
      /\ p \in 8 .. MaxGid /\ LiveIn(tag) = 1 .. p - 1 /\ p \notin LiveIn(tag) /\ tag[p] = "None"
  BY <1>1 DEF LiveIn, IInv, World, Frontier, Gids
<1> HIDE DEF p
<1>3. /\ tag'[p] = "Param" /\ ops'[p] = <<c>>
      /\ dep'[p] = OwnDep("Param") /\ hash'[p] = Key("Param", <<c>>, p)
      /\ \A g \in Gids \ {p} : tag'[g] = tag[g] /\ ops'[g] = ops[g] /\ dep'[g] = dep[g] /\ hash'[g] = hash[g]
  BY <1>1, <1>2 DEF IInv, TypeOK
<1>4. LiveIn(tag') = LiveIn(tag) \cup {p}
  BY <1>1, <1>3 DEF LiveIn
<1>5. \A d \in Gids, i \in Nat, v \in Gids :
        <<i, v>> \in uses'[d] <=> <<i, v>> \in uses[d] \/ (v = p /\ i = 1 /\ c = d)
  <2> DEFINE os == <<c>>
  <2>1. os \in Seq(Gids) /\ uses \in UsesType /\ p \in Gids /\ uses' = Register(uses, p, os)
    BY <1>1, <1>2
  <2>2. DOMAIN os = {1} /\ os[1] = c
    OBVIOUS
  <2> HIDE DEF os
  <2>3. TAKE d \in Gids, i \in Nat, v \in Gids
  <2>4. <<i, v>> \in Register(uses, p, os)[d]
          <=> <<i, v>> \in uses[d] \/ (v = p /\ i \in DOMAIN os /\ os[i] = d)
    BY <2>1, RegisterUses
  <2>5. QED BY <2>1, <2>2, <2>4
<1>6. ops' \in OpsType /\ uses' \in UsesType
  BY <1>1, <1>2, RegisterUses DEF OpsType
<1>7. Frontier(gidCounter', tag', ops', sea')
  <2>1. LiveIn(tag') = 1 .. gidCounter' - 1 /\ gidCounter' \in 8 .. MaxGid + 1
    <3>1. gidCounter' = p + 1
      BY <1>1
    <3>2. p \in 8 .. MaxGid /\ LiveIn(tag) = 1 .. p - 1
      BY <1>2
    <3>3. QED BY <3>1, <3>2, <1>4, BoundsAssumption
  <2>2. \A u \in Gids : \A i \in DOMAIN ops'[u] : ops'[u][i] \in LiveIn(tag')
    BY <1>2, <1>3, <1>4 DEF IInv, World, Frontier
  <2>3. QED BY <1>1, <1>3, <1>4, <2>1, <2>2 DEF IInv, World, Frontier
<1>8. Shape(tag', ops')
  BY <1>2, <1>3, BoundsAssumption DEF IInv, World, Shape, Bottom, EmptyFilter, Gids
<1>9. PointBack(tag', ops', uses')
  BY <1>2, <1>3, <1>5 DEF IInv, World, PointBack
<1>10. Registered(tag', ops', uses')
  <2> SUFFICES ASSUME NEW u \in Gids, tag'[u] \notin {"None", "Param"}, NEW i \in DOMAIN ops'[u]
               PROVE  <<i, u>> \in uses'[ops'[u][i]]
    BY DEF Registered
  <2>1. i \in Nat /\ ops'[u][i] \in Gids /\ u # p
    BY <1>3, <1>6 DEF OpsType
  <2>2. QED BY <1>3, <1>5, <2>1 DEF IInv, World, Registered
<1>11. DepCovers(tag', ops', dep', mutated')
  <2> SUFFICES ASSUME NEW u \in Gids, tag'[u] \notin Nominal \cup {"None"}, NEW i \in DOMAIN ops'[u]
               PROVE  dep'[ops'[u][i]] \subseteq dep'[u] \/ ops'[u][i] \in mutated'
    BY DEF DepCovers
  <2>1. u # p
    BY <1>3 DEF Nominal
  <2>2. ops'[u][i] \in Gids \ {p}
    BY <1>2, <1>3, <2>1 DEF IInv, World, Frontier, LiveIn
  <2>3. QED BY <1>1, <1>3, <2>1, <2>2 DEF IInv, World, DepCovers
<1>12. \A n \in sea : n \in Gids \ {p}
  BY <1>2 DEF IInv, World, Frontier, LiveIn
<1>13. HashCurrent(tag', ops', hash', sea', mutated') /\ NoTwins(tag', ops', sea', mutated')
  BY <1>1, <1>3, <1>12 DEF IInv, World, HashCurrent, NoTwins
<1>14. World(gidCounter', tag', ops', uses', dep', hash', sea', mutated')
  BY <1>6, <1>7, <1>8, <1>9, <1>10, <1>11, <1>13 DEF World
<1>15. TypeOK'
  <2>1. Key("Param", <<c>>, p) \in (Structural \cup {"gid", "None"}) \X Seq(Gids)
    <3>1. Key("Param", <<c>>, p) = <<"gid", <<p>>>>
      BY DEF Key, Nominal
    <3>2. p \in Gids
      BY <1>1
    <3>3. QED BY <3>1, <3>2
  <2>2. OwnDep("Param") \in SUBSET {"Cont", "Param"} /\ "Param" \in Tags
    BY DEF OwnDep, Tags, Nominal
  <2>3. QED BY <1>1, <1>6, <1>7, <2>1, <2>2 DEF TypeOK, IInv, OpsType, UsesType, Frontier
<1>16. QED BY <1>14, <1>15 DEF IInv

(* Every user of d but its Params now has "with" as that operand.          *)
LEMMA ReplaceUsesPreserves ==
  ASSUME IInv, NEW d \in LiveIn(tag), NEW with \in LiveIn(tag), ReplaceUses(d, with)
  PROVE  IInv'
<1> DEFINE moved == {use \in uses[d] : tag[use[2]] # "Param"}
           users == {use[2] : use \in moved}
<1>1. /\ d # with
      /\ ops'  = [u \in Gids |-> [i \in DOMAIN ops[u] |-> IF <<i, u>> \in moved THEN with ELSE ops[u][i]]]
      /\ uses' = [uses EXCEPT ![d] = {}, ![with] = @ \cup moved]
      /\ dep'  = [u \in Gids |-> IF u \in users /\ tag[u] \notin Nominal THEN dep[u] \cup dep[with] ELSE dep[u]]
      /\ mutated' = mutated \cup {u \in users : tag[u] \notin Nominal}
      /\ UNCHANGED <<gidCounter, tag, hash, sea, dead>>
  BY DEF ReplaceUses
<1>2. d \in Gids /\ with \in Gids /\ ops \in OpsType /\ uses \in UsesType
  BY DEF LiveIn, IInv, World
<1>3. \A i \in Nat, u \in Gids : <<i, u>> \in moved <=> <<i, u>> \in uses[d] /\ tag[u] # "Param"
  OBVIOUS
<1>4. moved \subseteq Nat \X Gids /\ users \subseteq Gids
  BY <1>2 DEF UsesType
<1>5. \A i \in Nat, u \in Gids : <<i, u>> \in moved => u \in users
  OBVIOUS
<1> HIDE DEF moved, users
<1>6. /\ \A u \in Gids : DOMAIN ops'[u] = DOMAIN ops[u] /\ DOMAIN ops[u] \subseteq Nat
      /\ \A u \in Gids : \A i \in DOMAIN ops[u] :
           ops'[u][i] = IF <<i, u>> \in moved THEN with ELSE ops[u][i]
  BY <1>1, <1>2 DEF OpsType
<1>7. ops' \in OpsType
  <2>1. ASSUME NEW u \in Gids
        PROVE  [i \in DOMAIN ops[u] |-> IF <<i, u>> \in moved THEN with ELSE ops[u][i]] \in Seq(Gids)
    <3>1. ops[u] \in Seq(Gids)
      BY <1>2 DEF OpsType
    <3>2. \A i \in 1 .. Len(ops[u]) : (IF <<i, u>> \in moved THEN with ELSE ops[u][i]) \in Gids
      BY <1>2, <3>1
    <3>3. [i \in DOMAIN ops[u] |-> IF <<i, u>> \in moved THEN with ELSE ops[u][i]]
            \in [1 .. Len(ops[u]) -> Gids]
      BY <3>1, <3>2
    <3>4. Len(ops[u]) \in Nat
      BY <3>1
    <3> DEFINE s == [i \in DOMAIN ops[u] |-> IF <<i, u>> \in moved THEN with ELSE ops[u][i]]
               k == Len(ops[u])
    <3>5. s \in [1 .. k -> Gids] /\ k \in Nat
      BY <3>3, <3>4
    <3> HIDE DEF s, k
    <3>6. s \in Seq(Gids)
      BY <3>5
    <3>7. QED BY <3>6 DEF s
  <2>2. QED BY <1>1, <2>1 DEF OpsType
<1>8. \A u \in Gids : (\A i \in DOMAIN ops[u] : <<i, u>> \notin moved) => ops'[u] = ops[u]
  <2> TAKE u \in Gids
  <2> HAVE \A i \in DOMAIN ops[u] : <<i, u>> \notin moved
  <2>1. ops'[u] = [i \in DOMAIN ops[u] |-> ops[u][i]]
    BY <1>1
  <2>2. ops[u] \in Seq(Gids)
    BY <1>2 DEF OpsType
  <2>3. QED BY <2>1, <2>2
<1>9. /\ uses' \in UsesType
      /\ \A e \in Gids : uses'[e] = IF e = d THEN {} ELSE IF e = with THEN uses[with] \cup moved ELSE uses[e]
  BY <1>1, <1>2, <1>4 DEF UsesType
<1>10. Frontier(gidCounter', tag', ops', sea')
  <2>1. \A u \in Gids : \A i \in DOMAIN ops'[u] : ops'[u][i] \in LiveIn(tag')
    BY <1>1, <1>6 DEF IInv, World, Frontier
  <2>2. ASSUME NEW g \in Gids \ LiveIn(tag') PROVE ops'[g] = << >>
    <3>1. ops[g] = << >>
      BY <1>1, <2>2 DEF IInv, World, Frontier
    <3>2. QED BY <1>8, <3>1
  <2>3. QED BY <1>1, <2>1, <2>2 DEF IInv, World, Frontier
<1>11. Shape(tag', ops')
  BY <1>1, <1>6 DEF IInv, World, Shape
<1>12. PointBack(tag', ops', uses')
  <2> SUFFICES ASSUME NEW e \in Gids, NEW i \in Nat, NEW u \in Gids, <<i, u>> \in uses'[e]
               PROVE  tag'[u] # "None" /\ i \in DOMAIN ops'[u] /\ ops'[u][i] = e
    BY DEF PointBack
  <2>1. e # d /\ (<<i, u>> \in uses[e] \/ (e = with /\ <<i, u>> \in moved))
    BY <1>9
  <2>2. CASE <<i, u>> \in moved
    <3>1. <<i, u>> \in uses[d]
      BY <1>3, <2>2
    <3>2. tag[u] # "None" /\ i \in DOMAIN ops[u] /\ ops[u][i] = d
      BY <1>2, <3>1 DEF IInv, World, PointBack
    <3>3. e = with
      BY <1>2, <2>1, <3>2 DEF IInv, World, PointBack
    <3>4. QED BY <1>1, <1>6, <2>2, <3>2, <3>3
  <2>3. CASE <<i, u>> \notin moved
    <3>1. tag[u] # "None" /\ i \in DOMAIN ops[u] /\ ops[u][i] = e
      BY <2>1, <2>3 DEF IInv, World, PointBack
    <3>2. QED BY <1>1, <1>6, <2>3, <3>1
  <2>4. QED BY <2>2, <2>3
<1>13. Registered(tag', ops', uses')
  <2> SUFFICES ASSUME NEW u \in Gids, tag'[u] \notin {"None", "Param"}, NEW i \in DOMAIN ops'[u]
               PROVE  <<i, u>> \in uses'[ops'[u][i]]
    BY DEF Registered
  <2>1. /\ i \in DOMAIN ops[u] /\ i \in Nat /\ tag[u] \notin {"None", "Param"}
        /\ ops[u][i] \in Gids
    BY <1>1, <1>2, <1>6 DEF OpsType
  <2>2. <<i, u>> \in uses[ops[u][i]]
    BY <2>1 DEF IInv, World, Registered
  <2>3. CASE <<i, u>> \in moved
    <3>1. ops'[u][i] = with
      BY <1>6, <2>1, <2>3
    <3>2. uses'[with] = uses[with] \cup moved
      BY <1>1, <1>2, <1>9
    <3>3. QED BY <2>3, <3>1, <3>2
  <2>4. CASE <<i, u>> \notin moved
    <3>1. ops[u][i] # d
      BY <1>3, <2>1, <2>2, <2>4
    <3>2. QED BY <1>2, <1>6, <1>9, <2>1, <2>2, <2>4, <3>1
  <2>5. QED BY <2>3, <2>4
<1>14. DepCovers(tag', ops', dep', mutated')
  <2> SUFFICES ASSUME NEW u \in Gids, tag'[u] \notin Nominal \cup {"None"}, NEW i \in DOMAIN ops'[u]
               PROVE  dep'[ops'[u][i]] \subseteq dep'[u] \/ ops'[u][i] \in mutated'
    BY DEF DepCovers
  <2>1. i \in DOMAIN ops[u] /\ i \in Nat /\ ops[u][i] \in Gids /\ tag[u] \notin Nominal \cup {"None"}
    BY <1>1, <1>2, <1>6 DEF OpsType
  <2>2. \A g \in Gids : dep'[g] = dep[g] \/ g \in mutated'
    BY <1>1
  <2>3. dep[u] \subseteq dep'[u]
    BY <1>1
  <2>4. CASE <<i, u>> \in moved
    <3>1. dep'[u] = dep[u] \cup dep[with] /\ ops'[u][i] = with
      BY <1>1, <1>5, <1>6, <2>1, <2>4
    <3>2. QED BY <1>2, <2>2, <3>1
  <2>5. CASE <<i, u>> \notin moved
    <3>1. dep[ops[u][i]] \subseteq dep[u] \/ ops[u][i] \in mutated
      BY <2>1 DEF IInv, World, DepCovers
    <3>2. QED BY <1>1, <1>6, <2>1, <2>2, <2>3, <2>5, <3>1
  <2>6. QED BY <2>4, <2>5
<1>15. \A n \in sea : n \in mutated' \/ Key(tag'[n], ops'[n], n) = Key(tag[n], ops[n], n)
  <2> SUFFICES ASSUME NEW n \in sea, n \notin mutated'
               PROVE  Key(tag'[n], ops'[n], n) = Key(tag[n], ops[n], n)
    OBVIOUS
  <2>1. n \in Gids
    BY DEF IInv, World, Frontier, LiveIn
  <2>2. CASE tag[n] \in Nominal
    BY <1>1, <2>2 DEF Key
  <2>3. CASE tag[n] \notin Nominal
    <3>1. n \notin users
      BY <1>1, <2>3
    <3>2. \A i \in DOMAIN ops[n] : <<i, n>> \notin moved
      BY <1>5, <1>6, <2>1, <3>1
    <3>3. QED BY <1>1, <1>8, <2>1, <3>2
  <2>4. QED BY <2>2, <2>3
<1>16. HashCurrent(tag', ops', hash', sea', mutated')
  BY <1>1, <1>15 DEF IInv, World, HashCurrent
<1>17. NoTwins(tag', ops', sea', mutated')
  <2>1. NoTwins(tag, ops, sea, mutated) /\ sea' = sea /\ mutated \subseteq mutated'
    BY <1>1 DEF IInv, World
  <2>2. ASSUME NEW m \in sea' \ mutated', NEW n \in sea' \ mutated',
               Key(tag'[m], ops'[m], m) = Key(tag'[n], ops'[n], n)
        PROVE  m = n
    <3>1. m \in sea \ mutated /\ n \in sea \ mutated
      BY <2>1
    <3>2. Key(tag[m], ops[m], m) = Key(tag[n], ops[n], n)
      BY <1>15, <2>1, <2>2
    <3>3. QED BY <2>1, <3>1, <3>2 DEF NoTwins
  <2>3. QED BY <2>2 DEF NoTwins
<1>18. World(gidCounter', tag', ops', uses', dep', hash', sea', mutated')
  BY <1>7, <1>9, <1>10, <1>11, <1>12, <1>13, <1>14, <1>16, <1>17 DEF World
<1>19. TypeOK'
  <2>1. dep' \in [Gids -> SUBSET {"Cont", "Param"}]
    BY <1>1, <1>2 DEF IInv, TypeOK
  <2>2. QED BY <1>1, <1>4, <1>7, <1>9, <2>1 DEF TypeOK, IInv, OpsType, UsesType
<1>20. QED BY <1>18, <1>19 DEF IInv

(* A new continuation c with its parameters ps.                            *)
LEMMA NewContinuationPreserves ==
  ASSUME IInv, NEW n \in Nat, NewContinuation(n)
  PROVE  IInv'
<1> DEFINE c     == gidCounter
           ps    == c + 1 .. c + n
           t(g)  == IF g = c THEN "Continuation" ELSE "Param"
           os(g) == IF g = c THEN <<Bottom, EmptyFilter>> ELSE <<c>>
           new   == {c} \cup ps
<1>1. /\ c + n \in Gids /\ gidCounter' = c + n + 1
      /\ tag'  = [g \in Gids |-> IF g \in new THEN t(g) ELSE tag[g]]
      /\ ops'  = [g \in Gids |-> IF g \in new THEN os(g) ELSE ops[g]]
      /\ dep'  = [g \in Gids |-> IF g \in new THEN OwnDep(t(g)) ELSE dep[g]]
      /\ hash' = [g \in Gids |-> IF g \in new THEN Key(t(g), os(g), g) ELSE hash[g]]
      /\ uses' = [Register(uses, c, os(c)) EXCEPT ![c] = @ \cup {<<1, p>> : p \in ps}]
      /\ sea'  = sea \cup {c}
      /\ UNCHANGED <<dead, mutated>>
  BY DEF NewContinuation
<1>2. /\ c \in 8 .. MaxGid + 1 /\ LiveIn(tag) = 1 .. c - 1
      /\ ops \in OpsType /\ uses \in UsesType
  BY DEF IInv, World, Frontier
<1>3. /\ c \in 8 .. MaxGid /\ c \in Gids /\ c \notin ps /\ ps \subseteq Gids /\ MaxGid \in Nat
      /\ new = c .. c + n /\ new \subseteq Gids
      /\ \A g \in new : g \notin LiveIn(tag) /\ tag[g] = "None"
  BY <1>1, <1>2, BoundsAssumption, SMTT(30) DEF Gids, LiveIn
<1>4. Bottom \in LiveIn(tag) /\ EmptyFilter \in LiveIn(tag) /\ Bottom \in Gids /\ EmptyFilter \in Gids
  BY <1>2, BoundsAssumption DEF Bottom, EmptyFilter, LiveIn, Gids
<1>5. /\ os(c) \in Seq(Gids) /\ DOMAIN os(c) = {1, 2} /\ os(c)[1] = Bottom /\ os(c)[2] = EmptyFilter
      /\ \A p \in ps : os(p) \in Seq(Gids) /\ DOMAIN os(p) = {1} /\ os(p)[1] = c
      /\ t(c) = "Continuation" /\ \A p \in ps : t(p) = "Param"
  BY <1>3, <1>4
<1>6. /\ \A g \in new : /\ tag'[g] = t(g) /\ ops'[g] = os(g)
                        /\ dep'[g] = OwnDep(t(g)) /\ hash'[g] = Key(t(g), os(g), g)
      /\ \A g \in Gids \ new : tag'[g] = tag[g] /\ ops'[g] = ops[g] /\ dep'[g] = dep[g] /\ hash'[g] = hash[g]
  BY <1>1, <1>3
<1>7. \A d \in Gids, i \in Nat, v \in Gids :
        <<i, v>> \in uses'[d] <=> \/ <<i, v>> \in uses[d]
                                  \/ v = c /\ i \in DOMAIN os(c) /\ os(c)[i] = d
                                  \/ d = c /\ i = 1 /\ v \in ps
  <2> DEFINE osc == os(c)
             reg == Register(uses, c, osc)
             pus == {<<1, p>> : p \in ps}
  <2>1. osc \in Seq(Gids) /\ c \in Gids /\ uses \in UsesType /\ uses' = [reg EXCEPT ![c] = @ \cup pus]
    BY <1>1, <1>2, <1>3, <1>5
  <2>2. \A i \in Nat, v \in Gids : <<i, v>> \in pus <=> i = 1 /\ v \in ps
    OBVIOUS
  <2> HIDE DEF osc, pus, c, ps
  <2>3. reg \in UsesType
    BY <2>1, RegisterUses
  <2>4. \A d \in Gids : uses'[d] = IF d = c THEN reg[c] \cup pus ELSE reg[d]
    BY <2>1, <2>3 DEF UsesType
  <2>5. \A d \in Gids, i \in Nat, v \in Gids :
          <<i, v>> \in reg[d] <=> <<i, v>> \in uses[d] \/ (v = c /\ i \in DOMAIN osc /\ osc[i] = d)
    <3> TAKE d \in Gids, i \in Nat, v \in Gids
    <3> QED BY <2>1, RegisterUses
  <2>6. osc = os(c)
    BY DEF osc
  <2> HIDE DEF os, reg
  <2>7. TAKE d \in Gids, i \in Nat, v \in Gids
  <2>8. CASE d = c
    BY <2>2, <2>4, <2>5, <2>6, <2>8
  <2>9. CASE d # c
    BY <2>4, <2>5, <2>6, <2>9
  <2>10. QED BY <2>8, <2>9
<1>8. uses' \in UsesType
  <2> DEFINE reg == Register(uses, c, os(c))
             pus == {<<1, p>> : p \in ps}
  <2>1. reg \in UsesType
    BY <1>2, <1>3, <1>5, RegisterUses
  <2>2. pus \subseteq Nat \X Gids
    BY <1>3
  <2>3. uses' = [reg EXCEPT ![c] = @ \cup pus]
    BY <1>1
  <2> HIDE DEF reg, pus
  <2>4. QED BY <2>1, <2>2, <2>3 DEF UsesType
<1>9. \A g \in Gids : tag'[g] # "None" <=> g \in LiveIn(tag) \cup new
  BY <1>3, <1>5, <1>6 DEF LiveIn
<1>10. LiveIn(tag') = LiveIn(tag) \cup new
  BY <1>3, <1>9 DEF LiveIn
<1> HIDE DEF c, ps, t, os, new
<1>11. new = {c} \cup ps
  BY DEF new
<1>12. ops' \in OpsType
  BY <1>1, <1>2, <1>5, <1>11 DEF OpsType
<1>13. Frontier(gidCounter', tag', ops', sea')
  <2>1. LiveIn(tag') = 1 .. gidCounter' - 1 /\ gidCounter' \in 8 .. MaxGid + 1
    <3>1. c \in Nat /\ n \in Nat /\ gidCounter' = c + n + 1 /\ new = c .. c + n /\ LiveIn(tag) = 1 .. c - 1 /\ c >= 8
      BY <1>1, <1>2, <1>3
    <3>2. c + n <= MaxGid /\ MaxGid \in Nat
      BY <1>1, <1>3 DEF Gids
    <3>3. QED BY <1>10, <3>1, <3>2
  <2>2. \A u \in Gids : \A i \in DOMAIN ops'[u] : ops'[u][i] \in LiveIn(tag')
    BY <1>4, <1>5, <1>6, <1>10, <1>11, SMTT(30) DEF IInv, World, Frontier
  <2>3. \A g \in Gids \ LiveIn(tag') : ops'[g] = << >>
    BY <1>6, <1>10 DEF IInv, World, Frontier
  <2>4. sea' \subseteq LiveIn(tag')
    BY <1>1, <1>10, <1>11 DEF IInv, World, Frontier
  <2>5. QED BY <2>1, <2>2, <2>3, <2>4 DEF Frontier
<1>14. Shape(tag', ops')
  <2>1. Bottom \notin new /\ EmptyFilter \notin new
    BY <1>3, <1>4
  <2>2. QED BY <1>4, <1>5, <1>6, <1>11, <2>1 DEF IInv, World, Shape
<1>15. PointBack(tag', ops', uses')
  <2> SUFFICES ASSUME NEW d \in Gids, NEW i \in Nat, NEW u \in Gids, <<i, u>> \in uses'[d]
               PROVE  tag'[u] # "None" /\ i \in DOMAIN ops'[u] /\ ops'[u][i] = d
    BY DEF PointBack
  <2>1. CASE <<i, u>> \in uses[d]
    <3>1. tag[u] # "None" /\ i \in DOMAIN ops[u] /\ ops[u][i] = d
      BY <2>1 DEF IInv, World, PointBack
    <3>2. u \notin new
      BY <1>3, <3>1
    <3>3. QED BY <1>6, <3>1, <3>2
  <2>2. CASE <<i, u>> \notin uses[d]
    <3>1. \/ u = c /\ i \in DOMAIN os(c) /\ os(c)[i] = d
          \/ d = c /\ i = 1 /\ u \in ps
      BY <1>7, <2>2
    <3>2. CASE u = c /\ i \in DOMAIN os(c) /\ os(c)[i] = d
      BY <1>5, <1>6, <1>11, <3>2
    <3>3. CASE d = c /\ i = 1 /\ u \in ps
      <4>1. tag'[u] = "Param" /\ ops'[u] = os(u)
        BY <1>5, <1>6, <1>11, <3>3
      <4>2. QED BY <1>5, <3>3, <4>1
    <3>4. QED BY <3>1, <3>2, <3>3
  <2>3. QED BY <2>1, <2>2
<1>16. Registered(tag', ops', uses')
  <2> SUFFICES ASSUME NEW u \in Gids, tag'[u] \notin {"None", "Param"}, NEW i \in DOMAIN ops'[u]
               PROVE  <<i, u>> \in uses'[ops'[u][i]]
    BY DEF Registered
  <2>1. i \in Nat /\ ops'[u][i] \in Gids
    BY <1>12 DEF OpsType
  <2>2. u \notin ps
    BY <1>5, <1>6, <1>11
  <2>3. CASE u = c
    BY <1>6, <1>7, <1>11, <2>1, <2>3
  <2>4. CASE u # c
    <3>1. u \notin new
      BY <1>11, <2>2, <2>4
    <3>2. QED BY <1>6, <1>7, <2>1, <3>1 DEF IInv, World, Registered
  <2>5. QED BY <2>3, <2>4
<1>17. DepCovers(tag', ops', dep', mutated')
  <2> SUFFICES ASSUME NEW u \in Gids, tag'[u] \notin Nominal \cup {"None"}, NEW i \in DOMAIN ops'[u]
               PROVE  dep'[ops'[u][i]] \subseteq dep'[u] \/ ops'[u][i] \in mutated'
    BY DEF DepCovers
  <2>1. u \notin new
    BY <1>5, <1>6, <1>11 DEF Nominal
  <2>2. ops'[u] = ops[u] /\ ops[u][i] \in LiveIn(tag) /\ tag[u] = tag'[u]
    BY <1>6, <2>1 DEF IInv, World, Frontier
  <2>3. ops[u][i] \in Gids \ new
    BY <1>3, <2>2 DEF LiveIn
  <2>4. QED BY <1>1, <1>6, <2>1, <2>2, <2>3 DEF IInv, World, DepCovers
<1>18. \A m \in sea : m \in Gids \ new
  BY <1>3 DEF IInv, World, Frontier, LiveIn
<1>19. HashCurrent(tag', ops', hash', sea', mutated')
  BY <1>1, <1>6, <1>11, <1>18 DEF IInv, World, HashCurrent
<1>20. NoTwins(tag', ops', sea', mutated')
  <2>1. \A m \in sea : Key(tag'[m], ops'[m], m) = Key(tag[m], ops[m], m)
    BY <1>6, <1>18
  <2>2. Key(tag'[c], ops'[c], c) = <<"gid", <<c>>>>
    BY <1>5, <1>6, <1>11 DEF Key, Nominal
  <2>3. ASSUME NEW m \in sea PROVE Key(tag[m], ops[m], m) # <<"gid", <<c>>>>
    <3>1. m # c /\ tag[m] # "gid"
      BY <1>11, <1>18 DEF IInv, TypeOK, Tags, Nominal, Structural, ById
    <3>2. CASE tag[m] \in Nominal \cup ById
      BY <3>1, <3>2 DEF Key
    <3>3. CASE tag[m] \notin Nominal \cup ById
      BY <3>1, <3>3 DEF Key
    <3>4. QED BY <3>2, <3>3
  <2>4. NoTwins(tag, ops, sea, mutated) /\ sea' = sea \cup {c} /\ mutated' = mutated
    BY <1>1 DEF IInv, World
  <2>5. QED BY <2>1, <2>2, <2>3, <2>4 DEF NoTwins
<1>21. World(gidCounter', tag', ops', uses', dep', hash', sea', mutated')
  BY <1>8, <1>12, <1>13, <1>14, <1>15, <1>16, <1>17, <1>19, <1>20 DEF World
<1>22. TypeOK'
  <2>1. \A g \in new : /\ t(g) \in Tags /\ OwnDep(t(g)) \in SUBSET {"Cont", "Param"}
                        /\ Key(t(g), os(g), g) \in (Structural \cup {"gid", "None"}) \X Seq(Gids)
    <3>1. \A g \in new : t(g) \in Nominal /\ g \in Gids
      BY <1>3, <1>5, <1>11 DEF Nominal
    <3>2. \A g \in new : Key(t(g), os(g), g) = <<"gid", <<g>>>>
      BY <3>1 DEF Key
    <3>3. QED BY <3>1, <3>2 DEF Tags, OwnDep
  <2>2. tag' \in [Gids -> Tags \cup {"None"}] /\ dep' \in [Gids -> SUBSET {"Cont", "Param"}]
    BY <1>1, <2>1 DEF IInv, TypeOK
  <2>3. hash' \in [Gids -> (Structural \cup {"gid", "None"}) \X Seq(Gids)]
    BY <1>1, <2>1 DEF IInv, TypeOK
  <2>4. QED BY <1>1, <1>3, <1>8, <1>12, <1>13, <2>2, <2>3 DEF TypeOK, IInv, OpsType, UsesType, Frontier
<1>23. QED BY <1>21, <1>22 DEF IInv

-----------------------------------------------------------------------------
LEMMA JumpPreserves ==
  ASSUME IInv, NEW c \in Mutable, NEW callee \in Operands, NEW args \in Args, Jump(c, callee, args)
  PROVE  IInv'
<1>1. c \in LiveIn(tag) /\ tag[c] = "Continuation" /\ "App" \in Structural
  BY DEF Mutable, Continuations, Tagged, Live, LiveIn, Structural
<1>2. args \in Seq(Gids) /\ \A i \in DOMAIN args : args[i] \in LiveIn(tag)
  BY ArgsAreLive
<1>3. callee \in LiveIn(tag) /\ callee \in Gids
  BY DEF Operands, Tagged, Live, LiveIn
<1> DEFINE os == <<callee>> \o args
<1>4. os \in Seq(Gids) /\ \A i \in DOMAIN os : os[i] = IF i = 1 THEN callee ELSE args[i - 1]
  BY <1>2, <1>3
<1>5. \A i \in DOMAIN os : i = 1 \/ i - 1 \in DOMAIN args
  BY <1>2, <1>3
<1>6. \A i \in DOMAIN os : os[i] \in LiveIn(tag)
  BY <1>2, <1>3, <1>4, <1>5
<1>7. BuildInto(c, 1, "App", os)
  BY DEF Jump
<1> HIDE DEF os
<1>8. QED BY <1>1, <1>4, <1>6, <1>7, BuildIntoPreserves

LEMMA SetFilterPreserves ==
  ASSUME IInv, NEW c \in Mutable, NEW conditions \in Args, SetFilter(c, conditions)
  PROVE  IInv'
<1>1. c \in LiveIn(tag) /\ tag[c] = "Continuation" /\ "Filter" \in Structural
  BY DEF Mutable, Continuations, Tagged, Live, LiveIn, Structural
<1>2. conditions \in Seq(Gids) /\ \A i \in DOMAIN conditions : conditions[i] \in LiveIn(tag)
  BY ArgsAreLive
<1>3. QED BY <1>1, <1>2, BuildIntoPreserves DEF SetFilter

LEMMA InitEstablishes == Init => IInv
<1> SUFFICES ASSUME Init PROVE IInv
  OBVIOUS
<1> DEFINE t(g)  == CASE g \in {Branch, EndScope} -> "Continuation" [] g = Bottom -> "Bottom"
                      [] g = EmptyFilter -> "Filter" [] g \in 4..6 -> "Param" [] OTHER -> "None"
           os(g) == CASE g \in {Branch, EndScope} -> <<Bottom, EmptyFilter>>
                      [] g \in 4..6 -> <<Branch>> [] OTHER -> << >>
<1>1. /\ gidCounter = 8
      /\ tag  = [g \in Gids |-> t(g)]
      /\ ops  = [g \in Gids |-> os(g)]
      /\ uses = [d \in Gids |-> UNION {UsesIn(d, u, os(u)) : u \in 1..7}]
      /\ dep  = [g \in Gids |-> OwnDep(t(g))]
      /\ hash = [g \in Gids |-> Key(t(g), os(g), g)]
      /\ sea  = {Branch, Bottom, EmptyFilter, EndScope}
      /\ dead = {} /\ mutated = {}
  BY DEF Init
<1>2. 1 .. 7 \subseteq Gids /\ MaxGid \in Nat /\ MaxGid >= 7
  BY BoundsAssumption DEF Gids
<1>3. /\ t(1) = "Continuation" /\ t(2) = "Bottom" /\ t(3) = "Filter" /\ t(4) = "Param"
      /\ t(5) = "Param" /\ t(6) = "Param" /\ t(7) = "Continuation"
      /\ \A g \in Gids : g > 7 => t(g) = "None"
  BY DEF Branch, Bottom, EmptyFilter, EndScope, Gids
<1>4. /\ os(1) = <<2, 3>> /\ os(2) = << >> /\ os(3) = << >> /\ os(4) = <<1>>
      /\ os(5) = <<1>> /\ os(6) = <<1>> /\ os(7) = <<2, 3>>
      /\ \A g \in Gids : g > 7 => os(g) = << >>
  BY DEF Branch, Bottom, EmptyFilter, EndScope, Gids
<1>5. \A g \in Gids : g \in 1 .. 7 \/ g > 7
  BY DEF Gids
<1>6. \A g \in Gids : tag[g] = t(g) /\ ops[g] = os(g) /\ dep[g] = OwnDep(t(g)) /\ hash[g] = Key(t(g), os(g), g)
  BY <1>1
<1> HIDE DEF t, os
<1>7. \A g \in Gids : os(g) \in Seq(Gids) /\ \A i \in DOMAIN os(g) : os(g)[i] \in {1, 2, 3}
  <2>1. {1, 2, 3} \subseteq Gids
    BY <1>2
  <2>2. ASSUME NEW g \in Gids
        PROVE  os(g) \in {<< >>, <<1>>, <<2, 3>>}
    BY <1>4, <1>5
  <2> DEFINE Fine(s) == s \in Seq(Gids) /\ \A i \in DOMAIN s : s[i] \in {1, 2, 3}
  <2>3. Fine(<< >>)
    OBVIOUS
  <2>4. Fine(<<1>>)
    BY <2>1
  <2>5. Fine(<<2, 3>>)
    BY <2>1
  <2> HIDE DEF Fine
  <2>6. \A g \in Gids : Fine(os(g))
    BY <2>2, <2>3, <2>4, <2>5
  <2>7. QED BY <2>6 DEF Fine
<1>8. ops \in OpsType
  BY <1>1, <1>7 DEF OpsType
<1>9. \A d \in Gids, i \in Nat, v \in Gids :
        <<i, v>> \in uses[d] <=> i \in DOMAIN os(v) /\ os(v)[i] = d
  <2> TAKE d \in Gids, i \in Nat, v \in Gids
  <2>1. uses[d] = UNION {UsesIn(d, u, os(u)) : u \in 1 .. 7}
    BY <1>1
  <2>2. <<i, v>> \in uses[d] <=> v \in 1 .. 7 /\ i \in DOMAIN os(v) /\ os(v)[i] = d
    BY <2>1 DEF UsesIn
  <2>3. v \notin 1 .. 7 => DOMAIN os(v) = {}
    BY <1>4, <1>5
  <2>4. QED BY <2>2, <2>3
<1>10. uses \in UsesType
  <2>1. ASSUME NEW d \in Gids, NEW u \in 1 .. 7 PROVE UsesIn(d, u, os(u)) \subseteq Nat \X Gids
    <3>1. u \in Gids
      BY <1>2
    <3>2. os(u) \in Seq(Gids)
      BY <1>7, <3>1
    <3>3. DOMAIN os(u) \subseteq Nat
      BY <3>2
    <3>4. QED BY <3>1, <3>3 DEF UsesIn
  <2>2. QED BY <1>1, <2>1 DEF UsesType
<1>11. LiveIn(tag) = 1 .. 7
  BY <1>2, <1>3, <1>5, <1>6 DEF LiveIn
<1>12. Frontier(gidCounter, tag, ops, sea)
  <2>1. \A u \in Gids : \A i \in DOMAIN ops[u] : ops[u][i] \in LiveIn(tag)
    BY <1>6, <1>7, <1>11
  <2>2. \A g \in Gids \ LiveIn(tag) : ops[g] = << >>
    BY <1>4, <1>5, <1>6, <1>11
  <2>3. sea \subseteq LiveIn(tag)
    BY <1>1, <1>11 DEF Branch, Bottom, EmptyFilter, EndScope
  <2>4. QED BY <1>1, <1>2, <1>11, <2>1, <2>2, <2>3 DEF Frontier
<1>13. Shape(tag, ops)
  BY <1>2, <1>3, <1>4, <1>5, <1>6 DEF Shape, Bottom, EmptyFilter
<1>14. PointBack(tag, ops, uses)
  <2> SUFFICES ASSUME NEW d \in Gids, NEW i \in Nat, NEW u \in Gids, <<i, u>> \in uses[d]
               PROVE  tag[u] # "None" /\ i \in DOMAIN ops[u] /\ ops[u][i] = d
    BY DEF PointBack
  <2>1. i \in DOMAIN ops[u] /\ ops[u][i] = d
    BY <1>6, <1>9
  <2>2. u \in 1 .. 7
    BY <1>4, <1>5, <1>6, <2>1
  <2>3. QED BY <1>11, <2>1, <2>2 DEF LiveIn
<1>15. Registered(tag, ops, uses)
  <2> SUFFICES ASSUME NEW u \in Gids, NEW i \in DOMAIN ops[u]
               PROVE  <<i, u>> \in uses[ops[u][i]]
    BY DEF Registered
  <2>1. i \in Nat /\ ops[u][i] \in Gids
    BY <1>8 DEF OpsType
  <2>2. QED BY <1>6, <1>9, <2>1
<1>16. DepCovers(tag, ops, dep, mutated)
  <2>1. \A u \in Gids : tag[u] \notin Nominal \cup {"None"} => DOMAIN ops[u] = {}
    BY <1>3, <1>4, <1>5, <1>6 DEF Nominal
  <2>2. QED BY <2>1 DEF DepCovers
<1>17. HashCurrent(tag, ops, hash, sea, mutated)
  BY <1>1, <1>2, <1>6 DEF HashCurrent, Branch, Bottom, EmptyFilter, EndScope
<1>18. NoTwins(tag, ops, sea, mutated)
  <2>1. Key(tag[1], ops[1], 1) = <<"gid", <<1>>>> /\ Key(tag[7], ops[7], 7) = <<"gid", <<7>>>>
    <3>1. tag[1] = "Continuation" /\ tag[7] = "Continuation"
      BY <1>2, <1>3, <1>6
    <3>2. QED BY <3>1 DEF Key, Nominal
  <2>2. Key(tag[2], ops[2], 2) = <<"Bottom", << >>>> /\ Key(tag[3], ops[3], 3) = <<"Filter", << >>>>
    <3>1. tag[2] = "Bottom" /\ tag[3] = "Filter" /\ ops[2] = << >> /\ ops[3] = << >>
      BY <1>2, <1>3, <1>4, <1>6
    <3>2. QED BY <3>1 DEF Key, Nominal, ById
  <2>3. QED BY <1>1, <2>1, <2>2 DEF NoTwins, Branch, Bottom, EmptyFilter, EndScope
<1>19. World(gidCounter, tag, ops, uses, dep, hash, sea, mutated)
  BY <1>8, <1>10, <1>12, <1>13, <1>14, <1>15, <1>16, <1>17, <1>18 DEF World
<1>20. TypeOK
  <2>1. \A g \in Gids : t(g) \in Tags \cup {"None"} /\ OwnDep(t(g)) \in SUBSET {"Cont", "Param"}
    BY <1>3, <1>5 DEF Tags, Nominal, Structural, OwnDep
  <2>2. \A g \in Gids : Key(t(g), os(g), g) \in (Structural \cup {"gid", "None"}) \X Seq(Gids)
    <3> TAKE g \in Gids
    <3>1. t(g) \in Tags \cup {"None"} /\ os(g) \in Seq(Gids) /\ <<g>> \in Seq(Gids)
      BY <1>7, <2>1
    <3>2. CASE t(g) \in Nominal \cup ById
      BY <3>1, <3>2 DEF Key
    <3>3. CASE t(g) \notin Nominal \cup ById
      BY <3>1, <3>3 DEF Key, Tags
    <3>4. QED BY <3>2, <3>3
  <2>3. /\ tag \in [Gids -> Tags \cup {"None"}]
        /\ dep \in [Gids -> SUBSET {"Cont", "Param"}]
        /\ hash \in [Gids -> (Structural \cup {"gid", "None"}) \X Seq(Gids)]
    BY <1>1, <2>1, <2>2
  <2>4. gidCounter \in 8 .. MaxGid + 1 /\ sea \subseteq Gids /\ dead \subseteq Gids /\ mutated \subseteq Gids
    BY <1>1, <1>2 DEF Branch, Bottom, EmptyFilter, EndScope
  <2>5. QED BY <1>8, <1>10, <2>3, <2>4 DEF TypeOK, OpsType, UsesType
<1>21. QED BY <1>19, <1>20 DEF IInv

LEMMA StepPreserves == IInv /\ [Next]_vars => IInv'
<1> SUFFICES ASSUME IInv, [Next]_vars PROVE IInv'
  OBVIOUS
<1>1. ASSUME NEW n \in 0 .. MaxParams, NewContinuation(n) PROVE IInv'
  BY <1>1, NewContinuationPreserves, BoundsAssumption
<1>2. ASSUME NEW t \in {"PrimOp", "MemOp"}, NEW os \in Args, NewPrimOp(t, os) PROVE IInv'
  BY <1>2, NewPrimOpPreserves
<1>3. ASSUME NEW c \in Mutable \ dead PROVE c \in LiveIn(tag) /\ tag[c] = "Continuation"
  BY <1>3 DEF Mutable, Continuations, Tagged, Live, LiveIn
<1>4. ASSUME NEW c \in Mutable \ dead, AppendParam(c) PROVE IInv'
  BY <1>3, <1>4, AppendParamPreserves
<1>5. ASSUME NEW c \in Mutable \ dead, NEW callee \in Operands, NEW args \in Args, Jump(c, callee, args)
      PROVE  IInv'
  BY <1>5, JumpPreserves
<1>6. ASSUME NEW c \in Mutable \ dead, NEW conditions \in Args, SetFilter(c, conditions) PROVE IInv'
  BY <1>6, SetFilterPreserves
<1>7. ASSUME NEW c \in Mutable \ dead, Destroy(c) PROVE IInv'
  BY <1>3, <1>7, DestroyPreserves
<1>8. ASSUME NEW d \in Live, NEW with \in Live, ReplaceUses(d, with) PROVE IInv'
  BY <1>8, ReplaceUsesPreserves DEF Live, LiveIn
<1>9. CASE UNCHANGED vars
  BY <1>9 DEF vars, IInv, TypeOK
<1>10. QED BY <1>1, <1>2, <1>4, <1>5, <1>6, <1>7, <1>8, <1>9 DEF Next

(* The invariant a world keeps through every operation of its clients.     *)
THEOREM WorldInvariant == Spec => []IInv
<1>1. Init => IInv
  BY InitEstablishes
<1>2. IInv /\ [Next]_vars => IInv'
  BY StepPreserves
<1>3. QED BY <1>1, <1>2, PTL DEF Spec

LEMMA InvariantImplies ==
  IInv => TypeOK /\ UsesPointBack /\ OpsAreRegistered /\ GidsContiguous /\ DepCoversOps /\ Unified
<1> SUFFICES ASSUME IInv
             PROVE  TypeOK /\ UsesPointBack /\ OpsAreRegistered /\ GidsContiguous /\ DepCoversOps /\ Unified
  OBVIOUS
<1>1. TypeOK /\ Live = LiveIn(tag)
  BY DEF IInv, Live, LiveIn
<1>2. UsesPointBack
  <2> SUFFICES ASSUME NEW d \in Gids, NEW use \in uses[d]
               PROVE  use[2] \in Live /\ use[1] \in DOMAIN ops[use[2]] /\ ops[use[2]][use[1]] = d
    BY DEF UsesPointBack
  <2>1. PICK i \in Nat, u \in Gids : use = <<i, u>>
    BY DEF IInv, World, UsesType
  <2>2. QED BY <2>1 DEF IInv, World, PointBack, Live
<1>3. OpsAreRegistered
  BY DEF IInv, World, Registered, OpsAreRegistered, Live
<1>4. GidsContiguous
  BY <1>1 DEF IInv, World, Frontier, GidsContiguous
<1>5. DepCoversOps
  BY DEF IInv, World, DepCovers, DepCoversOps, Live
<1>6. Unified
  BY DEF IInv, World, NoTwins, Unified, Content
<1>7. QED BY <1>1, <1>2, <1>3, <1>4, <1>5, <1>6

(* Every variable keeps its type.                                          *)
THEOREM TypeCorrect == Spec => []TypeOK
<1>1. QED BY WorldInvariant, InvariantImplies, PTL

(* A use always leads back to the definition whose list it is in.          *)
THEOREM UseListsSound == Spec => []UsesPointBack
<1>1. QED BY WorldInvariant, InvariantImplies, PTL

(* Every operand of every definition but a Param lists that use.           *)
THEOREM UseListsComplete == Spec => []OpsAreRegistered
<1>1. QED BY WorldInvariant, InvariantImplies, PTL

(* Handing gids back in cse_base never lets two definitions share one.     *)
THEOREM GidsNeverShared == Spec => []GidsContiguous
<1>1. QED BY WorldInvariant, InvariantImplies, PTL

(* The dependence bits are those of the operands, up to rewritten nodes.   *)
THEOREM DepBitsCover == Spec => []DepCoversOps
<1>1. QED BY WorldInvariant, InvariantImplies, PTL

(* Hash-consing unifies all nodes replace_uses never rewrote.              *)
THEOREM ValuesUnified == Spec => []Unified
<1>1. QED BY WorldInvariant, InvariantImplies, PTL

-----------------------------------------------------------------------------
(***************************************************************************)
(* eta_conversion never inlines into a body that another continuation has  *)
(* too, for every bound on gids, operands and params: because a body is a  *)
(* call, and calls know all their users, a callee of a shared body has two *)
(* potential calls.                                                        *)
(***************************************************************************)

(* Nothing but jump and destroy sets a body, and replace_uses puts a call  *)
(* only where there was one.                                               *)
BodiesAreCalls(tg, o) ==
  \A c \in Gids : tg[c] = "Continuation" => tg[o[c][1]] \in {"App", "Bottom"}

CallsHaveCallees(tg, o) ==
  \A u \in Gids : tg[u] = "App" => 1 \in DOMAIN o[u]

Calls(tg, o) == BodiesAreCalls(tg, o) /\ CallsHaveCallees(tg, o)

CallInv == IInv /\ Calls(tag, ops)

-----------------------------------------------------------------------------
(* What the actions that create or find a definition need of it.           *)
LEMMA LiveFacts ==
  ASSUME IInv
  PROVE  /\ ops \in OpsType /\ tag \in [Gids -> Tags \cup {"None"}]
         /\ gidCounter \notin LiveIn(tag)
         /\ \A g \in Gids : g = gidCounter => tag[g] = "None"
         /\ \A u \in Gids : \A i \in DOMAIN ops[u] : ops[u][i] \in LiveIn(tag)
         /\ \A c \in Gids : tag[c] = "Continuation" => DOMAIN ops[c] = {1, 2}
<1>1. LiveIn(tag) = 1 .. gidCounter - 1 /\ gidCounter \in 8 .. MaxGid + 1
  BY DEF IInv, World, Frontier
<1>2. gidCounter \notin LiveIn(tag)
  BY <1>1
<1> QED
  BY <1>2 DEF IInv, World, Frontier, Shape, TypeOK, LiveIn

(* A definition of any tag but App, found or new.                          *)
LEMMA NewPrimOpKeepsCalls ==
  ASSUME CallInv, NEW t \in {"PrimOp", "MemOp"}, NEW os \in Args, NewPrimOp(t, os)
  PROVE  Calls(tag, ops)'
<1>1. IInv /\ Calls(tag, ops) /\ t \in Structural /\ os \in Seq(Gids)
  BY ArgsAreLive DEF CallInv, Structural, ById
<1>2. PICK b \in CseResults(t, os) \cap Gids : Insert(b, t, os) /\ ops' = [ops EXCEPT ![b] = os]
  BY DEF NewPrimOp
<1>3. tag' = [tag EXCEPT ![b] = t]
  BY <1>2 DEF Insert
<1>4. b = gidCounter \/ (tag[b] = t /\ ops[b] = os)
  BY <1>1, <1>2, CseReturns
<1>5. \A g \in Gids : g # b => tag'[g] = tag[g] /\ ops'[g] = ops[g]
  BY <1>1, <1>2, <1>3, LiveFacts DEF OpsType
<1>6. tag'[b] = t /\ ops'[b] = os
  BY <1>1, <1>2, <1>3, LiveFacts DEF OpsType
<1>7. \A g \in LiveIn(tag) : tag'[g] = tag[g]
  BY <1>1, <1>4, <1>5, <1>6, LiveFacts DEF LiveIn
<1>8. BodiesAreCalls(tag', ops')
  <2> SUFFICES ASSUME NEW c \in Gids, tag'[c] = "Continuation"
               PROVE  tag'[ops'[c][1]] \in {"App", "Bottom"}
    BY DEF BodiesAreCalls
  <2>1. c # b /\ tag[c] = "Continuation" /\ ops'[c] = ops[c]
    BY <1>5, <1>6
  <2>2. ops[c][1] \in LiveIn(tag)
    BY <1>1, <2>1, LiveFacts
  <2> QED
    BY <1>1, <1>7, <2>1, <2>2 DEF Calls, BodiesAreCalls
<1>9. CallsHaveCallees(tag', ops')
  BY <1>1, <1>5, <1>6 DEF Calls, CallsHaveCallees
<1> QED
  BY <1>8, <1>9 DEF Calls

(* jump sets a call as the body, set_filter another operand.               *)
LEMMA BuildIntoKeepsCalls ==
  ASSUME CallInv, NEW c \in LiveIn(tag), tag[c] = "Continuation", NEW i \in {1, 2},
         NEW t \in Structural, NEW os \in Seq(Gids), BuildInto(c, i, t, os),
         i = 1 => t = "App", t = "App" => 1 \in DOMAIN os
  PROVE  Calls(tag, ops)'
<1>1. IInv /\ Calls(tag, ops) /\ c \in Gids
  BY DEF CallInv, LiveIn
<1>2. PICK b \in CseResults(t, os) \cap Gids :
        Insert(b, t, os) /\ ops' = [ops EXCEPT ![b] = os, ![c][i] = b]
  BY DEF BuildInto
<1>3. tag' = [tag EXCEPT ![b] = t]
  BY <1>2 DEF Insert
<1>4. b = gidCounter \/ (tag[b] = t /\ ops[b] = os)
  BY <1>1, <1>2, CseReturns
<1>5. t # "Continuation" /\ c # b
  BY <1>1, <1>4, LiveFacts DEF Structural, ById, LiveIn
<1>6. \A g \in Gids \ {b, c} : tag'[g] = tag[g] /\ ops'[g] = ops[g]
  BY <1>1, <1>2, <1>3, LiveFacts DEF OpsType
<1>7. tag'[b] = t /\ ops'[b] = os /\ tag'[c] = "Continuation" /\ ops'[c] = [ops[c] EXCEPT ![i] = b]
  BY <1>1, <1>2, <1>3, <1>5, LiveFacts DEF OpsType
<1>8. \A g \in LiveIn(tag) : tag'[g] = tag[g]
  BY <1>1, <1>4, <1>6, <1>7, LiveFacts DEF LiveIn
<1>9. BodiesAreCalls(tag', ops')
  <2> SUFFICES ASSUME NEW k \in Gids, tag'[k] = "Continuation"
               PROVE  tag'[ops'[k][1]] \in {"App", "Bottom"}
    BY DEF BodiesAreCalls
  <2>1. k # b /\ tag[k] = "Continuation"
    BY <1>5, <1>6, <1>7
  <2>2. ops[k][1] \in LiveIn(tag) /\ tag[ops[k][1]] \in {"App", "Bottom"} /\ DOMAIN ops[k] = {1, 2}
    BY <1>1, <2>1, LiveFacts DEF Calls, BodiesAreCalls
  <2>3. CASE k = c /\ i = 1
    <3>1. ops'[k][1] = b /\ tag'[b] = "App"
      BY <1>7, <2>2, <2>3
    <3> QED
      BY <3>1
  <2>4. CASE ~(k = c /\ i = 1)
    <3>1. ops'[k][1] = ops[k][1]
      BY <1>6, <1>7, <2>1, <2>2, <2>4
    <3> QED
      BY <1>8, <2>2, <3>1
  <2> QED
    BY <2>3, <2>4
<1>10. CallsHaveCallees(tag', ops')
  BY <1>1, <1>6, <1>7 DEF Calls, CallsHaveCallees
<1> QED
  BY <1>9, <1>10 DEF Calls

LEMMA JumpKeepsCalls ==
  ASSUME CallInv, NEW c \in Mutable, NEW callee \in Operands, NEW args \in Args, Jump(c, callee, args)
  PROVE  Calls(tag, ops)'
<1>1. c \in LiveIn(tag) /\ tag[c] = "Continuation" /\ "App" \in Structural
  BY DEF Mutable, Continuations, Tagged, Live, LiveIn, Structural
<1>2. args \in Seq(Gids) /\ callee \in Gids
  BY ArgsAreLive DEF Operands, Tagged, Live, CallInv
<1> DEFINE os == <<callee>> \o args
<1>3. os \in Seq(Gids) /\ 1 \in DOMAIN os
  BY <1>2
<1>4. BuildInto(c, 1, "App", os)
  BY DEF Jump
<1> HIDE DEF os
<1> QED
  BY <1>1, <1>3, <1>4, BuildIntoKeepsCalls

LEMMA SetFilterKeepsCalls ==
  ASSUME CallInv, NEW c \in Mutable, NEW conditions \in Args, SetFilter(c, conditions)
  PROVE  Calls(tag, ops)'
<1>1. c \in LiveIn(tag) /\ tag[c] = "Continuation" /\ "Filter" \in Structural
  BY DEF Mutable, Continuations, Tagged, Live, LiveIn, Structural
<1>2. conditions \in Seq(Gids) /\ BuildInto(c, 2, "Filter", conditions)
  BY ArgsAreLive DEF CallInv, SetFilter
<1> QED
  BY <1>1, <1>2, BuildIntoKeepsCalls

LEMMA DestroyKeepsCalls ==
  ASSUME CallInv, NEW c \in LiveIn(tag), tag[c] = "Continuation", Destroy(c)
  PROVE  Calls(tag, ops)'
<1>1. IInv /\ Calls(tag, ops) /\ c \in Gids /\ tag' = tag
  BY DEF CallInv, LiveIn, Destroy
<1>2. /\ ops'[c] = <<Bottom, EmptyFilter>>
      /\ \A g \in Gids \ {c} : ops'[g] = ops[g]
  BY <1>1, LiveFacts DEF Destroy, OpsType
<1>3. tag[Bottom] = "Bottom"
  BY <1>1 DEF IInv, World, Shape
<1> QED
  BY <1>1, <1>2, <1>3 DEF Calls, BodiesAreCalls, CallsHaveCallees

LEMMA AppendParamKeepsCalls ==
  ASSUME CallInv, NEW c \in LiveIn(tag), AppendParam(c)
  PROVE  Calls(tag, ops)'
<1>1. IInv /\ Calls(tag, ops)
  BY DEF CallInv
<1>2. /\ gidCounter \in Gids
      /\ tag' = [tag EXCEPT ![gidCounter] = "Param"] /\ ops' = [ops EXCEPT ![gidCounter] = <<c>>]
  BY DEF AppendParam
<1>3. /\ tag'[gidCounter] = "Param"
      /\ \A g \in Gids : g # gidCounter => tag'[g] = tag[g] /\ ops'[g] = ops[g]
  BY <1>1, <1>2, LiveFacts DEF OpsType
<1>4. \A k \in Gids : tag[k] = "Continuation" => ops[k][1] \in Gids /\ ops[k][1] # gidCounter
  BY <1>1, LiveFacts DEF LiveIn
<1> QED
  BY <1>1, <1>3, <1>4 DEF Calls, BodiesAreCalls, CallsHaveCallees

LEMMA NewContinuationKeepsCalls ==
  ASSUME CallInv, NEW n \in Nat, NewContinuation(n)
  PROVE  Calls(tag, ops)'
<1> DEFINE c   == gidCounter
           new == {c} \cup (c + 1 .. c + n)
<1>1. IInv /\ Calls(tag, ops) /\ LiveIn(tag) = 1 .. c - 1 /\ c \in 8 .. MaxGid + 1 /\ MaxGid \in Nat
  BY BoundsAssumption DEF CallInv, IInv, World, Frontier
<1>2. /\ c + n \in Gids
      /\ tag' = [g \in Gids |-> IF g \in new THEN IF g = c THEN "Continuation" ELSE "Param" ELSE tag[g]]
      /\ ops' = [g \in Gids |-> IF g \in new THEN IF g = c THEN <<Bottom, EmptyFilter>> ELSE <<c>> ELSE ops[g]]
  BY DEF NewContinuation
<1>3. \A g \in LiveIn(tag) : g \in Gids /\ g \notin new
  BY <1>1 DEF LiveIn
<1>4. c \in Gids /\ Bottom \in LiveIn(tag) /\ tag[Bottom] = "Bottom"
  BY <1>1, <1>2 DEF IInv, World, Shape, Bottom, Gids
<1> HIDE DEF c, new
<1>5. \A g \in LiveIn(tag) : tag'[g] = tag[g] /\ ops'[g] = ops[g]
  BY <1>2, <1>3
<1>6. \A g \in Gids : tag'[g] = "Continuation" =>
        (ops'[g] = <<Bottom, EmptyFilter>> \/ (g \notin new /\ tag[g] = "Continuation" /\ ops'[g] = ops[g]))
  BY <1>2
<1>7. \A k \in Gids : tag[k] = "Continuation" => ops[k][1] \in LiveIn(tag)
  BY <1>1, LiveFacts
<1>8. BodiesAreCalls(tag', ops')
  <2> SUFFICES ASSUME NEW k \in Gids, tag'[k] = "Continuation"
               PROVE  tag'[ops'[k][1]] \in {"App", "Bottom"}
    BY DEF BodiesAreCalls
  <2>1. CASE ops'[k] = <<Bottom, EmptyFilter>>
    BY <1>4, <1>5, <2>1
  <2>2. CASE tag[k] = "Continuation" /\ ops'[k] = ops[k]
    BY <1>1, <1>5, <1>7, <2>2 DEF Calls, BodiesAreCalls
  <2> QED
    BY <1>6, <2>1, <2>2
<1>9. CallsHaveCallees(tag', ops')
  BY <1>1, <1>2 DEF Calls, CallsHaveCallees
<1> QED
  BY <1>8, <1>9 DEF Calls

(* A call in place of a call, or a value in place of a value.              *)
LEMMA ReplaceUsesKeepsCalls ==
  ASSUME CallInv, NEW d \in Live, NEW with \in Live, Replaceable(d, with), ReplaceUses(d, with)
  PROVE  Calls(tag, ops)'
<1> DEFINE moved == {use \in uses[d] : tag[use[2]] # "Param"}
<1>1. IInv /\ Calls(tag, ops) /\ tag' = tag /\ d \in Gids /\ with \in Gids
  BY DEF CallInv, ReplaceUses, Live
<1>2. ops' = [u \in Gids |-> [i \in DOMAIN ops[u] |-> IF <<i, u>> \in moved THEN with ELSE ops[u][i]]]
  BY DEF ReplaceUses
<1>3. \A i \in Nat, u \in Gids : <<i, u>> \in moved => ops[u][i] = d
  BY <1>1 DEF IInv, World, PointBack
<1> HIDE DEF moved
<1>4. \A u \in Gids : DOMAIN ops'[u] = DOMAIN ops[u]
  BY <1>2
<1>5. \A u \in Gids : 1 \in DOMAIN ops[u] =>
        ops'[u][1] = ops[u][1] \/ (ops[u][1] = d /\ ops'[u][1] = with)
  BY <1>2, <1>3
<1>6. tag[d] \in {"App", "Bottom"} => tag[d] = "App" /\ tag[with] = "App"
  BY DEF Replaceable, Operands, Tagged
<1>7. BodiesAreCalls(tag', ops')
  <2> SUFFICES ASSUME NEW c \in Gids, tag[c] = "Continuation"
               PROVE  tag[ops'[c][1]] \in {"App", "Bottom"}
    BY <1>1 DEF BodiesAreCalls
  <2>1. 1 \in DOMAIN ops[c] /\ tag[ops[c][1]] \in {"App", "Bottom"}
    BY <1>1, LiveFacts DEF Calls, BodiesAreCalls
  <2> QED
    BY <1>5, <1>6, <2>1
<1>8. CallsHaveCallees(tag', ops')
  BY <1>1, <1>4 DEF Calls, CallsHaveCallees
<1> QED
  BY <1>7, <1>8 DEF Calls

(* Branch and the end of a scope have no body.                             *)
LEMMA InitiallyCalls == Init => Calls(tag, ops)
<1> SUFFICES ASSUME Init PROVE Calls(tag, ops)
  OBVIOUS
<1>1. \A g \in Gids : /\ tag[g] # "App"
                      /\ tag[g] = "Continuation" => ops[g] = <<Bottom, EmptyFilter>>
  BY DEF Init, Branch, Bottom, EmptyFilter, EndScope
<1>2. tag[Bottom] = "Bottom"
  BY BoundsAssumption DEF Init, Branch, Bottom, EmptyFilter, EndScope, Gids
<1> QED
  BY <1>1, <1>2 DEF Calls, BodiesAreCalls, CallsHaveCallees

LEMMA StepKeepsCalls == CallInv /\ [Next]_vars => CallInv'
<1> SUFFICES ASSUME CallInv, [Next]_vars PROVE CallInv'
  OBVIOUS
<1>1. IInv'
  BY StepPreserves DEF CallInv
<1>2. ASSUME NEW n \in 0 .. MaxParams, NewContinuation(n) PROVE Calls(tag, ops)'
  BY <1>2, NewContinuationKeepsCalls, BoundsAssumption
<1>3. ASSUME NEW t \in {"PrimOp", "MemOp"}, NEW os \in Args, NewPrimOp(t, os) PROVE Calls(tag, ops)'
  BY <1>3, NewPrimOpKeepsCalls
<1>4. ASSUME NEW c \in Mutable \ dead PROVE c \in Mutable /\ c \in LiveIn(tag) /\ tag[c] = "Continuation"
  BY <1>4 DEF Mutable, Continuations, Tagged, Live, LiveIn
<1>5. ASSUME NEW c \in Mutable \ dead, AppendParam(c) PROVE Calls(tag, ops)'
  BY <1>4, <1>5, AppendParamKeepsCalls
<1>6. ASSUME NEW c \in Mutable \ dead, NEW callee \in Operands, NEW args \in Args, Jump(c, callee, args)
      PROVE  Calls(tag, ops)'
  BY <1>6, JumpKeepsCalls
<1>7. ASSUME NEW c \in Mutable \ dead, NEW conditions \in Args, SetFilter(c, conditions)
      PROVE  Calls(tag, ops)'
  BY <1>7, SetFilterKeepsCalls
<1>8. ASSUME NEW c \in Mutable \ dead, Destroy(c) PROVE Calls(tag, ops)'
  BY <1>4, <1>8, DestroyKeepsCalls
<1>9. ASSUME NEW d \in Live, NEW with \in Live, Replaceable(d, with), ReplaceUses(d, with)
      PROVE  Calls(tag, ops)'
  BY <1>9, ReplaceUsesKeepsCalls
<1>10. CASE UNCHANGED vars
  BY <1>1, <1>10 DEF vars, CallInv, Calls, BodiesAreCalls, CallsHaveCallees
<1> QED
  BY <1>1, <1>2, <1>3, <1>5, <1>6, <1>7, <1>8, <1>9, <1>10 DEF Next, CallInv

(* Bodies stay calls, and calls keep a callee.                             *)
THEOREM CallInvariant == Spec => []CallInv
<1>1. Init => CallInv
  BY InitEstablishes, InitiallyCalls DEF CallInv
<1> QED
  BY <1>1, StepKeepsCalls, PTL DEF Spec

-----------------------------------------------------------------------------
(* Use lists are finite, and so is what can_be_inlined counts.             *)
LEMMA UsesFinite ==
  ASSUME IInv, NEW d \in Gids
  PROVE  IsFiniteSet(uses[d])
<1> DEFINE of(g) == (DOMAIN ops[g]) \X {g}
           all   == UNION {of(g) : g \in Gids}
<1>1. MaxGid \in Nat /\ IsFiniteSet(Gids)
  BY BoundsAssumption, FS_Interval DEF Gids
<1>2. ASSUME NEW g \in Gids PROVE IsFiniteSet(of(g))
  <2>1. ops[g] \in Seq(Gids)
    BY DEF IInv, TypeOK
  <2>2. DOMAIN ops[g] = 1 .. Len(ops[g]) /\ Len(ops[g]) \in Nat
    BY <2>1
  <2>3. IsFiniteSet(DOMAIN ops[g])
    BY <2>2, FS_Interval
  <2>4. IsFiniteSet({g})
    BY FS_Singleton
  <2> QED
    BY <2>3, <2>4, FS_Product
<1> HIDE DEF of
<1>3. IsFiniteSet({of(g) : g \in Gids})
  <2> DEFINE table == [g \in Gids |-> of(g)]
  <2>1. table \in Surjection(Gids, {of(g) : g \in Gids})
    BY DEF Surjection
  <2> HIDE DEF table
  <2> QED
    BY <1>1, <2>1, FS_Surjection
<1>4. IsFiniteSet(all)
  BY <1>2, <1>3, FS_UNION
<1>5. uses[d] \subseteq all
  <2> SUFFICES ASSUME NEW use \in uses[d] PROVE use \in all
    OBVIOUS
  <2>1. PICK i \in Nat, u \in Gids : use = <<i, u>>
    BY DEF IInv, TypeOK
  <2>2. i \in DOMAIN ops[u]
    BY <2>1 DEF IInv, World, PointBack
  <2>3. use \in of(u)
    BY <2>1, <2>2 DEF of
  <2> QED
    BY <2>3
<1> QED
  BY <1>4, <1>5, FS_Subset

(* What counts as potential calls of a definition is finite.               *)
LEMMA PotentialCallsFinite ==
  ASSUME IInv, NEW k \in Gids
  PROVE  IsFiniteSet(PotentialCalls(k))
<1> DEFINE by(use) == CASE tag[use[2]] = "App"   -> {<<use, again>> : again \in uses[use[2]]}
                        [] tag[use[2]] = "Param" -> {}
                        [] OTHER                 -> {<<use, use>>}
           within(use) == {use} \X (uses[use[2]] \cup {use})
           table == [use \in uses[k] |-> by(use)]
<1>1. ASSUME NEW use \in uses[k] PROVE IsFiniteSet(by(use))
  <2>1. use[2] \in Gids
    BY DEF IInv, TypeOK
  <2>2. IsFiniteSet(uses[use[2]]) /\ IsFiniteSet({use})
    BY <2>1, UsesFinite, FS_Singleton
  <2>3. IsFiniteSet(uses[use[2]] \cup {use})
    BY <2>2, FS_Union
  <2>4. IsFiniteSet(within(use))
    BY <2>2, <2>3, FS_Product
  <2>5. by(use) \subseteq within(use)
    OBVIOUS
  <2> HIDE DEF by, within
  <2> QED
    BY <2>4, <2>5, FS_Subset
<1>2. PotentialCalls(k) = UNION {by(use) : use \in uses[k]}
  BY DEF PotentialCalls
<1> HIDE DEF by
<1>3. IsFiniteSet({by(use) : use \in uses[k]})
  <2>1. table \in Surjection(uses[k], {by(use) : use \in uses[k]})
    BY DEF Surjection
  <2>2. IsFiniteSet(uses[k])
    BY UsesFinite
  <2> HIDE DEF table
  <2> QED
    BY <2>1, <2>2, FS_Surjection
<1> QED
  BY <1>1, <1>2, <1>3, FS_UNION

(* Every use of a body is a potential call of its callee.                  *)
LEMMA BodyUnshared == CallInv => InlinableBodyUnshared
<1> SUFFICES ASSUME CallInv, NEW c \in {k \in Continuations : HasBody(k)},
                    ops[ops[c][1]][1] \in Continuations \ {c}, CanBeInlined(ops[ops[c][1]][1])
             PROVE  uses[ops[c][1]] = {<<1, c>>}
  BY DEF InlinableBodyUnshared
<1> DEFINE body   == ops[c][1]
           callee == ops[body][1]
           calls  == PotentialCalls(callee)
<1>1. IInv /\ c \in Gids /\ tag[c] = "Continuation" /\ callee \in Gids
  BY DEF CallInv, Continuations, Tagged, Live
<1>2. body \in Gids /\ 1 \in DOMAIN ops[c] /\ tag[body] = "App" /\ 1 \in DOMAIN ops[body]
  BY <1>1, LiveFacts DEF CallInv, Calls, BodiesAreCalls, CallsHaveCallees, HasBody, LiveIn
<1>3. <<1, c>> \in uses[body] /\ <<1, body>> \in uses[callee]
  BY <1>1, <1>2 DEF IInv, World, Registered
<1>4. ASSUME NEW again \in uses[body] PROVE <<<<1, body>>, again>> \in calls
  <2>1. <<<<1, body>>, again>> \in {<<<<1, body>>, u>> : u \in uses[body]}
    BY <1>4
  <2> QED
    BY <1>2, <1>3, <2>1 DEF PotentialCalls
<1> HIDE DEF body, callee, calls
<1>5. IsFiniteSet(calls) /\ Cardinality(calls) < 2
  BY <1>1, PotentialCallsFinite DEF CanBeInlined, callee, body, calls
<1>6. ASSUME NEW again \in uses[body] PROVE again = <<1, c>>
  <2> DEFINE x == <<<<1, body>>, again>>
             y == <<<<1, body>>, <<1, c>>>>
  <2>1. x \in calls /\ y \in calls
    BY <1>3, <1>4, <1>6
  <2>2. x = y
    <3> HIDE DEF x, y
    <3>1. IsFiniteSet({x, y}) /\ Cardinality({x, y}) <= Cardinality(calls)
      BY <1>5, <2>1, FS_Subset
    <3>2. Cardinality(calls) \in Nat /\ Cardinality({x, y}) \in Nat
      BY <1>5, <3>1, FS_CardinalityType
    <3>3. IsFiniteSet({x}) /\ Cardinality({x}) = 1
      BY FS_Singleton
    <3>4. Cardinality({x} \cup {y}) = IF y \in {x} THEN Cardinality({x}) ELSE Cardinality({x}) + 1
      BY <3>3, FS_AddElement
    <3>5. {x} \cup {y} = {x, y}
      OBVIOUS
    <3> QED
      BY <1>5, <3>1, <3>2, <3>3, <3>4, <3>5
  <2> QED
    BY <2>2
<1> QED
  BY <1>3, <1>6 DEF body

(* A continuation whose callee can be inlined has its body for itself: the *)
(* assertion before the jump in Cleaner::eta_conversion.                   *)
THEOREM InlinableUnshared == Spec => []InlinableBodyUnshared
<1> QED
  BY CallInvariant, BodyUnshared, PTL

=============================================================================
