--------------------------- MODULE SeaTable_proofs ---------------------------
(***************************************************************************)
(* Value numbering on the hash table, for every number of nodes, values    *)
(* and rewrites: what a lookup misses was rewritten.                       *)
(***************************************************************************)
EXTENDS SeaTable, RobinHood_proofs

Made == 1 .. Len(value)

(* What the invariants rest on: the table is well formed under the cached  *)
(* hashes, and a node that was not rewritten has the hash of its value.    *)
TypeInv ==
  /\ value \in Seq(Values) /\ hash \in Seq(Nat) /\ Len(hash) = Len(value)
  /\ rewritten \subseteq Made
  /\ WellFormed(defs, Made, hash)

HashIsCurrent == \A n \in Made \ rewritten : hash[n] = HashOf[value[n]]

SInv == TypeInv /\ HashIsCurrent /\ TwinsWereRewritten /\ PureInsertSucceeds

(* The table as the lookup of a value sees it, with the new node at hand.  *)
LEMMA LookupSeesTable ==
  ASSUME TypeInv, NEW v \in Values
  PROVE  LET n  == Len(value) + 1
             vs == Append(value, v)
             hs == Append(hash, HashOf[v])
         IN  /\ n \in 1 .. n /\ Made \subseteq 1 .. n /\ Elems(defs) \subseteq Made
             /\ vs \in Seq(Values) /\ hs \in Seq(Nat) /\ Len(vs) = n /\ Len(hs) = n
             /\ vs[n] = v /\ hs[n] = HashOf[v]
             /\ \A m \in Made : vs[m] = value[m] /\ hs[m] = hash[m]
             /\ Hashed(1 .. n, hs) /\ WellFormed(defs, 1 .. n, hs)
<1> DEFINE n  == Len(value) + 1
           vs == Append(value, v)
           hs == Append(hash, HashOf[v])
<1>1. /\ value \in Seq(Values) /\ hash \in Seq(Nat) /\ Len(hash) = Len(value)
      /\ Len(value) \in Nat /\ HashOf[v] \in Nat
  BY HashOfAssumption DEF TypeInv
<1>2. /\ vs \in Seq(Values) /\ hs \in Seq(Nat) /\ Len(vs) = n /\ Len(hs) = n
      /\ vs[n] = v /\ hs[n] = HashOf[v]
  BY <1>1
<1>3. \A m \in Made : vs[m] = value[m] /\ hs[m] = hash[m]
  BY <1>1 DEF Made
<1>4. n \in 1 .. n /\ Made \subseteq 1 .. n /\ n \in Nat
  BY <1>1 DEF Made
<1> HIDE DEF vs, hs, n
<1>5. Hashed(1 .. n, hs)
  <2>1. \A e \in 1 .. n : hs[e] \in Nat
    BY <1>2, <1>4
  <2> QED BY <1>4, <2>1, SentinelAssumption DEF Hashed
<1>6. Sentinel \notin Made
  BY <1>1, SentinelAssumption DEF Made
<1>7. WellFormed(defs, 1 .. n, hs)
  BY <1>3, <1>4, <1>6, WellFormedGrows DEF TypeInv
<1>8. Elems(defs) \subseteq Made
  BY ElemsAreMembers DEF TypeInv, WellFormed, Table, Members, Used, NodesOf
<1> QED BY <1>2, <1>3, <1>4, <1>5, <1>7, <1>8 DEF n, vs, hs

(* A lookup finds every node of the value that is under the value's hash.  *)
LEMMA CurrentNodeIsHit ==
  ASSUME TypeInv, NEW v \in Values, NEW m \in Elems(defs), value[m] = v, hash[m] = HashOf[v]
  PROVE  Hits(v)
<1> DEFINE n  == Len(value) + 1
           vs == Append(value, v)
           hs == Append(hash, HashOf[v])
<1>1. /\ n \in 1 .. n /\ Elems(defs) \subseteq Made /\ vs[n] = v /\ hs[n] = HashOf[v]
      /\ \A k \in Made : vs[k] = value[k] /\ hs[k] = hash[k]
      /\ Hashed(1 .. n, hs) /\ WellFormed(defs, 1 .. n, hs)
  BY LookupSeesTable
<1>2. vs[m] = vs[n] /\ hs[m] = hs[n]
  BY <1>1
<1>3. Hits(v) <=> FindSlot(defs, n, hs, vs) # -1
  BY DEF Hits
<1> HIDE DEF n, vs, hs
<1> QED BY <1>1, <1>2, <1>3, FindIsComplete

-----------------------------------------------------------------------------
LEMMA InitSInv == Init => SInv
<1> SUFFICES ASSUME Init PROVE SInv
  OBVIOUS
<1>1. TypeInv
  BY EmptyTableWellFormed DEF Init, TypeInv, Made
<1>2. HashIsCurrent
  BY DEF Init, HashIsCurrent, Made
<1>3. TwinsWereRewritten /\ PureInsertSucceeds
  BY EmptyTableWellFormed DEF Init, TwinsWereRewritten, PureInsertSucceeds
<1> QED BY <1>1, <1>2, <1>3 DEF SInv

(* A new node comes in under the hash of its value.                        *)
LEMMA CseKeepsSInv ==
  ASSUME SInv, NEW v \in Values, Cse(v)
  PROVE  SInv'
<1> DEFINE n  == Len(value) + 1
           vs == Append(value, v)
           hs == Append(hash, HashOf[v])
           E  == 1 .. n
<1>1. TypeInv /\ HashIsCurrent /\ TwinsWereRewritten /\ PureInsertSucceeds
  BY DEF SInv
<1>2. /\ n \in E /\ Made \subseteq E /\ Elems(defs) \subseteq Made
      /\ vs \in Seq(Values) /\ hs \in Seq(Nat) /\ Len(vs) = n /\ Len(hs) = n
      /\ vs[n] = v /\ hs[n] = HashOf[v]
      /\ \A m \in Made : vs[m] = value[m] /\ hs[m] = hash[m]
      /\ Hashed(E, hs) /\ WellFormed(defs, E, hs)
  BY <1>1, LookupSeesTable
<1>3. /\ value' = vs /\ hash' = hs /\ rewritten' = rewritten /\ ~Hits(v)
      /\ defs' = Emplace(defs, n, hs, vs)
      /\ refused' = IF n \in Elems(defs') THEN refused ELSE refused \cup {n}
  BY DEF Cse
<1>4. E = Made \cup {n} /\ n \notin Made
  BY <1>1 DEF TypeInv, Made
<1> HIDE DEF n, vs, hs, E
<1>5. Made' = E
  BY <1>2, <1>3 DEF Made, E
<1>6. WellFormed(defs', E, hs) /\ Emplaced(defs, defs', n, hs, vs)
  BY <1>2, <1>3, EmplacePuts
<1>7. TypeInv'
  BY <1>1, <1>2, <1>3, <1>5, <1>6 DEF TypeInv
<1>8. HashIsCurrent'
  <2> SUFFICES ASSUME NEW m \in E, m \notin rewritten PROVE hs[m] = HashOf[vs[m]]
    BY <1>3, <1>5 DEF HashIsCurrent
  <2>1. CASE m = n
    BY <1>2, <2>1
  <2>2. CASE m \in Made
    BY <1>1, <1>2, <2>2 DEF HashIsCurrent
  <2> QED BY <1>4, <2>1, <2>2
(* No node of the value is under its hash, so any was rewritten.           *)
<1>9. \A m \in Elems(defs) : value[m] = v => hash[m] # HashOf[v]
  BY <1>1, <1>3, CurrentNodeIsHit
<1>10. \A m \in Elems(defs) : vs[m] = v => m \in rewritten
  BY <1>1, <1>2, <1>9 DEF HashIsCurrent
<1>11. Elems(defs') \subseteq Elems(defs) \cup {n}
  BY <1>6 DEF Emplaced
<1>12. TwinsWereRewritten'
  <2> SUFFICES ASSUME NEW k \in Elems(defs'), NEW m \in Elems(defs'), k # m, vs[k] = vs[m]
               PROVE  k \in rewritten \/ m \in rewritten
    BY <1>3 DEF TwinsWereRewritten
  <2>1. CASE k \in Elems(defs) /\ m \in Elems(defs)
    BY <1>1, <1>2, <2>1 DEF TwinsWereRewritten
  <2>2. CASE k = n
    BY <1>2, <1>10, <1>11, <2>2
  <2>3. CASE m = n
    BY <1>2, <1>10, <1>11, <2>3
  <2> QED BY <1>11, <2>1, <2>2, <2>3
<1>13. PureInsertSucceeds'
  <2> SUFFICES ASSUME rewritten = {} PROVE refused' = {}
    BY <1>3 DEF PureInsertSucceeds
  <2>1. ~\E m \in Elems(defs) : vs[m] = vs[n]
    BY <1>2, <1>10
  <2>2. n \in Elems(defs')
    BY <1>6, <2>1 DEF Emplaced
  <2> QED BY <1>1, <1>3, <2>2 DEF PureInsertSucceeds
<1> QED BY <1>7, <1>8, <1>12, <1>13 DEF SInv

(* Rewriting leaves the hashes and the table alone.                        *)
LEMMA RewriteKeepsSInv ==
  ASSUME SInv, NEW n \in Nodes, NEW v \in Values, Rewrite(n, v)
  PROVE  SInv'
<1>1. TypeInv /\ HashIsCurrent /\ TwinsWereRewritten /\ PureInsertSucceeds
  BY DEF SInv
<1>2. /\ value' = [value EXCEPT ![n] = v] /\ rewritten' = rewritten \cup {n}
      /\ defs' = defs /\ hash' = hash /\ refused' = refused
  BY DEF Rewrite
<1>3. n \in Made
  BY <1>1 DEF Nodes, TypeInv, Made
<1>4. /\ value' \in Seq(Values) /\ Len(value') = Len(value) /\ Made' = Made
      /\ \A m \in Made : m # n => value'[m] = value[m]
  BY <1>1, <1>2, <1>3 DEF TypeInv, Made
<1>5. TypeInv'
  BY <1>1, <1>2, <1>3, <1>4 DEF TypeInv
<1>6. HashIsCurrent'
  BY <1>1, <1>2, <1>4 DEF HashIsCurrent
<1>7. Elems(defs) \subseteq Made
  BY <1>1, LookupSeesTable
<1>8. TwinsWereRewritten'
  BY <1>1, <1>2, <1>4, <1>7 DEF TwinsWereRewritten
<1>9. PureInsertSucceeds'
  BY <1>2 DEF PureInsertSucceeds
<1> QED BY <1>5, <1>6, <1>8, <1>9 DEF SInv

(* The invariant is inductive.                                             *)
THEOREM AlwaysSInv == Spec => []SInv
<1>1. SInv /\ [Next]_vars => SInv'
  <2> SUFFICES ASSUME SInv, [Next]_vars PROVE SInv'
    OBVIOUS
  <2>1. ASSUME UNCHANGED vars PROVE SInv'
    BY <2>1 DEF vars, SInv, TypeInv, Made, HashIsCurrent, TwinsWereRewritten, PureInsertSucceeds
  <2> QED BY <2>1, CseKeepsSInv, RewriteKeepsSInv DEF Next
<1> QED BY <1>1, InitSInv, PTL DEF Spec

(* A node whose hash is that of its value is never missed, however the     *)
(* table has grown and whatever was rewritten around it.                   *)
THEOREM CurrentIsAlwaysFound == Spec => []CurrentIsFound
<1>1. SInv => CurrentIsFound
  <2> SUFFICES ASSUME SInv, NEW n \in Elems(defs), hash[n] = HashOf[value[n]]
               PROVE  Hits(value[n])
    BY DEF CurrentIsFound
  <2>1. TypeInv
    BY DEF SInv
  <2>2. Elems(defs) \subseteq Made
    BY ElemsAreMembers, <2>1 DEF TypeInv, WellFormed, Table, Members, Used, NodesOf
  <2>3. value[n] \in Values
    BY <2>1, <2>2 DEF TypeInv, Made
  <2> QED BY <2>1, <2>3, CurrentNodeIsHit
<1> QED BY <1>1, AlwaysSInv, PTL

(* Two nodes of one value can only come from rewriting one of them.        *)
THEOREM TwinsAreRewritten == Spec => []TwinsWereRewritten
BY AlwaysSInv, PTL DEF SInv

(* Until something is rewritten, the insertion after a miss succeeds.      *)
THEOREM PureInsertAlwaysSucceeds == Spec => []PureInsertSucceeds
BY AlwaysSInv, PTL DEF SInv

=============================================================================
