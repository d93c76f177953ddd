-------------------------- MODULE HashTable_proofs --------------------------
(***************************************************************************)
(* The hash table is a set, for every set of elements and every hash: its  *)
(* slots stay well formed, so that probing ends and finds what is there.   *)
(***************************************************************************)
EXTENDS HashTable, RobinHood_proofs

(* The inductive invariant: what the probing loops rely on.                *)
IInv == WellFormed(table, Keys, HashOf)

LEMMA KeysAreHashed == Hashed(Keys, HashOf)
BY HashOfAssumption, SentinelAssumption DEF Hashed

(* A table holds elements only.                                            *)
LEMMA HeldAreKeys ==
  ASSUME NEW t, WellFormed(t, Keys, HashOf)
  PROVE  Elems(t) \subseteq Keys
BY ElemsAreMembers DEF WellFormed, Table, Members, Used, NodesOf

(* contains answers whether the element is held.                           *)
LEMMA PresentIsHeld ==
  ASSUME NEW t, WellFormed(t, Keys, HashOf), NEW k \in Keys
  PROVE  Present(t, k) <=> k \in Elems(t)
<1>1. ASSUME Present(t, k) PROVE k \in Elems(t)
  <2> DEFINE i == FindSlot(t, k, HashOf, Same)
  <2>1. i \in Used(t.cap, t.nodes) /\ Same[t.nodes[i]] = Same[k]
    BY <1>1, KeysAreHashed, FindIsSound DEF Present
  <2> HIDE DEF i
  <2>2. t.nodes[i] \in Elems(t)
    BY <2>1, ElemsAreMembers DEF Members
  <2>3. t.nodes[i] \in Keys
    BY <2>2, HeldAreKeys
  <2> QED BY <2>1, <2>2, <2>3 DEF Same
<1>2. ASSUME k \in Elems(t) PROVE Present(t, k)
  BY <1>2, KeysAreHashed, FindIsComplete DEF Present
<1> QED BY <1>1, <1>2

(* emplace on the keys themselves.                                         *)
LEMMA EmplaceAdds ==
  ASSUME NEW t, WellFormed(t, Keys, HashOf), NEW k \in Keys
  PROVE  LET u == Emplace(t, k, HashOf, Same)
         IN  /\ WellFormed(u, Keys, HashOf) /\ Elems(u) = Elems(t) \cup {k}
             /\ u.size # t.size <=> k \notin Elems(t)
<1> DEFINE u == Emplace(t, k, HashOf, Same)
<1>1. WellFormed(u, Keys, HashOf) /\ Emplaced(t, u, k, HashOf, Same)
  BY KeysAreHashed, EmplacePuts
<1> HIDE DEF u
<1>2. t.size \in Nat /\ Elems(t) \subseteq Keys
  BY HeldAreKeys DEF WellFormed, Table
<1>3. CASE /\ Elems(u) = Elems(t) /\ u.size = t.size
           /\ \E m \in Elems(t) : Same[m] = Same[k]
  BY <1>1, <1>2, <1>3 DEF Same, u
<1>4. CASE Elems(u) = Elems(t) \cup {k} /\ u.size = t.size + 1 /\ k \notin Elems(t)
  BY <1>1, <1>2, <1>4 DEF u
<1> QED BY <1>1, <1>3, <1>4 DEF Emplaced

(* insert of a range of two.                                               *)
LEMMA InsertAdds ==
  ASSUME NEW t, WellFormed(t, Keys, HashOf), NEW j \in Keys, NEW k \in Keys
  PROVE  LET ks == <<j, k>>
             u == EmplaceRange(t, ks, HashOf, Same)
             added == {ks[i] : i \in DOMAIN ks}
         IN  /\ WellFormed(u, Keys, HashOf) /\ Elems(u) = Elems(t) \cup added
             /\ u.size # t.size <=> ~(added \subseteq Elems(t))
<1> DEFINE ks == <<j, k>>
           u == EmplaceRange(t, ks, HashOf, Same)
           added == {ks[i] : i \in DOMAIN ks}
<1>1. ks \in Seq(Keys)
  OBVIOUS
<1>2. \A i \in DOMAIN ks : ks[i] \in Keys
  OBVIOUS
<1> HIDE DEF ks
<1>3. /\ WellFormed(u, Keys, HashOf) /\ (u.size = t.size <=> Elems(u) = Elems(t))
      /\ Elems(t) \subseteq Elems(u)
      /\ Elems(u) \subseteq Elems(t) \cup added
      /\ \A i \in DOMAIN ks : \E m \in Elems(u) : Same[m] = Same[ks[i]]
  BY <1>1, KeysAreHashed, EmplaceRangePuts
<1> HIDE DEF u
<1>4. \A i \in DOMAIN ks : ks[i] \in Elems(u)
  BY <1>2, <1>3, HeldAreKeys DEF Same
<1>5. Elems(u) = Elems(t) \cup added
  BY <1>3, <1>4
<1> QED BY <1>3, <1>5 DEF u, ks

(* erase on the keys themselves.                                           *)
LEMMA EraseRemoves ==
  ASSUME NEW t, WellFormed(t, Keys, HashOf), NEW k \in Keys
  PROVE  LET u == Erase(t, k, HashOf, Same)
         IN  WellFormed(u, Keys, HashOf) /\ Elems(u) = Elems(t) \ {k}
<1> DEFINE u == Erase(t, k, HashOf, Same)
<1>1. WellFormed(u, Keys, HashOf) /\ Removed(t, u, k, HashOf, Same)
  BY KeysAreHashed, ErasePuts
<1> HIDE DEF u
<1>2. \A m \in Elems(t) : Same[m] = Same[k] => m = k
  BY HeldAreKeys DEF Same
<1>3. CASE u = t /\ \A m \in Elems(t) : ~(Same[m] = Same[k] /\ HashOf[m] = HashOf[k])
  BY <1>1, <1>3 DEF u
<1>4. CASE \E m \in Elems(t) : Same[m] = Same[k] /\ Elems(u) = Elems(t) \ {m}
  BY <1>1, <1>2, <1>4 DEF u
<1> QED BY <1>1, <1>3, <1>4 DEF Removed

-----------------------------------------------------------------------------
LEMMA InitWellFormed == Init => IInv
BY EmptyTableWellFormed DEF Init, IInv

(* Each operation leaves a well-formed table and acts as on a set.         *)
LEMMA StepIsASetStep ==
  IInv /\ [Next]_vars => IInv' /\ [ASet!Next]_<<Elems(table), answer>>
<1> SUFFICES ASSUME IInv, [Next]_vars
             PROVE  IInv' /\ [ASet!Next]_<<Elems(table), answer>>
  OBVIOUS
<1>1. WellFormed(table, Keys, HashOf)
  BY DEF IInv
<1>2. ASSUME NEW k \in Keys, DoEmplace(k) PROVE IInv' /\ ASet!Emplace(k)
  <2>1. /\ IInv' /\ Elems(table)' = Elems(table) \cup {k}
        /\ table'.size # table.size <=> k \notin Elems(table)
    BY <1>1, <1>2, EmplaceAdds DEF DoEmplace, IInv
  <2>2. answer' = <<"emplace", k, k \notin Elems(table)>>
    BY <1>2, <2>1 DEF DoEmplace
  <2> QED BY <2>1, <2>2 DEF ASet!Emplace
<1>3. ASSUME NEW k \in Keys, DoErase(k) PROVE IInv' /\ ASet!Erase(k)
  <2>1. IInv' /\ Elems(table)' = Elems(table) \ {k}
    BY <1>1, <1>3, EraseRemoves DEF DoErase, IInv
  <2>2. answer' = <<"erase", k, k \in Elems(table)>>
    <3>1. Present(table, k) = (k \in Elems(table))
      BY <1>1, PresentIsHeld DEF Present
    <3> QED BY <1>3, <3>1 DEF DoErase
  <2> QED BY <2>1, <2>2 DEF ASet!Erase
<1>4. ASSUME NEW k \in Keys, DoFind(k) PROVE IInv' /\ ASet!Find(k)
  <2>1. IInv' /\ Elems(table)' = Elems(table)
    BY <1>1, <1>4 DEF DoFind, IInv
  <2>2. answer' = <<"find", k, k \in Elems(table)>>
    <3>1. Present(table, k) = (k \in Elems(table))
      BY <1>1, PresentIsHeld DEF Present
    <3> QED BY <1>4, <3>1 DEF DoFind
  <2> QED BY <2>1, <2>2 DEF ASet!Find
<1>5. ASSUME NEW j \in Keys, NEW k \in Keys, DoInsert(<<j, k>>)
      PROVE  IInv' /\ ASet!Insert(<<j, k>>)
  <2> DEFINE ks == <<j, k>>
             added == {ks[i] : i \in DOMAIN ks}
  <2>1. /\ table' = EmplaceRange(table, ks, HashOf, Same)
        /\ answer' = <<"insert", added, table'.size # table.size>>
    BY <1>5 DEF DoInsert
  <2>2. /\ IInv' /\ Elems(table)' = Elems(table) \cup added
        /\ table'.size # table.size <=> ~(added \subseteq Elems(table))
    BY <1>1, <2>1, InsertAdds DEF IInv
  <2>3. answer' = <<"insert", added, ~(added \subseteq Elems(table))>>
    BY <2>1, <2>2
  <2> QED BY <2>2, <2>3 DEF ASet!Insert
<1>6. ASSUME DoClear PROVE IInv' /\ ASet!Clear
  BY <1>6, EmptyTableWellFormed DEF DoClear, IInv, ASet!Clear
<1>7. ASSUME UNCHANGED vars PROVE IInv' /\ UNCHANGED <<Elems(table), answer>>
  BY <1>1, <1>7 DEF vars, IInv
<1> QED BY <1>2, <1>3, <1>4, <1>5, <1>6, <1>7 DEF Next, ASet!Next

(* The table is well formed in every reachable state.                      *)
THEOREM AlwaysWellFormed == Spec => []IInv
<1>1. IInv /\ [Next]_vars => IInv'
  BY StepIsASetStep
<1> QED BY <1>1, InitWellFormed, PTL DEF Spec

(* The slots hold what size_ counts, in a power of two of slots, for every *)
(* set of elements and hash (HashTable::TypeOK).                           *)
THEOREM TableTypeOK == Spec => []TypeOK
<1>1. IInv => TypeOK
  BY DEF IInv, WellFormed, Table, TypeOK, NodesOf, Used, Slots
<1> QED BY <1>1, AlwaysWellFormed, PTL

(* The probing loops of find and emplace end: a table on the heap has a    *)
(* free slot.                                                              *)
THEOREM ProbingAlwaysEnds == Spec => []ProbingEnds
<1>1. IInv => ProbingEnds
  BY DEF IInv, WellFormed, ProbingEnds
<1> QED BY <1>1, AlwaysWellFormed, PTL

(* Emplacing, growing, shrinking and erasing keep the Robin Hood order.    *)
THEOREM RobinHoodOrderKept == Spec => []RobinHoodOrder
<1>1. IInv => RobinHoodOrder
  BY DEF IInv, WellFormed, RobinHoodOrder, Ordered, Used, Slots
<1> QED BY <1>1, AlwaysWellFormed, PTL

(* Every operation of HashSet acts and answers as on a set, for every set  *)
(* of elements, every hash and every inline capacity.                      *)
THEOREM HashTableImplementsSet == Spec => ImplementsSet
<1>1. Init => ASet!Init
  BY EmptyTableWellFormed DEF Init, ASet!Init
<1>2. IInv /\ [Next]_vars => [ASet!Next]_<<Elems(table), answer>>
  BY StepIsASetStep
<1> QED BY <1>1, <1>2, AlwaysWellFormed, PTL DEF Spec, ImplementsSet, ASet!Spec

=============================================================================
