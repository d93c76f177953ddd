------------------------------ MODULE HashTable ------------------------------
(***************************************************************************)
(* A HashSet in use: each public operation as a step, shown to be a step   *)
(* of the abstract set.                                                    *)
(***************************************************************************)
EXTENDS RobinHood, FiniteSets

CONSTANTS
  Keys,     (* the elements                                               *)
  HashOf    (* H::hash of each                                            *)

ASSUME HashOfAssumption == HashOf \in [Keys -> Nat]
ASSUME SentinelAssumption == Sentinel \notin Keys

VARIABLES
  table,    (* capacity_, size_ and the slots of nodes_                   *)
  answer    (* history: the last call and what it returned                *)

vars == <<table, answer>>

Same == [k \in Keys |-> k]      (* H::eq is identity                       *)

Present(t, k) == FindSlot(t, k, HashOf, Same) # -1

Init == table = EmptyTable /\ answer = << >>

DoEmplace(k) ==
  /\ table' = Emplace(table, k, HashOf, Same)
  /\ answer' = <<"emplace", k, table'.size # table.size>>

DoInsert(ks) ==
  /\ table' = EmplaceRange(table, ks, HashOf, Same)
  /\ answer' = <<"insert", {ks[i] : i \in DOMAIN ks}, table'.size # table.size>>

DoErase(k) ==
  /\ table' = Erase(table, k, HashOf, Same)
  /\ answer' = <<"erase", k, Present(table, k)>>

DoFind(k) ==
  /\ answer' = <<"find", k, Present(table, k)>>
  /\ UNCHANGED table

DoClear ==
  /\ table' = EmptyTable
  /\ answer' = <<"clear">>

Next ==
  \/ \E k \in Keys : DoEmplace(k) \/ DoErase(k) \/ DoFind(k)
  \/ \E j, k \in Keys : DoInsert(<<j, k>>)
  \/ DoClear

Spec == Init /\ [][Next]_vars

-----------------------------------------------------------------------------
(* The slots hold what size_ counts, in a power of two of slots.           *)
TypeOK ==
  /\ table.cap \in Nat /\ IsPowerOfTwo(table.cap)
  /\ table.nodes \in [Slots(table) -> Keys \cup {Sentinel}]
  /\ table.size = Cardinality({i \in Slots(table) : table.nodes[i] # Sentinel})

(* The probing loops of find and emplace end: a table on the heap always   *)
(* has a free slot.                                                        *)
ProbingEnds == OnHeap(table) => table.size < table.cap

(* Robin Hood order: an element away from its desired slot follows one at  *)
(* least as far away but for one step.  find and emplace rely on it when   *)
(* they stop at the first free slot.                                       *)
RobinHoodOrder ==
  OnHeap(table) =>
    \A i \in Slots(table) :
      LET prev == Mod(table.cap, i + table.cap - 1)
          dist(j) == ProbeDistance(table.cap, table.nodes, j, HashOf)
      IN  table.nodes[i] # Sentinel /\ dist(i) > 0 =>
            table.nodes[prev] # Sentinel /\ dist(prev) >= dist(i) - 1

(* Every operation acts and answers as on a set.                           *)
ASet == INSTANCE AbstractSet WITH Keys <- Keys, set <- Elems(table), answer <- answer
ImplementsSet == ASet!Spec

=============================================================================
