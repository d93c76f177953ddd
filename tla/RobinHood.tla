------------------------------ MODULE RobinHood ------------------------------
(***************************************************************************)
(* The algorithms of detail::HashTable (util/hash.h), the open-addressing  *)
(* Robin Hood table behind every HashSet and HashMap.                      *)
(*                                                                         *)
(* A table is a record [cap, size, nodes]; nodes maps the slots 0..cap-1   *)
(* to elements or to Sentinel.  A table of capacity StackCapacity is the   *)
(* inline array_, kept packed and searched linearly; any other lives on    *)
(* the heap.  hash[e] is H::hash of e, and H::eq(a, b) is key[a] = key[b]. *)
(***************************************************************************)
EXTENDS Integers, Sequences

CONSTANTS
  StackCapacity,   (* capacity of the inline array                        *)
  Sentinel         (* H::sentinel(), the content of a free slot           *)

ASSUME StackCapacityAssumption == StackCapacity \in {1, 2, 4, 8}

MinHeapCapacity == 4 * StackCapacity

Larger(a, b) == IF a > b THEN a ELSE b
Least(S)     == CHOOSE x \in S : \A y \in S : x <= y

(* is_power_of_2: no odd divisor but 1.                                    *)
IsPowerOfTwo(c) == c > 0 /\ \A k, q \in 1 .. c : c # (2 * k + 1) * q

Slots(t)  == 0 .. t.cap - 1
OnHeap(t) == t.cap # StackCapacity
Elems(t)  == {t.nodes[i] : i \in Slots(t)} \ {Sentinel}
Sentinels(cap) == [i \in 0 .. cap - 1 |-> Sentinel]
EmptyTable == [cap |-> StackCapacity, size |-> 0, nodes |-> Sentinels(StackCapacity)]

(* mod(i), which the code computes as i & (capacity_ - 1).                 *)
Mod(cap, i) == i % cap

DesiredPos(cap, e, hash) == Mod(cap, hash[e])
ProbeDistance(cap, nodes, i, hash) == Mod(cap, i + cap - DesiredPos(cap, nodes[i], hash))

(* The slot the loops of find and emplace look at in step d.               *)
ProbeSlot(cap, e, d, hash) == Mod(cap, DesiredPos(cap, e, hash) + d)

-----------------------------------------------------------------------------
(* Mutation: find looks at the desired slot only.                          *)
FindAtDesired(t, e, hash, key) ==
  LET i == DesiredPos(t.cap, e, hash)
  IN  IF t.nodes[i] # Sentinel /\ key[t.nodes[i]] = key[e] THEN i ELSE -1

(* find: the slot of an element equal to e, or -1 for end().  On the heap  *)
(* probing stops at the first slot that is free or holds an equal element. *)
FindSlot(t, e, hash, key) ==
  LET slot(d) == ProbeSlot(t.cap, e, d, hash)
      hits(i) == t.nodes[i] # Sentinel /\ key[t.nodes[i]] = key[e]
      stops   == {d \in Slots(t) : t.nodes[slot(d)] = Sentinel \/ hits(slot(d))}
      packed  == {i \in 0 .. t.size - 1 : hits(i)}
  IN  CASE OnHeap(t) /\ t.size > 0 /\ hits(slot(Least(stops))) -> slot(Least(stops))
        [] ~OnHeap(t) /\ packed # {} -> Least(packed)
        [] OTHER -> -1

(* The displacement loop from probe step first to gap, the first free one. *)
(* Hand gives what it holds at each step and how far that is from its      *)
(* desired slot: an element nearer to its desired slot makes room and is   *)
(* carried further on.                                                     *)
Hand(cap, nodes, n, first, gap, hash) ==
  LET slot(d) == ProbeSlot(cap, n, d, hash)
      dist(d) == ProbeDistance(cap, nodes, slot(d), hash)
      hand[d \in first .. gap] ==
        IF d = first THEN <<n, first>>
        ELSE LET held == hand[d - 1]
             IN  IF dist(d - 1) < held[2] THEN <<nodes[slot(d - 1)], dist(d - 1) + 1>>
                 ELSE <<held[1], held[2] + 1>>
  IN  hand

Displace(cap, nodes, n, first, hash) ==
  LET slot(d) == ProbeSlot(cap, n, d, hash)
      gap     == Least({d \in first .. cap - 1 : nodes[slot(d)] = Sentinel})
      hand    == Hand(cap, nodes, n, first, gap, hash)
      put(d)  == IF d = gap \/ ProbeDistance(cap, nodes, slot(d), hash) < hand[d][2]
                 THEN hand[d][1] ELSE nodes[slot(d)]
  IN  [i \in 0 .. cap - 1 |->
         LET d == Mod(cap, i + cap - DesiredPos(cap, n, hash))
         IN  IF d \in first .. gap THEN put(d) ELSE nodes[i]]

(* Mutation: the elements keep their slots in the larger table.            *)
RehashInPlace(t, capacity, hash) ==
  LET cap == Larger(capacity, MinHeapCapacity)
  IN  [t EXCEPT !.cap = cap,
                !.nodes = [i \in 0 .. cap - 1 |-> IF i < t.cap THEN t.nodes[i] ELSE Sentinel]]

(* rehash: the old slots in order, each element placed without comparing.  *)
Rehash(t, capacity, hash) ==
  LET cap == Larger(capacity, MinHeapCapacity)
      placed[i \in 0 .. t.cap] ==
        IF i = 0 THEN Sentinels(cap)
        ELSE IF t.nodes[i - 1] = Sentinel THEN placed[i - 1]
        ELSE Displace(cap, placed[i - 1], t.nodes[i - 1], 0, hash)
  IN  [t EXCEPT !.cap = cap, !.nodes = placed[t.cap]]

(* emplace_no_rehash: compare until a slot is free or its element gives    *)
(* way; from there on only displace.                                       *)
EmplaceNoRehash(t, e, hash, key) ==
  LET slot(d)  == ProbeSlot(t.cap, e, d, hash)
      free(i)  == t.nodes[i] = Sentinel
      equal(i) == ~free(i) /\ key[t.nodes[i]] = key[e]
      stops    == {d \in Slots(t) : \/ free(slot(d)) \/ equal(slot(d))
                                    \/ ProbeDistance(t.cap, t.nodes, slot(d), hash) < d}
      d        == Least(stops)
  IN  IF equal(slot(d)) THEN t
      ELSE [t EXCEPT !.size = @ + 1, !.nodes = Displace(t.cap, @, e, d, hash)]

ArrayEmplace(t, e, hash, key) ==
  IF FindSlot(t, e, hash, key) # -1 THEN t
  ELSE [t EXCEPT !.size = @ + 1, !.nodes[t.size] = e]

(* Mutation: the table may fill up before it grows.                        *)
EmplaceWhenFull(t, e, hash, key) ==
  CASE ~OnHeap(t) /\ t.size < t.cap -> ArrayEmplace(t, e, hash, key)
    [] OnHeap(t)  /\ t.size < t.cap -> EmplaceNoRehash(t, e, hash, key)
    [] OTHER -> EmplaceNoRehash(Rehash(t, 4 * t.cap, hash), e, hash, key)

(* emplace: a full array and a table at 3/4 of its capacity grow first.    *)
Emplace(t, e, hash, key) ==
  IF ~OnHeap(t) /\ t.size < t.cap THEN ArrayEmplace(t, e, hash, key)
  ELSE EmplaceNoRehash(IF t.size >= t.cap \div 4 + t.cap \div 2
                       THEN Rehash(t, 4 * t.cap, hash) ELSE t, e, hash, key)

(* insert(begin, end): room for the whole range first, then each element.  *)
EmplaceRange(t, es, hash, key) ==
  LET s       == t.size + Len(es)
      pow     == IF s = 0 THEN 0 ELSE Least({c \in s .. 2 * s : IsPowerOfTwo(c)})
      wanted  == Larger(IF s > pow \div 4 + pow \div 2 THEN 4 * pow ELSE pow, t.cap)
      roomy   == IF wanted # t.cap THEN Rehash(t, wanted, hash) ELSE t
      put(u, e) == IF OnHeap(roomy) THEN EmplaceNoRehash(u, e, hash, key)
                   ELSE ArrayEmplace(u, e, hash, key)
      after[i \in 0 .. Len(es)] == IF i = 0 THEN roomy ELSE put(after[i - 1], es[i])
  IN  after[Len(es)]

(* Mutation: the erased slot is freed but the elements after it stay.      *)
HeapEraseNoShift(t, pos, hash) == [t EXCEPT !.size = @ - 1, !.nodes[pos] = Sentinel]

(* erase on the heap: a sparse table shrinks, otherwise the elements after *)
(* pos move back one slot up to one that is free or at its desired slot.   *)
HeapErase(t, pos, hash) ==
  LET freed   == [t EXCEPT !.size = @ - 1, !.nodes[pos] = Sentinel]
      slot(d) == Mod(t.cap, pos + d)
      stays(i) == freed.nodes[i] = Sentinel \/ ProbeDistance(t.cap, freed.nodes, i, hash) = 0
      last    == Least({d \in 1 .. t.cap : stays(slot(d))}) - 1
      shifted == [i \in Slots(t) |->
                    LET d == Mod(t.cap, i + t.cap - pos)
                    IN  CASE d < last -> freed.nodes[slot(d + 1)]
                          [] d = last -> Sentinel
                          [] OTHER    -> freed.nodes[i]]
  IN  IF t.cap > MinHeapCapacity /\ freed.size < t.cap \div 8
      THEN Rehash(freed, t.cap \div 4, hash)
      ELSE [freed EXCEPT !.nodes = shifted]

(* Mutation: the last element of the array is not cleared.                 *)
ArrayEraseLeavingLast(t, pos) ==
  [t EXCEPT !.size = @ - 1,
            !.nodes = [i \in Slots(t) |-> IF i < t.size - 1 /\ i >= pos THEN t.nodes[i + 1]
                                          ELSE t.nodes[i]]]

(* array_erase: the elements behind pos move up.                           *)
ArrayErase(t, pos) ==
  [t EXCEPT !.size = @ - 1,
            !.nodes = [i \in Slots(t) |-> IF i >= t.size - 1 THEN Sentinel
                                          ELSE IF i >= pos THEN t.nodes[i + 1] ELSE t.nodes[i]]]

Erase(t, e, hash, key) ==
  LET pos == FindSlot(t, e, hash, key)
  IN  CASE pos = -1 -> t
        [] pos # -1 /\ OnHeap(t)  -> HeapErase(t, pos, hash)
        [] pos # -1 /\ ~OnHeap(t) -> ArrayErase(t, pos)

=============================================================================
