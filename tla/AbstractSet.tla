----------------------------- MODULE AbstractSet -----------------------------
(***************************************************************************)
(* What HashSet promises: a finite set with insertion, lookup and removal, *)
(* "for the most part compatible with std::unordered_set".  answer is what *)
(* the last call returned.                                                 *)
(***************************************************************************)
EXTENDS Integers, Sequences, FiniteSets

CONSTANT Keys

VARIABLES set, answer

Init == set = {} /\ answer = << >>

Emplace(k) == answer' = <<"emplace", k, k \notin set>> /\ set' = set \cup {k}
Erase(k)   == answer' = <<"erase", k, k \in set>> /\ set' = set \ {k}
Find(k)    == answer' = <<"find", k, k \in set>> /\ UNCHANGED set
Clear      == answer' = <<"clear">> /\ set' = {}

Insert(ks) ==
  LET added == {ks[i] : i \in DOMAIN ks}
  IN  answer' = <<"insert", added, ~(added \subseteq set)>> /\ set' = set \cup added

Next ==
  \/ \E k \in Keys : Emplace(k) \/ Erase(k) \/ Find(k)
  \/ \E j, k \in Keys : Insert(<<j, k>>)
  \/ Clear

Spec == Init /\ [][Next]_<<set, answer>>

=============================================================================
