------------------------------ MODULE Placement ------------------------------
(***************************************************************************)
(* Scheduler (schedule.cpp) and the place be/emitter.h gives a definition: *)
(* p has the forward graph g, its idom and leaves, and for every           *)
(* definition its operands (a block stands for its parameter) and users    *)
(* (a block stands for its body).                                          *)
(***************************************************************************)
EXTENDS Dominance

CONSTANT NumDefs       (* bound: definitions to be placed                  *)

ASSUME NumDefsAssumption == NumDefs \in Nat

Defs == Exit + 1 .. Exit + NumDefs

(* No parameter in it, not even through others.                            *)
NoDep(p, def) ==
  LET noDep[d \in DOMAIN p.operands] ==
        \A op \in Range(p.operands[d]) : op \notin Blocks /\ noDep[op]
  IN  noDep[def]

Deepest(p, blocks) ==
  CHOOSE b \in blocks : \A c \in blocks : Depth(p.g, p.idom, c) <= Depth(p.g, p.idom, b)

(* Mutation: as if only the parameters among the operands counted.         *)
EarlyOfParams(p, def) == Deepest(p, {Entry} \cup (Range(p.operands[def]) \cap Blocks))

(* Scope::contains decides what counts as an operand.  Of two blocks that  *)
(* are as deep the first is taken; where all of them dominate the uses they*)
(* are one block.                                                          *)
Early(p, def) ==
  LET early[d \in DOMAIN p.operands] ==
        LET at(op) == IF op \in Blocks THEN op ELSE early[op]
        IN  Deepest(p, {Entry} \cup {at(op) : op \in {o \in Range(p.operands[d]) : o \in Blocks \/ ~NoDep(p, o)}})
  IN  early[def]

Late(p, def) ==
  LET late[d \in DOMAIN p.users] ==
        LET uses == SetToSeq(p.users[d])
        IN  CommonAncestor(p.g, p.idom,
                           [i \in DOMAIN uses |-> IF uses[i] \in Blocks THEN uses[i] ELSE late[uses[i]]])
  IN  late[def]

(* Up the dominator tree from late to early, as long as it leaves loops;   *)
(* should the entry be met first, it is late.                              *)
Hoist(p, late, early) ==
  LET shallower(up, best) == IF p.leaves[up].depth < p.leaves[best].depth THEN up ELSE best
      best[a \in Range(p.g.rpo) \X Range(p.g.rpo)] ==
        IF a[1] \in {early, p.g.entry} THEN (IF a[1] = early THEN a[2] ELSE late)
        ELSE LET up == p.idom[a[1]] IN best[<<up, shallower(up, a[2])>>]
  IN  best[<<late, late>>]

Smart(p, def) == Hoist(p, Late(p, def), Early(p, def))

(* Mutation: as if every definition were emitted where it is first used.   *)
PlaceLate(p, def) == Late(p, def)

(* Emitter::emit_.                                                         *)
Place(p, def) == IF NoDep(p, def) THEN Entry ELSE Smart(p, def)

=============================================================================
