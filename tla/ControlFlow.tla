----------------------------- MODULE ControlFlow -----------------------------
(***************************************************************************)
(* CFA and CFG (cfg.cpp): the control flow graph of a scope, in which every*)
(* node is made to reach the exit, seen forwards or backwards and numbered *)
(* in reverse post-order.  Sets of nodes are hash tables in the code: they *)
(* are visited in any order, here that of CHOOSE.                          *)
(***************************************************************************)
EXTENDS Integers, SequencesExt

CONSTANT MaxBlocks     (* bound: continuations in a scope                  *)

ASSUME MaxBlocksAssumption == MaxBlocks \in Nat \ {0}

Blocks == 1 .. MaxBlocks
Entry  == 1
Exit   == MaxBlocks + 1          (* Scope::exit                            *)
Nodes  == Blocks \cup {Exit}

(* A loop: the step taken n times, or for the elements of s one by one.    *)
Iterated(step, n, start) ==
  LET after[k \in 0 .. n] == IF k = 0 THEN start ELSE step[after[k - 1]]
  IN  after[n]
Folded(step, start, s) ==
  LET after[k \in 0 .. Len(s)] == IF k = 0 THEN start ELSE step[<<after[k - 1], s[k]>>]
  IN  after[Len(s)]

(* The nodes of S and those reached from them.                             *)
Closure(next, S) ==
  LET reached[k \in 0 .. Exit] ==
        IF k = 0 THEN S
        ELSE LET before == reached[k - 1] IN before \cup UNION {next[n] : n \in before}
  IN  reached[Exit]

Preds(succs) == [n \in DOMAIN succs |-> {m \in DOMAIN succs : n \in succs[m]}]

-----------------------------------------------------------------------------
(* CFA::CFA: nodes for what the entry's jumps lead to, and for the exit.   *)
Linked(jumps) ==
  [n \in Closure(jumps, {Entry}) \cup {Exit} |-> IF n = Exit THEN {} ELSE jumps[n]]

(* CFA::link_to_exit: what of its depth-first search is still to do.  It   *)
(* pushes what a node leads to, and when that was done, comes back to it.  *)
Links(nodes) ==
  [stack : Seq(nodes), seen : SUBSET nodes, reaching : SUBSET nodes, succs : [nodes -> SUBSET nodes]]

LinkNext(w) ==
  LET n   == Last(w.stack)
      new == w.succs[n] \ w.seen
      linked == [w EXCEPT !.reaching = @ \cup Closure(Preds(w.succs), {n}),
                          !.succs[n] = @ \cup {Exit}]
  IN  CASE w.stack = << >> -> w
        [] w.stack # << >> /\ new # {} -> [w EXCEPT !.stack = @ \o SetToSeq(new), !.seen = @ \cup new]
        [] w.stack # << >> /\ new = {} ->
             [(IF n \in w.reaching THEN w ELSE linked) EXCEPT !.stack = Front(@)]

(* Mutation: as if the search for endless loops were left out.             *)
LinkEndsOnly(succs) ==
  [n \in DOMAIN succs |-> IF succs[n] = {} /\ n # Exit THEN {Exit} ELSE succs[n]]

LinkToExit(succs) ==
  LET ends == [n \in DOMAIN succs |-> IF succs[n] = {} /\ n # Exit THEN {Exit} ELSE succs[n]]
      start == [stack |-> <<Entry>>, seen |-> {Entry}, succs |-> ends,
                reaching |-> Closure(Preds(ends), {Exit})]
  IN  Iterated([w \in Links(DOMAIN succs) |-> LinkNext(w)], 2 * Exit, start).succs

-----------------------------------------------------------------------------
(* CFG::post_order_visit, with the stack of its calls: numbers are given   *)
(* downwards when a call returns, so what is visited last comes first.     *)
Visits == [stack : Seq(Nodes), seen : SUBSET Nodes, rpo : Seq(Nodes)]

VisitNext(succs, v) ==
  LET n   == Last(v.stack)
      new == succs[n] \ v.seen
      m   == CHOOSE s \in new : TRUE
  IN  CASE v.stack = << >> -> v
        [] v.stack # << >> /\ new # {} -> [v EXCEPT !.stack = Append(@, m), !.seen = @ \cup {m}]
        [] v.stack # << >> /\ new = {} -> [v EXCEPT !.stack = Front(@), !.rpo = <<n>> \o @]

PostOrderVisit(succs, entry) ==
  Iterated([v \in Visits |-> VisitNext(succs, v)], 2 * Exit,
           [stack |-> <<entry>>, seen |-> {entry}, rpo |-> << >>]).rpo

CFG(cfa, forward) ==
  LET succs == IF forward THEN cfa ELSE Preds(cfa)
      entry == IF forward THEN Entry ELSE Exit
      rpo   == PostOrderVisit(succs, entry)
  IN  [entry |-> entry, succs |-> succs, preds |-> Preds(succs), rpo |-> rpo,
       index |-> [n \in Range(rpo) |-> CHOOSE i \in DOMAIN rpo : rpo[i] = n]]

=============================================================================
