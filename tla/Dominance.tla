------------------------------ MODULE Dominance ------------------------------
(***************************************************************************)
(* DomTreeBase and DomFrontierBase (domtree.cpp, domfrontier.cpp) on a     *)
(* graph g of ControlFlow; backwards they are post-dominance and control   *)
(* dependence.                                                             *)
(***************************************************************************)
EXTENDS ControlFlow

Others(g) == Tail(g.rpo)
Trees(g)  == [Range(Others(g)) -> Range(g.rpo)]

LeastCommonAncestor(g, idom, i, j) ==
  LET common[p \in Range(g.rpo) \X Range(g.rpo)] ==
        CASE g.index[p[1]] < g.index[p[2]] -> common[<<p[1], idom[p[2]]>>]
          [] g.index[p[2]] < g.index[p[1]] -> common[<<idom[p[1]], p[2]>>]
          [] g.index[p[1]] = g.index[p[2]] -> p[1]
  IN  common[<<i, j>>]

(* That of all the nodes of a sequence, one after the other.               *)
CommonAncestor(g, idom, s) ==
  Folded([p \in Range(g.rpo) \X Range(g.rpo) |-> LeastCommonAncestor(g, idom, p[1], p[2])],
         Head(s), Tail(s))

(* Every node begins with a predecessor that is numbered before it.        *)
FirstIdoms(g) ==
  [n \in Range(Others(g)) |-> CHOOSE m \in g.preds[n] : g.index[m] < g.index[n]]

(* One round of create's fix point; nodes see those updated before them.   *)
Round(g, idom) ==
  Folded([a \in Trees(g) \X Range(Others(g)) |->
            [a[1] EXCEPT ![a[2]] = CommonAncestor(g, a[1], SetToSeq(g.preds[a[2]]))]],
         idom, Others(g))

(* Mutation: as if one round were enough.                                  *)
IdomsOfOneRound(g) == Round(g, FirstIdoms(g))

(* Rounds until nothing changes, which takes no more than there are nodes. *)
Idoms(g) ==
  LET rounds(k) == Iterated([f \in Trees(g) |-> Round(g, f)], k, FirstIdoms(g))
  IN  rounds(CHOOSE k \in 0 .. Exit : rounds(k + 1) = rounds(k))

(* From n up to, and without, stop; nothing is above the entry.            *)
Above(g, idom, n, stop) ==
  LET above[m \in Range(g.rpo)] == IF m \in {stop, g.entry} THEN {} ELSE {m} \cup above[idom[m]]
  IN  above[n]

Depth(g, idom, n) == Cardinality(Above(g, idom, n, g.entry))

(* Mutation: as if a pair were linked for the predecessors alone.          *)
FrontierOfPreds(g, idom) ==
  {e \in Range(g.rpo) \X Range(Others(g)) : e[1] \in g.preds[e[2]] /\ e[1] # idom[e[2]]}

(* The pairs of a node and one that is in its frontier.                    *)
Frontier(g, idom) ==
  {e \in Range(g.rpo) \X Range(Others(g)) :
     /\ Cardinality(g.preds[e[2]]) > 1
     /\ \E p \in g.preds[e[2]] : e[1] \in Above(g, idom, p, idom[e[2]])}

=============================================================================
