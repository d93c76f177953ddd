-------------------------------- MODULE Loops --------------------------------
(***************************************************************************)
(* LoopTreeBuilder (looptree.cpp): Tarjan's components, nested by ignoring *)
(* the edges to the heads of the components found before (Steensgaard).    *)
(***************************************************************************)
EXTENDS ControlFlow

Least(a, b) == IF a < b THEN a ELSE b

(* The edges walk_scc follows: others are back edges to marked heads.      *)
Open(g, marked) == [n \in DOMAIN g.succs |-> g.succs[n] \ marked]

(* The nodes a component is entered at become its heads.                   *)
Entered(g, scc) == {n \in scc : n = g.entry \/ g.preds[n] \ scc # {}}

(* A component is a Leaf if it is a node without a loop, else a Head.      *)
Single(e, scc, n) == scc = {n} /\ n \notin e[n]

(* What a walk from one node changes: set_, the calls of walk_scc that have*)
(* not returned, stack_, the numbers and low links, the edges not looked at*)
(* yet and the children of the parent.  Nodes are called and pushed in the *)
(* order of their numbers, so calls and stack_ are sets.                   *)
Children == [leaf : BOOLEAN, cf_nodes : SUBSET Nodes]
Walks == [set : SUBSET Nodes, calls : SUBSET Nodes, stack : SUBSET Nodes, dfs : [Nodes -> Nat],
          low : [Nodes -> Nat], todo : SUBSET (Nodes \X Nodes), children : SUBSET Children]

Visit(w, n) ==
  LET number == Cardinality(w.set)
  IN  [w EXCEPT !.set = @ \cup {n}, !.calls = @ \cup {n}, !.stack = @ \cup {n},
                !.dfs[n] = number, !.low[n] = number]

LastOf(w, S) == CHOOSE n \in S : \A m \in S : w.dfs[m] <= w.dfs[n]

(* Mutation: as if only the root of the component were a head.             *)
TakeRootOnly(g, e, w, cur) ==
  LET scc == {n \in w.stack : w.dfs[n] >= w.dfs[cur]}
  IN  [w EXCEPT !.stack = @ \ scc, !.children = @ \cup {[leaf |-> Single(e, scc, cur), cf_nodes |-> {cur}]}]

(* The component of its root cur is taken from the stack.                  *)
Take(g, e, w, cur) ==
  LET scc == {n \in w.stack : w.dfs[n] >= w.dfs[cur]}
  IN  [w EXCEPT !.stack = @ \ scc,
                !.children = @ \cup {[leaf |-> Single(e, scc, cur), cf_nodes |-> Entered(g, scc)]}]

Lower(w, n, m) == [w EXCEPT !.low[n] = Least(@, w.low[m])]

(* The last call looks at one more edge, or returns to its caller.         *)
WalkNext(g, e, w) ==
  LET cur    == LastOf(w, w.calls)
      succs  == {s \in Nodes : <<cur, s>> \in w.todo}
      succ   == CHOOSE s \in succs : TRUE
      looked == [w EXCEPT !.todo = @ \ {<<cur, succ>>}]
      done   == IF w.low[cur] = w.dfs[cur] THEN Take(g, e, w, cur) ELSE w
      back   == [done EXCEPT !.calls = @ \ {cur}]
      called == w.calls \ {cur}
  IN  CASE w.calls = {} -> w
        [] w.calls # {} /\ succs # {} ->
             (CASE succ \notin w.set           -> Visit(looked, succ)
                [] succ \in w.set \cap w.stack -> Lower(looked, cur, succ)
                [] succ \in w.set \ w.stack    -> looked)
        [] w.calls # {} /\ succs = {} ->
             IF called = {} THEN back ELSE Lower(back, LastOf(w, called), cur)

WalkScc(g, e, root) ==
  LET none  == [n \in Nodes |-> 0]
      start == [set |-> {}, calls |-> {}, stack |-> {}, dfs |-> none, low |-> none,
                todo |-> {a \in Nodes \X Nodes : a[1] \in DOMAIN e /\ a[2] \in e[a[1]]}, children |-> {}]
  IN  Iterated([w \in Walks |-> WalkNext(g, e, w)], Exit * Exit + 2 * Exit, Visit(start, root)).children

(* What is below one Head: for each of its heads a walk, and they mark the *)
(* heads they find.                                                        *)
Found == [heads : SUBSET Nodes, children : SUBSET Children]

WalkHeads(g, marked, heads) ==
  LET walk(u, head) == LET new == WalkScc(g, Open(g, u.heads), head)
                       IN  [heads |-> u.heads \cup UNION {c.cf_nodes : c \in new}, children |-> u.children \cup new]
  IN  Folded([a \in Found \X Nodes |-> walk(a[1], a[2])], [heads |-> marked, children |-> {}], SetToSeq(heads))

(* recurse: t.heads are the nodes marked IsHead, t.leaves those made, and  *)
(* t.todo the Heads still to be looked into, of which the deepest is next. *)
LoopNodes == [depth : Nat, cf_nodes : SUBSET Nodes]
LoopTrees == [heads : SUBSET Nodes, leaves : SUBSET LoopNodes, todo : SUBSET LoopNodes]

Recurse(g, t) ==
  LET parent == CHOOSE l \in t.todo : \A k \in t.todo : k.depth <= l.depth
      found  == WalkHeads(g, t.heads, parent.cf_nodes)
      below(leaf, depth) == {[depth |-> depth, cf_nodes |-> c.cf_nodes] : c \in {d \in found.children : d.leaf = leaf}}
  IN  IF t.todo = {} THEN t
      ELSE [heads |-> found.heads, leaves |-> t.leaves \cup below(TRUE, parent.depth),
            todo |-> (t.todo \ {parent}) \cup below(FALSE, parent.depth + 1)]

LoopTree(g) ==
  LET start  == [heads |-> {}, leaves |-> {}, todo |-> {[depth |-> 1, cf_nodes |-> {g.entry}]}]
      leaves == Iterated([t \in LoopTrees |-> Recurse(g, t)], 2 * Exit, start).leaves
  IN  [n \in UNION {c.cf_nodes : c \in leaves} |-> CHOOSE c \in leaves : n \in c.cf_nodes]

=============================================================================
