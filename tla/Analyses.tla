------------------------------ MODULE Analyses ------------------------------
(***************************************************************************)
(* The analyses of a scope, each computed from those before it, as         *)
(* Scope::cfa, CFA::f_cfg, CFG::domtree and so on do when first asked, for *)
(* every control flow a scope can have.  The properties compare them with  *)
(* definitions that only speak of paths.                                   *)
(***************************************************************************)
EXTENDS Placement, Loops

CONSTANTS
  MaxJumps,   (* bound: continuations a body mentions                      *)
  MaxUses     (* bound: parameters used and blocks that use definitions    *)

VARIABLES
  jumps,      (* the continuations each body mentions: the program         *)
  forward,    (* the direction of the graph                                *)
  cfa, cfg, idom, frontier, leaves,
  placed      (* operands and users of the definitions to be placed        *)

vars == <<jumps, forward, cfa, cfg, idom, frontier, leaves, placed>>

None == << >>

Init ==
  /\ jumps \in {j \in [Blocks -> {S \in SUBSET Blocks : Cardinality(S) <= MaxJumps}] :
                  \A n \in Blocks \ Closure(j, {Entry}) : j[n] = {}}
  /\ forward \in BOOLEAN
  /\ cfa = None /\ cfg = None /\ idom = None /\ frontier = None /\ leaves = None /\ placed = None

BuildCFA ==
  /\ cfa = None
  /\ cfa' = LinkToExit(Linked(jumps))
  /\ UNCHANGED <<jumps, forward, cfg, idom, frontier, leaves, placed>>

BuildCFG ==
  /\ cfa # None /\ cfg = None
  /\ cfg' = CFG(cfa, forward)
  /\ UNCHANGED <<jumps, forward, cfa, idom, frontier, leaves, placed>>

BuildDomTree ==
  /\ cfg # None /\ idom = None
  /\ idom' = Idoms(cfg)
  /\ UNCHANGED <<jumps, forward, cfa, cfg, frontier, leaves, placed>>

BuildDomFrontier ==
  /\ idom # None /\ frontier = None
  /\ frontier' = <<Frontier(cfg, idom)>>
  /\ UNCHANGED <<jumps, forward, cfa, cfg, idom, leaves, placed>>

BuildLoopTree ==
  /\ frontier # None /\ leaves = None
  /\ leaves' = LoopTree(cfg)
  /\ UNCHANGED <<jumps, forward, cfa, cfg, idom, frontier, placed>>

-----------------------------------------------------------------------------
(* By paths: d dominates n if the entry does not reach n without d.        *)
Dominates(d, n) ==
  d = n \/ n \notin Closure([m \in DOMAIN cfg.succs |-> cfg.succs[m] \ {d}], {cfg.entry} \ {d})

(* A program to be placed: every definition takes the one before it and    *)
(* perhaps a parameter, and is used by the next one and in blocks, where   *)
(* its parameters are bound.                                               *)
Bound(operands, users) ==
  \A def \in Defs : \A d \in Exit + 1 .. def :
    \A b \in Range(operands[d]) \cap Blocks, u \in users[def] \cap Blocks : Dominates(b, u)

Programs ==
  LET conts == DOMAIN cfa \ {Exit}
      pairs(f) == Cardinality({c \in Defs \X conts : c[2] \in f[c[1]]})
      uses  == {v \in [Defs -> {U \in SUBSET conts : Cardinality(U) <= 2}] : v[Exit + NumDefs] # {} /\ pairs(v) <= MaxUses}
      params == [Defs -> {{}} \cup {{b} : b \in conts}]
      before(d) == IF d = Exit + 1 THEN << >> ELSE <<d - 1>>
      program(v, q) == [operands |-> [d \in Defs |-> before(d) \o SetToSeq(q[d])],
                        users    |-> [d \in Defs |-> v[d] \cup (Defs \cap {d + 1})]]
  IN  UNION {{program(v, q) : q \in {r \in params : pairs(r) + pairs(v) <= MaxUses}} : v \in uses}

(* The names of the blocks do not matter here: they are numbered in        *)
(* reverse post-order.                                                     *)
Schedule ==
  /\ forward /\ leaves # None /\ placed = None
  /\ \A m, n \in DOMAIN cfg.rpo : m < n /\ cfg.rpo[m] # Exit => cfg.rpo[m] < cfg.rpo[n]
  /\ \E p \in Programs :
       /\ Bound(p.operands, p.users)
       /\ placed' = p
  /\ UNCHANGED <<jumps, forward, cfa, cfg, idom, frontier, leaves>>

Next == BuildCFA \/ BuildCFG \/ BuildDomTree \/ BuildDomFrontier \/ BuildLoopTree \/ Schedule

Spec == Init /\ [][Next]_vars

-----------------------------------------------------------------------------
(* Every node is numbered in both directions: link_to_exit lets endless    *)
(* loops reach the exit (the assertion in CFG's constructor).              *)
AllNumbered == cfg # None => Range(cfg.rpo) = DOMAIN cfa

(* The immediate dominator of a node dominates it, and every other         *)
(* dominator of the node dominates that one too.                           *)
IdomsNearest ==
  idom # None => \A n \in DOMAIN idom :
    LET above == {d \in DOMAIN cfa : d # n /\ Dominates(d, n)}
    IN  idom[n] \in above /\ \A d \in above : Dominates(d, idom[n])

(* A node is in the frontier of those that dominate a predecessor of it    *)
(* but are no strict dominators of it; the entry is in no frontier.        *)
FrontierExact ==
  frontier # None =>
    frontier[1] = {e \in (DOMAIN cfa) \X (DOMAIN idom) :
                     /\ e[1] = e[2] \/ ~Dominates(e[1], e[2])
                     /\ \E p \in cfg.preds[e[2]] : Dominates(e[1], p)}

(* In how many loops a node is, and one more: components entered only by   *)
(* their heads, and within them what remains without the edges to these.   *)
Nesting(n) ==
  LET all == DOMAIN cfa
      nested[s \in [all -> SUBSET all]] ==
        LET loop  == {m \in all : m \in Closure(s, s[n]) /\ n \in Closure(s, s[m])}
            heads == {m \in loop : m = cfg.entry \/ cfg.preds[m] \ loop # {}}
        IN  IF n \notin loop THEN 1
            ELSE 1 + nested[[m \in all |-> IF m \in loop THEN (s[m] \cap loop) \ heads ELSE {}]]
  IN  nested[cfg.succs]

(* Every node is a leaf of the loop tree, by itself (the assertion in      *)
(* walk_scc), below as many heads as there are loops around it.            *)
LoopsNested ==
  leaves # None =>
    /\ DOMAIN leaves = DOMAIN cfa
    /\ \A n \in DOMAIN leaves :
         leaves[n].cf_nodes = {n} /\ leaves[n].depth \in Nat /\ leaves[n].depth = Nesting(n)

P == [g |-> cfg, idom |-> idom, leaves |-> leaves, operands |-> placed.operands, users |-> placed.users]

(* A definition is emitted where its operands are known, and before all    *)
(* that use it.                                                            *)
PlacedSafely ==
  placed # None => \A def \in Defs :
    LET place == Place(P, def)
    IN  /\ \A op \in Range(placed.operands[def]) :
             Dominates(IF op \in Blocks THEN op ELSE Place(P, op), place)
        /\ \A use \in placed.users[def] \cap Blocks : Dominates(place, use)

(* No block where a definition could be emitted as safely is in fewer      *)
(* loops than the one chosen.                                              *)
HoistedFromLoops ==
  placed # None => \A def \in {d \in Defs : ~NoDep(P, d)} :
    LET early == Early(P, def)
        late  == Late(P, def)
        loops == Nesting(Place(P, def))
    IN  \A block \in DOMAIN cfa \ {Exit} :
          Dominates(early, block) /\ Dominates(block, late) => loops <= Nesting(block)

=============================================================================
