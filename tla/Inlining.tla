------------------------------ MODULE Inlining ------------------------------
(***************************************************************************)
(* What the passes of World::opt after cleanup do to one scope: inliner    *)
(* and force_inline (inliner.cpp), lift_builtins (lift_builtins.cpp) and   *)
(* codegen_prepare (codegen_prepare.cpp), as functions of the world.       *)
(***************************************************************************)
EXTENDS PartialEvaluation

FnOrder(prog, n) ==
  1 + FoldSet(LAMBDA i, max : IF Order(prog.params[n][i]) > max THEN Order(prog.params[n][i]) ELSE max,
              0, DOMAIN prog.params[n])

(* The nodes of f_cfg in post-order.  Successors are hash tables in the    *)
(* code: they are visited in one order, here by number.                    *)
RECURSIVE PostOrderFrom(_, _, _, _)
PostOrderFrom(prog, S, v, n) ==
  LET succs    == SelectSeq([m \in Conts |-> m], LAMBDA m : m \in Mentioned(prog, n) \cap S)
      visit(w, m) == IF m \in w.seen THEN w ELSE PostOrderFrom(prog, S, w, m)
      done     == FoldLeft(visit, [v EXCEPT !.seen = @ \cup {n}], succs)
  IN  [done EXCEPT !.order = Append(@, n)]

PostOrder(prog, entry) ==
  PostOrderFrom(prog, Scope(prog, entry), [seen |-> {}, order |-> << >>], entry).order

(* w is a world: prog, next, whether it changed, and stop as in            *)
(* PartialEvaluation.  The body of g, a copy of it, takes the place of the *)
(* call of n.                                                              *)
Inlined(w, n, within) ==
  LET b    == w.prog.body[n]
      g    == b[1][2]
      last == w.next + Len(Copied(w.prog, g, within))
  IN  IF last > MaxConts THEN [w EXCEPT !.stop = "outgrown"]
      ELSE [w EXCEPT !.prog = Jump(Mangle(w.prog, g, Tail(b), << >>, within, w.next), n, <<K(w.next)>>),
                     !.next = last + 1, !.dirty = TRUE]

CallsKnown(prog, n) ==
  /\ HasBody(prog, n) /\ prog.body[n][1][1] = "k" /\ HasBody(prog, prog.body[n][1][2])

-----------------------------------------------------------------------------
(* inliner.  A scope is kept, with the calls in it, when it was first      *)
(* looked at.                                                              *)
ScopeOf(prog, g) ==
  LET S == Scope(prog, g)
  IN  [conts |-> S, apps |-> {b \in {prog.body[n] : n \in Live(prog)} : AppInScope(b, g, S)}]

GetScope(w, g) == IF g \in DOMAIN w.scopes THEN w.scopes[g] ELSE ScopeOf(w.prog, g)

(* The definitions of a scope: the exit is one of any.                     *)
Defs(prog, scope) ==
  1 + Cardinality(scope.conts) + Cardinality(scope.apps)
    + FoldSet(LAMBDA n, sum : sum + Len(prog.params[n]), 0, scope.conts)

IsCandidate(w, g) ==
  LET scope == GetScope(w, g)
  IN  /\ FnOrder(w.prog, g) > 1 /\ g # Main
      /\ Defs(w.prog, scope) < 4 * Len(w.prog.params[g]) + 4
      /\ \A b \in scope.apps : K(g) \notin Range(b)

InlineScope(prog, next, scopes, entry) ==
  LET inline(w, n) ==
        LET g     == w.prog.body[n][1][2]
            asked == [w EXCEPT !.scopes = (g :> GetScope(w, g)) @@ @]
        IN  IF w.stop # "" \/ ~CallsKnown(w.prog, n) \/ g = entry \/ FnOrder(w.prog, g) <= 1 \/ g = Main THEN w
            ELSE IF IsCandidate(asked, g) THEN Inlined(asked, n, asked.scopes[g].conts) ELSE asked
      w == FoldLeft(inline, [prog |-> prog, next |-> next, scopes |-> scopes, dirty |-> FALSE, stop |-> ""],
                    PostOrder(prog, entry))
  IN  IF w.dirty THEN [w EXCEPT !.scopes = (entry :> ScopeOf(w.prog, entry)) @@ @] ELSE w

-----------------------------------------------------------------------------
(* force_inline: up to threshold rounds over what entry's scope calls      *)
(* outside of it.                                                          *)
RECURSIVE ForceInline(_, _, _)
ForceInline(w, entry, threshold) ==
  LET S == Scope(w.prog, entry)
      inline(v, n) ==
        LET g == v.prog.body[n][1][2]
        IN  IF v.stop # "" \/ ~CallsKnown(v.prog, n) \/ g \in S THEN v ELSE Inlined(v, n, Scope(v.prog, g))
      round == FoldLeft(inline, [w EXCEPT !.dirty = FALSE], PostOrder(w.prog, entry))
  IN  CASE threshold = 0 -> w
        [] threshold > 0 /\ round.dirty -> ForceInline(round, entry, threshold - 1)
        [] OTHER -> round

(* lift_builtins.  Continuations passed to an accelerator, unlifted.       *)
Launches(prog, n)  == HasBody(prog, n) /\ prog.body[n][1][1] = "launch"
Kernels(prog)      ==
  {g \in Reachable(prog) : FnOrder(prog, g) > 1
                             /\ \E n \in Live(prog) : Launches(prog, n) /\ K(g) \in Atoms(prog, n)}
Vectorized(prog, g) == \E n \in Live(prog) : prog.body[n] # << >> /\ prog.body[n][1] = Launch("vectorize") /\ K(g) \in Atoms(prog, n)

(* Parameters free in the kernel; those of continuations are left out.     *)
FreeDefs(prog, g) ==
  LET S == Scope(prog, g)
  IN  {a \in UNION {Atoms(prog, n) : n \in S} : a[1] = "p" /\ a[2] \notin S}

(* A launch of the kernel becomes one of the lifted with what it captured. *)
WithArgs(b, g, lifted, free) ==
  [i \in DOMAIN b |-> IF b[i] = K(g) THEN G(lifted) ELSE b[i]] \o free

LiftKernel(prog, next, g) ==
  LET start  == [prog |-> prog, next |-> next, dirty |-> FALSE, stop |-> ""]
      w      == IF Vectorized(prog, g) THEN ForceInline(start, g, 4) ELSE start
      free   == SetToSeq(FreeDefs(w.prog, g))
      within == Within(w.prog, g, free)
      last   == w.next + Len(Copied(w.prog, g, within))
      lifted == Mangle(w.prog, g, [i \in DOMAIN w.prog.params[g] |-> Keep], free, within, w.next)
      uses(n) == Launches(lifted, n) /\ K(g) \in Atoms(lifted, n)
  IN  IF w.stop # "" \/ last > MaxConts THEN [w EXCEPT !.stop = "outgrown"]
      ELSE [w EXCEPT !.prog = [lifted EXCEPT !.body = [n \in Conts |->
                                 IF uses(n) THEN WithArgs(@[n], g, w.next, free) ELSE @[n]]],
                     !.next = last + 1]

-----------------------------------------------------------------------------
(* codegen_prepare.                                                        *)
RetParams(prog, n) == {i \in DOMAIN prog.params[n] : Order(prog.params[n][i]) >= 1}
RetParam(prog, n)  == P(n, CHOOSE i \in RetParams(prog, n) : TRUE)

(* Mutation: as if it were passed on as the first argument only.           *)
PassesOnFirst(b, ret) == Len(b) > 1 /\ b[2] = ret

PassesOn(b, ret) == ret \in Range(Tail(b))

(* Where it is passed on, a new continuation that calls it is passed. Of   *)
(* several in one call the first: the others change a call without use.    *)
PrepareScope(prog, next, entry) ==
  LET ret     == RetParam(prog, entry)
      type    == prog.params[entry][ret[3]]
      first(b) == CHOOSE i \in 2 .. Len(b) : b[i] = ret /\ \A j \in 2 .. i - 1 : b[j] # ret
      with(b) == IF b # << >> /\ PassesOn(b, ret) THEN [b EXCEPT ![first(b)] = K(next)] ELSE b
  IN  [prog EXCEPT
        !.params[next] = Takes[type],
        !.body = [n \in Conts |-> IF n = next THEN <<ret>> \o [i \in DOMAIN Takes[type] |-> P(next, i)]
                                  ELSE with(@[n])]]

=============================================================================
