------------------------------ MODULE Emission ------------------------------
(***************************************************************************)
(* Emitter and the C back end (be/emitter.h, be/c/c.cpp): a function with  *)
(* memory becomes blocks of C statements.  Every definition has a variable *)
(* and is computed once, by a statement in the block it is placed in, so a *)
(* statement is named by its definition; memory and frames become nothing. *)
(***************************************************************************)
EXTENDS Memory, Placement, Loops

-----------------------------------------------------------------------------
NumberOf(defs, d) == CHOOSE i \in DOMAIN defs : defs[i] = d

(* Scheduler: what Placement asks for, with definitions as numbers.        *)
Scheduled(prog) ==
  LET g       == CFG(LinkToExit(Linked(Jumps(prog))), TRUE)
      idom    == Idoms(g)
      bodies  == {prog[b].body : b \in Blocks}
      defs    == AnyOrder({d \in Terms(prog) \ bodies : Kind(d) # "param"})
      number(d) == IF Kind(d) = "param" THEN d[3] ELSE Exit + NumberOf(defs, d)
      takes(u, d) == \E i \in DOMAIN Operands(u) : Operands(u)[i] = d
  IN  [g |-> g, idom |-> idom, leaves |-> LoopTree(g), defs |-> defs,
       operands |-> [n \in Exit + 1 .. Exit + Len(defs) |->
                       LET ops == Operands(defs[n - Exit]) IN [i \in DOMAIN ops |-> number(ops[i])]],
       users    |-> [n \in Exit + 1 .. Exit + Len(defs) |->
                       {number(u) : u \in {v \in Range(defs) : takes(v, defs[n - Exit])}}
                       \cup {b \in Range(g.rpo) \ {Exit} : takes(prog[b].body, defs[n - Exit])}]]

PlaceOf(p, d) == Place(p, Exit + NumberOf(p.defs, d))

IsMemory(d) == Kind(d) = "extract" /\ TypeOf(d) \in {"mem", "frame"}

(* Literals, bottom, globals and slots need no statement.                  *)
Silent(d) == Kind(d) \in {"enter", "slot", "global"} \/ IsMemory(d)

(* emit_def: operands first, the memory before the others.                 *)
RECURSIVE Emit(_, _, _)
Emit(code, p, d) ==
  LET operands == FoldLeft(LAMBDA c, op : Emit(c, p, op), code, Operands(d))
  IN  IF Kind(d) \in Leaves \/ d \in code.done THEN code
      ELSE [operands EXCEPT !.done = @ \cup {d},
                            !.body = IF Silent(d) THEN @ ELSE [@ EXCEPT ![PlaceOf(p, d)] = Append(@, d)]]

(* emit_scope: the epilogues in schedule order, each of which emits what   *)
(* the body of its block needs.                                            *)
EmitScope(prog) ==
  LET p == Scheduled(prog)
      epilogue(code, b) == FoldLeft(LAMBDA c, op : Emit(c, p, op), code, Operands(prog[b].body))
  IN  FoldLeft(epilogue, [body |-> [b \in Blocks |-> << >>], done |-> {}],
               SelectSeq(p.g.rpo, LAMBDA n : n # Exit))

-----------------------------------------------------------------------------
(* What a C compiler makes of it: c has the variables and the objects of a *)
(* call of the function, and whether bottom is zero in it, as be/c writes. *)
RECURSIVE Zero(_)
Zero(t) == IF IsAgg(t) THEN [i \in DOMAIN ElemTypes[t] |-> Zero(ElemTypes[t][i])] ELSE 0

VarType(d) == IF Kind(d) = "load" THEN ElemTypes[TypeOf(d)][2] ELSE TypeOf(d)

(* emit_constant, for what a global is initialised with.                   *)
RECURSIVE Constant(_)
Constant(d) ==
  CASE Kind(d) = "lit"    -> d[3]
    [] Kind(d) = "bottom" -> Zero(TypeOf(d))
    [] Kind(d) = "agg"    -> [i \in DOMAIN Operands(d) |-> Constant(Operands(d)[i])]

CValue(c, d) ==
  CASE Kind(d) = "lit"    -> d[3]
    [] Kind(d) = "bottom" -> IF c.zeroed THEN Zero(TypeOf(d)) ELSE UndefinedOf(TypeOf(d))
    [] Kind(d) = "slot"   -> Compute(d, <<0>>)
    [] Kind(d) = "global" -> Compute(d, <<Constant(d[3])>>)
    [] Kind(d) \notin {"lit", "bottom", "slot", "global"} ->
         IF d \in DOMAIN c.vars THEN c.vars[d] ELSE UndefinedOf(VarType(d))

Set(c, var, v) == [c EXCEPT !.vars = (var :> v) @@ @]
Objects(c)     == [frames |-> 0, at |-> c.at]

Execute(c, d) ==
  CASE Kind(d) = "store" -> [c EXCEPT !.at = Written(Objects(c), CValue(c, d[4]), CValue(c, d[5])).at]
    [] Kind(d) = "load"  -> Set(c, d, Read(Objects(c), CValue(c, d[4])))
    [] Kind(d) = "extract" /\ Kind(d[3]) = "load" -> Set(c, d, CValue(c, d[3]))
    [] Kind(d) \notin {"store", "load"} /\ ~(Kind(d) = "extract" /\ Kind(d[3]) = "load") ->
         Set(c, d, Compute(d, [i \in DOMAIN Operands(d) |-> CValue(c, Operands(d)[i])]))

(* The parameters of a block but for memory: the predecessors assign to a  *)
(* second variable, from which the head of the block copies.               *)
Concrete(prog, b) == SelectSeq([i \in DOMAIN prog[b].params |-> Param(b, i, prog[b].params[i])], LAMBDA p : TypeOf(p) # "mem")

(* Mutation: as if arguments were assigned to the parameter itself.        *)
Itself(param) == param
Phi(param) == <<"p_", param>>

Heads(prog, b, c) == FoldLeft(LAMBDA s, p : Set(s, p, s.vars[Phi(p)]), c, IF b = Entry THEN << >> ELSE Concrete(prog, b))
Jump(prog, b, args, c) == FoldLeft(LAMBDA s, p : Set(s, Phi(p), CValue(s, args[p[4]])), c, Concrete(prog, b))

(* The result of a call goes to the second variables of where it returns.  *)
AfterCall(prog, b, result, c) ==
  FoldLeft(LAMBDA s, p : Set(s, Phi(p), result[2]), [c EXCEPT !.at = result[1].at], Concrete(prog, b))

RECURSIVE RunC(_, _, _, _, _)
RunC(prog, code, b, c, steps) ==
  LET body == prog[b].body
      done == FoldLeft(Execute, Heads(prog, b, c), code.body[b])
      ops  == Operands(body)
      go(target, s) == RunC(prog, code, target, s, steps - 1)
  IN  IF steps = 0 THEN [end |-> "running"]
      ELSE CASE Kind(body) = "ret" -> [end |-> "returned", value |-> CValue(done, ops[2]), globals |-> OfGlobals(done.at)]
             [] Kind(body) = "jump" -> go(TypeOf(body)[1], Jump(prog, TypeOf(body)[1], ops, done))
             [] Kind(body) = "call" ->
                  LET result == Called(Objects(done), CValue(done, ops[2]), CValue(done, ops[3]))
                  IN  go(TypeOf(body)[1], AfterCall(prog, TypeOf(body)[1], result, done))
             [] Kind(body) \in {"branch", "match"} ->
                  IF CValue(done, ops[1]) = Undefined THEN [end |-> "undefined"]
                  ELSE go(Chosen(body, CValue(done, ops[1])), done)

Given(prog, input) ==
  LET params == Concrete(prog, Entry)
  IN  [p \in Range(params) |-> input[CHOOSE i \in DOMAIN params : params[i] = p]]
RunEmitted(prog, code, input) ==
  RunC(prog, code, Entry, [vars |-> Given(prog, input), at |-> << >>, zeroed |-> TRUE], MaxSteps)

=============================================================================
