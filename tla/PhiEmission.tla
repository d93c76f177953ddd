----------------------------- MODULE PhiEmission -----------------------------
(***************************************************************************)
(* The LLVM back end (be/llvm/llvm.cpp) on the same emitter: every         *)
(* definition is a value instead of a variable, parameters of blocks are   *)
(* phis, which have a value for each block control may come from, and a    *)
(* call is an instruction of its block, before whatever is placed there    *)
(* later.                                                                  *)
(***************************************************************************)
EXTENDS Emission

(* emit_phi_arg, for jumps and for what a call returns.                    *)
PhiArgs(prog, b) ==
  LET body   == prog[b].body
      params == IF Kind(body) \in {"jump", "call"} THEN Range(Concrete(prog, TypeOf(body)[1])) ELSE {}
  IN  {[phi |-> p, from |-> b, value |-> IF Kind(body) = "call" THEN body ELSE Operands(body)[p[4]]] : p \in params}

EmitEpilogue(prog, p, code, b) ==
  LET body    == prog[b].body
      emitted == FoldLeft(LAMBDA c, op : Emit(c, p, op), code, Operands(body))
  IN  [emitted EXCEPT !.phis = @ \cup PhiArgs(prog, b),
                      !.body = IF Kind(body) = "call" THEN [@ EXCEPT ![b] = Append(@, body)] ELSE @]

EmitPhis(prog) ==
  LET p == Scheduled(prog)
  IN  FoldLeft(LAMBDA c, b : EmitEpilogue(prog, p, c, b),
               [body |-> [b \in Blocks |-> << >>], done |-> {}, phis |-> {}],
               SelectSeq(p.g.rpo, LAMBDA n : n # Exit))

(* An array with an element inserted is loaded as a pointer by what is     *)
(* emitted for it, whatever that is then used for.                         *)
InsertsElement(prog) == \E d \in Terms(prog) : Kind(d) = "insert"

-----------------------------------------------------------------------------
(* What LLVM makes of it.  Where control comes from, all phis of a block   *)
(* are set at once.                                                        *)
SetPhis(code, b, from, c) ==
  LET args == {a \in code.phis : a.phi[3] = b /\ a.from = from}
  IN  [c EXCEPT !.vars = [p \in {a.phi : a \in args} |->
                            CValue(c, (CHOOSE a \in args : a.phi = p).value)] @@ @]

CallInstruction(c, d) ==
  LET ops    == Operands(d)
      result == Called(Objects(c), CValue(c, ops[2]), CValue(c, ops[3]))
  IN  [Set(c, d, result[2]) EXCEPT !.at = result[1].at]

Instruction(c, d) == IF Kind(d) = "call" THEN CallInstruction(c, d) ELSE Execute(c, d)

RECURSIVE RunSSA(_, _, _, _, _, _)
RunSSA(prog, code, b, from, c, steps) ==
  LET body == prog[b].body
      done == FoldLeft(Instruction, SetPhis(code, b, from, c), code.body[b])
      ops  == Operands(body)
      go(target) == RunSSA(prog, code, target, b, done, steps - 1)
  IN  IF steps = 0 THEN [end |-> "running"]
      ELSE CASE Kind(body) = "ret" -> [end |-> "returned", value |-> CValue(done, ops[2]), globals |-> OfGlobals(done.at)]
             [] Kind(body) \in {"jump", "call"} -> go(TypeOf(body)[1])
             [] Kind(body) \in {"branch", "match"} ->
                  IF CValue(done, ops[1]) = Undefined THEN [end |-> "undefined"]
                  ELSE go(Chosen(body, CValue(done, ops[1])))

RunPhis(prog, code, input) ==
  RunSSA(prog, code, Entry, Exit, [vars |-> Given(prog, input), at |-> << >>, zeroed |-> FALSE], MaxSteps)

=============================================================================
