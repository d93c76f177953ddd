------------------------------ MODULE Lowering ------------------------------
(***************************************************************************)
(* The end of World::opt on one function with memory, and one of two back  *)
(* ends after it: cleanup resolves loads for as long as there are any, slots    *)
(* are hoisted, dead loads dropped.  source is the function as it came,    *)
(* prog what it has become, code what was emitted for it.                  *)
(***************************************************************************)
EXTENDS LoadStore, PhiEmission

CONSTANTS
  Sources,   (* the functions to be lowered                                *)
  Inputs     (* the values of their parameters                             *)

VARIABLES source, prog, pass, code

vars == <<source, prog, pass, code>>

Passes == <<"cleanup", "hoist_enters", "cleanup", "dead_load_opt", "cleanup", "emit", "done">>

NoCode == << >>

Init ==
  /\ source \in Sources
  /\ prog = source
  /\ pass = 1
  /\ code = NoCode

(* One round of cleanup_fix_point: rebuild before and after resolve_loads. *)
Resolve ==
  /\ Passes[pass] = "cleanup"
  /\ \E st \in {ResolveLoads(Rebuilt(prog))} :
         /\ prog' = Rebuilt(st.prog)
         /\ pass' = IF Changes(prog) \/ st.todo \/ Changes(st.prog) THEN pass ELSE pass + 1
  /\ UNCHANGED <<source, code>>

Rpo == SelectSeq(CFG(LinkToExit(Linked(Jumps(prog))), TRUE).rpo, LAMBDA n : n # Exit)

Hoist_Enters ==
  /\ Passes[pass] = "hoist_enters"
  /\ prog' = HoistEnters(prog, Rpo)
  /\ pass' = pass + 1
  /\ UNCHANGED <<source, code>>

Dead_Load_Opt ==
  /\ Passes[pass] = "dead_load_opt"
  /\ prog' = DeadLoadOpt(prog)
  /\ pass' = pass + 1
  /\ UNCHANGED <<source, code>>

Emit_C ==
  /\ Passes[pass] = "emit"
  /\ code' = EmitScope(prog)
  /\ pass' = pass + 1
  /\ UNCHANGED <<source, prog>>

Emit_LLVM ==
  /\ Passes[pass] = "emit"
  /\ ~InsertsElement(prog)
  /\ code' = EmitPhis(prog)
  /\ pass' = pass + 1
  /\ UNCHANGED <<source, prog>>

Next == Resolve \/ Hoist_Enters \/ Dead_Load_Opt \/ Emit_C \/ Emit_LLVM

Spec == Init /\ [][Next]_vars

-----------------------------------------------------------------------------
(* What is loaded or stored has the type the pointer says, and an argument *)
(* the type of the parameter: what a pass puts in place of a definition    *)
(* fits there (the assertions of Store and App, and replace_uses').        *)
TypeOK ==
  /\ pass \in DOMAIN Passes
  /\ \A d \in Terms(prog) :
       /\ Kind(d) = "store" => TypeOf(d[5]) = Pointee(d[4])
       /\ Kind(d) = "insert" => TypeOf(d[5]) = ElemType(TypeOf(d), d[4])
       /\ Kind(d) \in MemOps => IsMem(d[3])
       /\ Kind(d) = "jump" => \A i \in DOMAIN Operands(d) :
            TypeOf(Operands(d)[i]) = prog[TypeOf(d)[1]].params[i]

(* Whatever a function is given, it returns the value and leaves the       *)
(* globals that it did before the passes.                                  *)
PassesPreserve == \A input \in Inputs : Refines(Run(prog, input), Run(source, input))

(* The run of what either back end emitted.                                *)
RunCode(input) ==
  IF "phis" \in DOMAIN code THEN RunPhis(prog, code, input) ELSE RunEmitted(prog, code, input)

(* The emitted code does what the function does: every variable or value   *)
(* is set before it is read, loads, stores and calls happen in their order,*)
(* and blocks get their arguments all at once ("lost copy problem" and     *)
(* "swap problem" in CCodeGen::prepare, the phis of be/llvm).              *)
EmittedFollows == code # NoCode => \A input \in Inputs : Refines(RunCode(input), Run(prog, input))

=============================================================================
