------------------------------ MODULE Optimize ------------------------------
(***************************************************************************)
(* World::opt (world.cpp): cleanup, lower2cff until it changes nothing,    *)
(* lift_builtins and inliner with a cleanup after each change, cleanup and *)
(* codegen_prepare.  The passes left out have nothing to do on programs    *)
(* without memory and tuples (see Programs), clone_bodies and split_slots  *)
(* nothing at all, and closure_conversion nothing after lower2cff.         *)
(***************************************************************************)
EXTENDS Cleanup

VARIABLES
  stage,      (* where World::opt is                                      *)
  kept        (* inliner: the scopes looked at                            *)

allvars == <<vars, stage, kept>>

OptInit == Init /\ stage = "cleanup" /\ kept = << >>

(* Stages in which cleanup runs, and those after them.                     *)
Cleaning   == {"cleanup", "lifted", "inlined", "optimized"}
After(s)   == CASE s = "cleanup" -> "lower" [] s = "lifted"    -> "lift"
                [] s = "inlined" -> "optimized" [] s = "optimized" -> "prepare"

CleanupStep == stage \in Cleaning /\ Step /\ UNCHANGED <<stage, kept>>

(* Another cleanup begins at once after the inliner's.                     *)
EndCleanup ==
  /\ stage \in Cleaning /\ Finished
  /\ stage' = After(stage) /\ todo' = (After(stage) \in Cleaning)
  /\ scopes' = {Main} /\ visited' = {}
  /\ UNCHANGED <<prog, next, pass, pe_done, meaning, kept>>

(* What a pass made of the world, w, and the stage after it.               *)
Becomes(w, s) ==
  /\ prog' = w.prog /\ next' = w.next
  /\ stage' = IF w.stop # "" THEN w.stop ELSE s

Lower2CFF ==
  /\ stage = "lower"
  /\ \E params_first \in BOOLEAN, limit \in Limits(next) :
       LET w == PartialEvaluator(prog, next, TRUE, params_first, limit)
       IN  Becomes(w, IF w.todo THEN "lower" ELSE "lift")
  /\ UNCHANGED <<todo, pass, pe_done, scopes, visited, meaning, kept>>

LiftBuiltin(g) ==
  /\ stage = "lift" /\ g \in Kernels(prog)
  /\ Becomes(LiftKernel(prog, next, g), "lifted")
  /\ todo' = TRUE
  /\ UNCHANGED <<pass, pe_done, scopes, visited, meaning, kept>>

EndLift ==
  /\ stage = "lift" /\ Kernels(prog) = {}
  /\ stage' = "inline" /\ scopes' = {Main} /\ visited' = {}
  /\ UNCHANGED <<prog, next, todo, pass, pe_done, meaning, kept>>

(* Scope::for_each, at entry: p is the program after the pass has run.     *)
VisitedScope(entry, p) ==
  /\ visited' = visited \cup {entry}
  /\ scopes' = (scopes \ {entry}) \cup (FreeConts(p, entry) \ visited')

Inline(entry) ==
  /\ stage = "inline" /\ entry \in scopes
  /\ LET w == InlineScope(prog, next, kept, entry)
     IN  Becomes(w, stage) /\ VisitedScope(entry, w.prog) /\ kept' = w.scopes
  /\ UNCHANGED <<todo, pass, pe_done, meaning>>

EndInline ==
  /\ stage = "inline" /\ scopes = {}
  /\ stage' = "inlined" /\ todo' = TRUE /\ kept' = << >>
  /\ UNCHANGED <<prog, next, pass, pe_done, scopes, visited, meaning>>

(* Scopes should have a return parameter, codegen_prepare asserts.         *)
Prepare(entry) ==
  /\ stage = "prepare" /\ entry \in scopes
  /\ IF Cardinality(RetParams(prog, entry)) # 1 THEN
       /\ stage' = "rejected" /\ UNCHANGED <<prog, next, scopes, visited>>
     ELSE IF next > MaxConts THEN
       /\ stage' = "outgrown" /\ UNCHANGED <<prog, next, scopes, visited>>
     ELSE
       LET p == PrepareScope(prog, next, entry)
       IN  prog' = p /\ next' = next + 1 /\ UNCHANGED stage /\ VisitedScope(entry, p)
  /\ UNCHANGED <<todo, pass, pe_done, meaning, kept>>

EndPrepare ==
  /\ stage = "prepare" /\ scopes = {}
  /\ stage' = "end"
  /\ UNCHANGED <<vars, kept>>

(* World::opt has come to an end, or an assertion has ended it.            *)
Ended == stage \in {"end", "rejected"} \/ pass = "rejected"

(* The bound is reached: what the code does then is not followed further.  *)
Outgrown == "outgrown" \in {stage, pass}

OptDone == (Ended \/ Outgrown) /\ UNCHANGED allvars

OptNext ==
  \/ CleanupStep \/ EndCleanup
  \/ Lower2CFF
  \/ \E g \in Conts : LiftBuiltin(g)
  \/ EndLift
  \/ \E entry \in scopes : Inline(entry)
  \/ EndInline
  \/ \E entry \in scopes : Prepare(entry)
  \/ EndPrepare \/ OptDone

(* As in Cleanup: a step is enabled until the end, and one is taken.       *)
OptFairness == WF_allvars(EndPrepare) /\ ([]<><<TRUE>>_allvars \/ <>[](Ended \/ Outgrown))

OptSpec == OptInit /\ [][OptNext]_allvars /\ OptFairness

-----------------------------------------------------------------------------
(* What the back ends rely on at the end of World::opt: no pe_info is left,*)
(* functions take no function but the one to return to, and that only at   *)
(* the top level, where it is called and never passed on; what is launched *)
(* is a Global of a continuation that captures nothing.                    *)
Lowered ==
  \A n \in Reachable(prog), m \in Conts : prog.body[n][1] = K(m) =>
    \A i \in DOMAIN prog.params[m] :
      /\ ~NeverLeft(prog, m, i)
      /\ OnlyAtTopLevel(prog, m, i) => FreeParams(prog)[m] = {}

KernelsLifted ==
  \A n \in Reachable(prog) : Launches(prog, n) =>
    prog.body[n][2][1] = "g" /\ FreeParams(prog)[prog.body[n][2][2]] = {}

ReturnsOnlyCalled ==
  \A n \in Reachable(prog) : FreeParams(prog)[n] = {} /\ Cardinality(RetParams(prog, n)) = 1 =>
    \A m \in Scope(prog, n) : RetParam(prog, n) \notin Range(Tail(prog.body[m]))

ReadyForCodegen ==
  stage = "end" =>
    /\ \A n \in Reachable(prog) : prog.body[n][1] # Info
    /\ Lowered /\ KernelsLifted /\ ReturnsOnlyCalled

(* n calls a function that leads to n again and gives it a continuation k  *)
(* to go on with; or gives a function it does not know one that leads to n *)
(* again.  lower2cff specialises what is called for k, unless it is at the *)
(* top level, and the copy pushes a continuation of its own, for ever.     *)
Pushes(n) ==
  \E k \in Conts : K(k) \in Range(Tail(prog.body[n])) /\
    \/ \E f \in Conts : /\ prog.body[n][1] = K(f) /\ FreeParams(prog)[f] # {}
                         /\ n \in ReachableFrom(prog, f)
    \/ prog.body[n][1][1] = "p" /\ n \in ReachableFrom(prog, k)

RecursesInTail == \A n \in Reachable(prog) : ~Pushes(n)

(* World::opt ends, after finitely many copies, on every program whose     *)
(* nested functions have nothing left to do after recursive calls.         *)
OptTerminates == RecursesInTail => <>[]Ended

=============================================================================
