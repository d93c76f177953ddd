------------------------------- MODULE Cleanup -------------------------------
(***************************************************************************)
(* Cleaner::cleanup (cleanup_world.cpp): eta_conversion, rebuild and       *)
(* partial_evaluation again and again until an iteration changes nothing;  *)
(* then filters are destroyed, and the fix point is run once more with     *)
(* eliminate_tail_rec first and clean_pe_infos last.  The passes visit     *)
(* definitions in the order of hash tables: any order.                     *)
(***************************************************************************)
EXTENDS Inlining

CONSTANTS
  Kinds,      (* of initial programs: shape is the types of their         *)
              (* continuations, bodies and filters the sets of those they *)
              (* may have, pe_done what mark_pe_done was called with,     *)
              (* shared whether two of them may have the same body        *)
  Silent,     (* bound: silent calls in a row of a run                    *)
  Visible     (* bound: visible calls of a run                            *)

VARIABLES
  prog,       (* the world                                                *)
  next,       (* the number the next continuation gets                    *)
  todo,       (* todo_                                                    *)
  pass,       (* the pass that runs; "outgrown" after one needed more     *)
              (* continuations than MaxConts, "rejected" after an         *)
              (* assertion failed                                         *)
  pe_done,    (* state_.pe_done                                           *)
  scopes,     (* eliminate_tail_rec: entries queued by Scope::for_each    *)
  visited,    (* and those visited                                        *)
  meaning     (* history: what the initial program does                   *)

vars == <<prog, next, todo, pass, pe_done, scopes, visited, meaning>>

Init ==
  /\ \E kind \in Kinds :
       /\ prog \in ProgramsOf(kind.shape, kind.bodies, kind.filters)
       /\ kind.shared \/ ~SharesCall(prog)
       /\ next = Len(kind.shape) + 1
       /\ pe_done = kind.pe_done
  /\ todo = TRUE /\ pass = "start"
  /\ scopes = {} /\ visited = {}
  /\ meaning = Meaning(prog, Silent, Visible)

StartIteration ==
  /\ pass = "start" /\ todo
  /\ todo' = FALSE /\ pass' = IF pe_done THEN "tail_rec" ELSE "eta"
  /\ scopes' = {Main} /\ visited' = {}
  /\ UNCHANGED <<prog, next, pe_done, meaning>>

-----------------------------------------------------------------------------
(* eliminate_tail_rec on the scope of entry: the calls of it from within.  *)
TailCalls(entry) ==
  LET S == Scope(prog, entry)
  IN  {b \in {prog.body[n] : n \in S} : K(entry) \in Range(b) /\ AppInScope(b, entry, S)}

(* The parameters that vary; all others get bottom or are passed on.       *)
Varying(entry) ==
  {i \in DOMAIN prog.params[entry] : \E b \in TailCalls(entry) : b[i + 1] \notin {P(entry, i), Bot}}

Droppable(entry) ==
  LET only_tail_calls == \A b \in TailCalls(entry) : K(entry) \notin Range(Tail(b))
  IN  /\ HasBody(prog, entry)
      /\ TailCalls(entry) # {} /\ only_tail_calls
      /\ Varying(entry) # DOMAIN prog.params[entry]
      /\ \A i \in Varying(entry) : Order(prog.params[entry][i]) = 0

(* Mutation: the first parameters are passed to the copy, not the varying. *)
DroppedPassingFirst(entry) ==
  LET varying == Varying(entry)
      args    == [i \in DOMAIN prog.params[entry] |-> IF i \in varying THEN Keep ELSE P(entry, i)]
      passed  == SelectSeq(Params(prog, entry), LAMBDA p : p[3] <= Cardinality(varying))
  IN  Jump(Drop(prog, entry, args, next), entry, <<K(next)>> \o passed)

(* The entry jumps to a copy of itself that takes the varying ones only.   *)
Dropped(entry) ==
  LET varying == Varying(entry)
      args    == [i \in DOMAIN prog.params[entry] |-> IF i \in varying THEN Keep ELSE P(entry, i)]
      passed  == SelectSeq(Params(prog, entry), LAMBDA p : p[3] \in varying)
  IN  Jump(Drop(prog, entry, args, next), entry, <<K(next)>> \o passed)

(* Mutation: the number of the last copy is given out again.               *)
LastCopyShort(entry) == next + Len(Copied(prog, entry, Scope(prog, entry))) - 1

LastCopy(entry) == next + Len(Copied(prog, entry, Scope(prog, entry)))

EliminateTailRec(entry) ==
  /\ pass = "tail_rec" /\ entry \in scopes \ visited /\ Droppable(entry)
  /\ LastCopy(entry) <= MaxConts
  /\ prog' = Dropped(entry) /\ next' = LastCopy(entry) + 1 /\ todo' = TRUE
  /\ visited' = visited \cup {entry}
  /\ UNCHANGED <<pass, pe_done, scopes, meaning>>

(* Scope::for_each queues the free continuations of the scope, updated by  *)
(* then.                                                                   *)
LeaveScope(entry) ==
  /\ pass = "tail_rec" /\ entry \in scopes
  /\ entry \in visited \/ ~Droppable(entry)
  /\ visited' = visited \cup {entry}
  /\ scopes' = (scopes \ {entry}) \cup (FreeConts(prog, entry) \ visited')
  /\ UNCHANGED <<prog, next, todo, pass, pe_done, meaning>>

EndTailRec ==
  /\ pass = "tail_rec" /\ scopes = {}
  /\ pass' = "eta"
  /\ UNCHANGED <<prog, next, todo, pe_done, scopes, visited, meaning>>

-----------------------------------------------------------------------------
(* eta_conversion.  A callee called once is merged into its caller.        *)
(* Mutation: the callee may have a second use.                             *)
CanEatShared(c, g) ==
  /\ HasBody(prog, c) /\ prog.body[c][1] = K(g)
  /\ HasBody(prog, g) /\ g \notin {c, Main}

CanEat(c, g) ==
  /\ HasBody(prog, c) /\ prog.body[c][1] = K(g)
  /\ HasBody(prog, g) /\ g \notin {c, Main}
  /\ Cardinality(Occurrences(prog, g)) < 2

Eat(c, g) ==
  LET give(p, i) == ReplaceUses(p, P(g, i), p.body[c][i + 1])
      given      == FoldLeft(give, prog, [i \in 1 .. Len(prog.body[c]) - 1 |-> i])
  IN  /\ pass = "eta" /\ CanEat(c, g)
      /\ prog' = Destroy(Jump(given, c, given.body[g]), g)
      /\ todo' = TRUE
      /\ UNCHANGED <<next, pass, pe_done, scopes, visited, meaning>>

(* Mutation: it may be a parameter of its own.                             *)
CallsAnyParam(c) == HasBody(prog, c) /\ c # Main /\ prog.body[c][1][1] = "p"

(* c calls a parameter that is free in it.                                 *)
CallsParam(c) ==
  /\ HasBody(prog, c) /\ c # Main
  /\ prog.body[c][1][1] = "p" /\ prog.body[c][1][2] # c

(* A continuation that only passes its parameters on to a parameter is     *)
(* replaced by that parameter.                                             *)
CanSubsume(c) == CallsParam(c) /\ Tail(prog.body[c]) = Params(prog, c)

Subsume(c) ==
  /\ pass = "eta" /\ CanSubsume(c)
  /\ prog' = Destroy(ReplaceUses(prog, K(c), prog.body[c][1]), c)
  /\ todo' = TRUE
  /\ UNCHANGED <<next, pass, pe_done, scopes, visited, meaning>>

(* If it passes them on in another order, its callers do so instead.       *)
Callers(c) == {n \in Live(prog) : prog.body[n][1] = K(c)}

CanPermute(c) ==
  /\ CallsParam(c) /\ Callers(c) # {}
  /\ Tail(prog.body[c]) # Params(prog, c)
  /\ Range(Tail(prog.body[c])) \subseteq Range(Params(prog, c))

Permute(c) ==
  LET body     == prog.body[c]
      perm(i)  == CHOOSE j \in DOMAIN prog.params[c] : body[i + 1] = P(c, j)
      moved(b) == <<body[1]>> \o [i \in 1 .. Len(body) - 1 |-> b[perm(i) + 1]]
  IN  /\ pass = "eta" /\ CanPermute(c)
      /\ prog' = [prog EXCEPT !.body = [n \in Conts |-> IF n \in Callers(c) THEN moved(@[n]) ELSE @[n]]]
      /\ todo' = TRUE
      /\ UNCHANGED <<next, pass, pe_done, scopes, visited, meaning>>

Converts ==
  \E c \in Live(prog) : CanSubsume(c) \/ CanPermute(c) \/ \E g \in Live(prog) : CanEat(c, g)

EndEta ==
  /\ pass = "eta" /\ ~Converts
  /\ pass' = "rebuild"
  /\ UNCHANGED <<prog, next, todo, pe_done, scopes, visited, meaning>>

-----------------------------------------------------------------------------
(* rebuild: what Main reaches is imported into a new world.                *)
Rebuild ==
  /\ pass = "rebuild"
  /\ prog' = Import(prog)
  /\ next' = Cardinality(Live(Import(prog))) + 1
  /\ pass' = "pe"
  /\ UNCHANGED <<todo, pe_done, scopes, visited, meaning>>

(* While it may change something, partial evaluation is part of an         *)
(* iteration.                                                              *)
PartiallyEvaluate ==
  /\ pass = "pe" /\ ~pe_done
  /\ \E limit \in Limits(next) :
       LET w == PartialEvaluator(prog, next, FALSE, TRUE, limit)
       IN  /\ prog' = w.prog /\ next' = w.next /\ todo' = (todo \/ w.todo)
           /\ pass' = IF w.stop # "" THEN w.stop ELSE "start"
  /\ UNCHANGED <<pe_done, scopes, visited, meaning>>

(* clean_pe_infos: those it meets. It does not get past one, for the queue *)
(* it puts the continuation back into is a copy.                           *)
Infos ==
  LET next_conts(n) == IF prog.body[n][1] = Info THEN {} ELSE Mentioned(prog, n)
      met[k \in 0 .. Rounds(prog)] ==
        IF k = 0 THEN {Main} ELSE LET S == met[k - 1] IN S \cup UNION {next_conts(n) : n \in S}
  IN  {n \in met[Rounds(prog)] : prog.body[n][1] = Info}

CleanInfos ==
  /\ pass = "pe" /\ pe_done
  /\ prog' = [prog EXCEPT !.body = [n \in Conts |-> IF n \in Infos THEN <<@[n][3]>> ELSE @[n]]]
  /\ todo' = (todo \/ Infos # {}) /\ pass' = "start"
  /\ UNCHANGED <<next, pe_done, scopes, visited, meaning>>

(* cleanup: a second fix point, without filters.                           *)
MarkPeDone ==
  /\ pass = "start" /\ ~todo /\ ~pe_done
  /\ pe_done' = TRUE /\ todo' = TRUE
  /\ prog' = [prog EXCEPT !.filter = [n \in Conts |-> << >>]]
  /\ UNCHANGED <<next, pass, scopes, visited, meaning>>

Finished == pass = "start" /\ ~todo /\ pe_done

Done == Finished /\ UNCHANGED vars

Step ==
  \/ StartIteration
  \/ \E entry \in scopes : EliminateTailRec(entry) \/ LeaveScope(entry)
  \/ EndTailRec
  \/ \E c, g \in Conts : Eat(c, g)
  \/ \E c \in Conts : Subsume(c) \/ Permute(c)
  \/ EndEta \/ Rebuild \/ PartiallyEvaluate \/ CleanInfos \/ MarkPeDone

Next == Step \/ Done

(* The fix point runs on: an iteration that can start does, and a step is  *)
(* taken until it is finished. This is WF_vars(Next), for a next step is   *)
(* enabled until then (no run deadlocks).                                  *)
Fairness ==
  /\ WF_vars(StartIteration)
  /\ []<><<TRUE>>_vars \/ <>[]Finished

Spec == Init /\ [][Next]_vars /\ Fairness

-----------------------------------------------------------------------------
TypeOK ==
  /\ next \in 1 .. MaxConts + 1 /\ Live(prog) \subseteq 1 .. next - 1
  /\ todo \in BOOLEAN /\ pass \in {"start", "tail_rec", "eta", "rebuild", "pe", "outgrown", "rejected"}
  /\ pe_done \in BOOLEAN
  /\ scopes \subseteq Conts /\ visited \subseteq Conts

(* No transformation changes what a run of Main does.                      *)
MeaningPreserved == Meaning(prog, Silent, Visible) = meaning

(* What is reachable never refers to a destroyed continuation or to a      *)
(* parameter out of scope (the assertions in Importer::import, and verify).*)
StaysWellFormed == WellFormed(prog)

(* App::verify never fails: a call is given as many arguments as the callee*)
(* has parameters ("app node ... is supplied ... arguments").              *)
CallsVerify == pass # "rejected"

(* The fix point is reached.                                               *)
Terminates == <>[]Finished

=============================================================================
