------------------------------- MODULE Memory -------------------------------
(***************************************************************************)
(* Functions with memory, as the passes on loads and stores see them: each *)
(* block has parameters, the first of which may be a memory, and a body;   *)
(* whatever is not a parameter is a term.  A memory operation takes the    *)
(* memory it continues from, so their order is part of the terms; a block  *)
(* a branch leads to has no parameters and goes on with the memory of the  *)
(* block before.  Two memory operations are never one definition: no       *)
(* function here has equal ones.                                           *)
(*                                                                         *)
(*   enter(mem), load(mem, ptr): extract 0 is the memory after it,         *)
(*                               extract 1 the frame or the value          *)
(*   store(mem, ptr, value):     is the memory after it                    *)
(*   jump, branch, match, call, ret: bodies, with targets for a type       *)
(***************************************************************************)
EXTENDS Aggregates, ControlFlow

ASSUME UndefinedAssumption == Undefined \in Int

MemOps == {"enter", "load", "store"}
Leaves == {"lit", "bottom", "top", "param"}

Param(b, i, t) == <<"param", t, b, i>>
Operands(d)    == IF Kind(d) \in Leaves THEN << >> ELSE SubSeq(d, 3, Len(d))

(* Types: pointers are named by what they point to, slots have a number.   *)
LoadType(t)  == IF t = "int" THEN "load int" ELSE "load arr"
Pointee(ptr) ==
  CASE Kind(ptr) \in {"slot", "global"} -> TypeOf(ptr)[1]
    [] Kind(ptr) \in {"lea", "param"}   -> "int"

(* World::enter, load, store, lea.                                         *)
Enter(mem)             == IF Kind(mem) = "extract" /\ Kind(mem[3]) = "enter" THEN mem[3]
                          ELSE Node("enter", "enter", <<mem>>)
Load(mem, ptr)         == Node("load", LoadType(Pointee(ptr)), <<mem, ptr>>)
Store(mem, ptr, value) == IF Kind(value) = "bottom" THEN mem ELSE Node("store", "mem", <<mem, ptr, value>>)
Lea(ptr, index)        == IF FoldOneTuple(Pointee(ptr), index) THEN ptr ELSE Node("lea", "ptr", <<ptr, index>>)
Slot(t, n, frame)      == Node("slot", <<t, n>>, <<frame>>)
Global(init, mutable)  == Node("global", <<TypeOf(init), mutable>>, <<init>>)
Out(op, i)             == Extract(op, Lit("int", i))

(* Def::rebuild.                                                           *)
Rebuild(d, ops) ==
  CASE Kind(d) = "extract" -> Extract(ops[1], ops[2])
    [] Kind(d) = "insert"  -> Insert(ops[1], ops[2], ops[3])
    [] Kind(d) = "agg"     -> Aggregate(TypeOf(d), ops)
    [] Kind(d) = "enter"   -> Enter(ops[1])
    [] Kind(d) = "load"    -> Load(ops[1], ops[2])
    [] Kind(d) = "store"   -> Store(ops[1], ops[2], ops[3])
    [] Kind(d) = "lea"     -> Lea(ops[1], ops[2])
    [] Kind(d) \notin {"extract", "insert", "agg", "enter", "load", "store", "lea"} -> Node(Kind(d), TypeOf(d), ops)

(* Operands are set in place: what they were is folded by the next rebuild.*)
RECURSIVE Replaced(_, _, _)
Replaced(d, old, new) ==
  IF d = old THEN new
  ELSE LET ops == Operands(d)
           now == [i \in DOMAIN ops |-> Replaced(ops[i], old, new)]
       IN  IF now = ops THEN d ELSE Node(Kind(d), TypeOf(d), now)

ReplaceUses(prog, old, new) == [b \in Blocks |-> [prog[b] EXCEPT !.body = Replaced(@, old, new)]]

RECURSIVE Subterms(_)
Subterms(d) == {d} \cup UNION {Subterms(op) : op \in Range(Operands(d))}
Terms(prog) == UNION {Subterms(prog[b].body) : b \in Blocks}

(* Importer::import: every definition is built again from its operands.    *)
RECURSIVE Imported(_)
Imported(d) ==
  LET ops == Operands(d)
  IN  IF Kind(d) \in Leaves THEN d ELSE Rebuild(d, [i \in DOMAIN ops |-> Imported(ops[i])])

Rebuilt(prog)  == [b \in Blocks |-> [prog[b] EXCEPT !.body = Imported(@)]]
Changes(prog)  == \E d \in Terms(prog) : Kind(Imported(d)) # Kind(d)

AnyOrder(S) == FoldSet(LAMBDA x, seq : Append(seq, x), << >>, S)

Targets(body) ==
  CASE Kind(body) \in {"jump", "branch", "match", "call"} -> Range(TypeOf(body))
    [] Kind(body) \in {"ret", "none"} -> {}
Jumps(prog) == [b \in Blocks |-> Targets(prog[b].body)]

-----------------------------------------------------------------------------
(* The meaning of such a function.  A memory maps objects to values; what  *)
(* enter allocates is new.                                                 *)
CONSTANT Numbers     (* bound: integers are taken modulo this number       *)

Initial(object)  == IF object[1] = "global" THEN object[4] ELSE UndefinedOf(object[2])
Held(at, object) == IF object \in DOMAIN at THEN at[object] ELSE Initial(object)

Read(memory, ptr) ==
  LET whole == Held(memory.at, ptr.object)
  IN  IF ptr.index = << >> THEN whole ELSE Element(ptr.object[2], whole, ptr.index[1])

Written(memory, ptr, v) ==
  LET whole == Held(memory.at, ptr.object)
      now   == IF ptr.index = << >> THEN v ELSE Changed(ptr.object[2], whole, ptr.index[1], v)
  IN  [memory EXCEPT !.at = (ptr.object :> now) @@ @]

Sum(v, w) == IF Undefined \in {v, w} THEN Undefined ELSE (v + w) % Numbers

(* What a definition makes of the values of its operands.                  *)
Compute(d, v) ==
  CASE Kind(d) = "add"     -> Sum(v[1], v[2])
    [] Kind(d) = "agg"     -> v
    [] Kind(d) = "extract" -> Element(TypeOf(d[3]), v[1], v[2])
    [] Kind(d) = "insert"  -> Changed(TypeOf(d), v[1], v[2], v[3])
    [] Kind(d) = "enter"   -> <<[v[1] EXCEPT !.frames = @ + 1], v[1].frames + 1>>
    [] Kind(d) = "slot"    -> [object |-> <<"slot", TypeOf(d)[1], TypeOf(d)[2], v[1]>>, index |-> << >>]
    [] Kind(d) = "global"  -> [object |-> <<"global", TypeOf(d)[1], TypeOf(d)[2], v[1]>>, index |-> << >>]
    [] Kind(d) = "lea"     -> [v[1] EXCEPT !.index = <<v[2]>>]
    [] Kind(d) = "load"    -> <<v[1], Read(v[1], v[2])>>
    [] Kind(d) = "store"   -> Written(v[1], v[2], v[3])

(* env has the values of the parameters of the blocks that were run.       *)
RECURSIVE Eval(_, _)
Eval(d, env) ==
  CASE Kind(d) = "lit"   -> d[3]
    [] Kind(d) = "param" -> env[d[3]][d[4]]
    [] Kind(d) \in {"bottom", "top"} -> UndefinedOf(TypeOf(d))
    [] Kind(d) \notin Leaves -> LET ops == Operands(d) IN Compute(d, [i \in DOMAIN ops |-> Eval(ops[i], env)])

CONSTANT MaxSteps    (* bound: blocks run                                  *)

(* The block a body goes to: a branch takes its first target if the value  *)
(* is not 0, a match the target of the case it equals or the default one.  *)
Chosen(body, v) ==
  CASE Kind(body) = "branch" -> TypeOf(body)[IF v # 0 THEN 1 ELSE 2]
    [] Kind(body) = "match"  -> TypeOf(body)[IF v + 2 \in DOMAIN TypeOf(body) THEN v + 2 ELSE 1]

(* A function of another module, called with a memory, a value and a       *)
(* pointer: it stores to what it was given, and returns the value.         *)
Called(memory, v, ptr) == <<Written(memory, ptr, Sum(v, 1)), v>>

RECURSIVE RunFrom(_, _, _, _)
RunFrom(prog, b, env, steps) ==
  LET body == prog[b].body
      vals == [i \in DOMAIN Operands(body) |-> Eval(Operands(body)[i], env)]
  IN  IF steps = 0 THEN [end |-> "running"]
      ELSE CASE Kind(body) = "ret" -> [end |-> "returned", value |-> vals[2], globals |-> vals[1].at]
             [] Kind(body) = "jump" -> RunFrom(prog, TypeOf(body)[1], (TypeOf(body)[1] :> vals) @@ env, steps - 1)
             [] Kind(body) = "call" ->
                  RunFrom(prog, TypeOf(body)[1], (TypeOf(body)[1] :> Called(vals[1], vals[2], vals[3])) @@ env, steps - 1)
             [] Kind(body) \in {"branch", "match"} ->
                  IF vals[1] = Undefined THEN [end |-> "undefined"]
                  ELSE RunFrom(prog, Chosen(body, vals[1]), env, steps - 1)

(* The world outside sees the value returned and the globals.              *)
OfGlobals(at) == [o \in {p \in DOMAIN at : p[1] = "global"} |-> at[o]]
NoMemory == [frames |-> 0, at |-> << >>]
Run(prog, input) ==
  LET end == RunFrom(prog, Entry, Entry :> (<<NoMemory>> \o input), MaxSteps)
  IN  IF end.end = "returned" THEN [end EXCEPT !.globals = OfGlobals(@)] ELSE end

(* What may be seen in place of the outcome w: the same, but for what w    *)
(* leaves undefined.                                                       *)
Refines(v, w) ==
  \/ w.end = "undefined"
  \/ w.end = "running" /\ v.end = "running"
  \/ /\ w.end = "returned" /\ v.end = "returned"
     /\ Covers("int", w.value, v.value)
     /\ \A o \in DOMAIN w.globals \cup DOMAIN v.globals : Covers(o[2], Held(w.globals, o), Held(v.globals, o))

=============================================================================
