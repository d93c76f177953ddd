----------------------------- MODULE LoadStore -----------------------------
(***************************************************************************)
(* resolve_loads, hoist_enters and dead_load_opt.  A definition that a pass*)
(* replaces still counts among the uses of its operands until the next     *)
(* rebuild: it remains among the terms in which uses are looked up.  No    *)
(* pointer is cast.                                                        *)
(***************************************************************************)
EXTENDS Memory

None == <<"none", "none">>

Users(terms, d)    == {u \in terms : \E i \in DOMAIN Operands(u) : Operands(u)[i] = d}
MemUsers(prog, mem) == {u \in Terms(prog) : Kind(u) \in MemOps /\ u[3] = mem}
IsMemParam(prog, b) == prog[b].params # << >> /\ prog[b].params[1] = "mem"
MemParam(b)         == Param(b, 1, "mem")

-----------------------------------------------------------------------------
(* CACHED: what is answered about a definition is kept for the whole pass, *)
(* one map for each question: whether a pointer, or all pointers into what *)
(* it points to, are only used by loads and stores, or by stores; whether  *)
(* a value is not known completely.                                        *)
Asks(terms, question, d) ==
  CASE question = "contains_top" -> Range(Operands(d))
    [] question = "partially_safe_ptr" -> {}
    [] question \in {"safe_ptr", "only_stores"} -> {u \in Users(terms, d) : Kind(u) = "lea"}

(* Mutation: as if there were one map for all questions.                   *)
KeyOfAny(question, d) == <<"any", d>>
Key(question, d) == <<question, d>>

Uncached(terms, cache, question, d) ==
  IF question = "contains_top"
  THEN Kind(d) = "top" \/ \E op \in Range(Operands(d)) : cache[Key(question, op)]
  ELSE \A u \in Users(terms, d) :
         \/ Kind(u) = "load" /\ question # "only_stores"
         \/ Kind(u) = "store" /\ u[5] # d
         \/ Kind(u) = "lea" /\ (question = "partially_safe_ptr" \/ cache[Key(question, u)])

RECURSIVE Cached(_, _, _, _)
Cached(terms, cache, question, d) ==
  IF Key(question, d) \in DOMAIN cache THEN cache
  ELSE LET ask(c, e) == Cached(terms, c, question, e)
           known     == FoldLeft(ask, cache, AnyOrder(Asks(terms, question, d)))
       IN  (Key(question, d) :> Uncached(terms, known, question, d)) @@ known

(* What the pass knows: the function, the mapping, the answers and the     *)
(* terms that were replaced.                                               *)
Known(st) == Terms(st.prog) \cup st.dead

Ask(st, question, d) == [st EXCEPT !.cache = Cached(Known(st), @, question, d)]
Answer(st, question, d) == st.cache[Key(question, d)]

IsImmutable(ptr) == Kind(ptr) = "global" /\ ~TypeOf(ptr)[2]

(* find_slot: the slot, if any, and st with what was asked.                *)
RECURSIVE SlotFrom(_, _, _)
SlotFrom(st, ptr, first) ==
  LET question == IF ptr = first THEN "safe_ptr" ELSE "partially_safe_ptr"
      asked    == Ask(st, question, ptr)
  IN  IF IsImmutable(ptr) THEN [st |-> st, slot |-> ptr]
      ELSE IF Answer(asked, question, ptr) /\ Kind(ptr) = "lea" THEN SlotFrom(asked, ptr[3], first)
      ELSE [st |-> asked, slot |-> IF Answer(asked, question, ptr) /\ Kind(ptr) = "slot" THEN ptr ELSE None]
FindSlot(st, ptr) == SlotFrom(st, ptr, ptr)

-----------------------------------------------------------------------------
(* mapping has what the slots and immutable globals are known to hold.     *)
GetValue(slot, mapping) ==
  IF slot \in DOMAIN mapping THEN mapping[slot]
  ELSE IF Kind(slot) = "global" THEN slot[3] ELSE Top(Pointee(slot))

(* Mutation: as if what is found in a slot were passed on as a whole.      *)
ExtractWhole(ptr, value) == value

RECURSIVE ExtractFromSlot(_, _)
ExtractFromSlot(ptr, value) ==
  IF Kind(ptr) = "lea" THEN Extract(ExtractFromSlot(ptr[3], value), ptr[4]) ELSE value

RECURSIVE InsertToSlot(_, _, _)
InsertToSlot(ptr, value, new) ==
  IF Kind(ptr) = "lea"
  THEN InsertToSlot(ptr[3], value, Insert(ExtractFromSlot(ptr[3], value), ptr[4], new)) ELSE new

(* What replaces old may be found among its operands; the dead remain.     *)
InPlace(d, old, new) == IF d = old THEN old ELSE Replaced(d, old, new)
Drop(st, old, new) ==
  LET renamed == [key \in DOMAIN st.cache |-> Key(key[1], InPlace(key[2], old, new))]
  IN  [st EXCEPT !.prog  = ReplaceUses(@, old, new),
                 !.dead  = {InPlace(d, old, new) : d \in @} \cup Subterms(old),
                 !.cache = [k \in Range(renamed) |-> @[CHOOSE key \in DOMAIN @ : renamed[key] = k]]]

(* process_use: st has what was asked to find the slot.                    *)
LoadFrom(st, load, value) ==
  LET asked == Ask(st, "contains_top", value)
  IN  IF Answer(asked, "contains_top", value) THEN asked
      ELSE [Drop(asked, load, Aggregate(TypeOf(load), <<load[3], value>>)) EXCEPT !.todo = TRUE]

ProcessLoad(found, load) ==
  IF found.slot = None THEN found.st
  ELSE LoadFrom(found.st, load, ExtractFromSlot(load[4], GetValue(found.slot, found.st.mapping)))

StoreTo(st, slot, store) ==
  LET asked == Ask(st, "only_stores", slot)
  IN  IF Answer(asked, "only_stores", slot) THEN Drop(asked, store, store[3])
      ELSE [asked EXCEPT !.mapping =
              (slot :> InsertToSlot(store[4], GetValue(slot, st.mapping), store[5])) @@ @]

ProcessStore(found, store) ==
  IF found.slot = None THEN found.st ELSE StoreTo(found.st, found.slot, store)

ProcessEnter(st, enter) ==
  LET slots == {u \in Users(Known(st), Out(enter, 1)) : Kind(u) = "slot"}
  IN  [st EXCEPT !.mapping = [s \in slots |-> Bottom(Pointee(s))] @@ @]

ProcessUse(st, use) ==
  CASE Kind(use) = "load"  -> ProcessLoad(FindSlot(st, use[4]), use)
    [] Kind(use) = "store" -> ProcessStore(FindSlot(st, use[4]), use)
    [] Kind(use) = "enter" -> ProcessEnter(st, use)

(* Mutation: as if what one branch stores were known in the other.         *)
SplitNever(st, mapping) == st
Split(st, mapping) == [st EXCEPT !.mapping = mapping]

(* Every use of a memory goes on with the mapping of that memory.  After a *)
(* replacement the memory after use has no uses any more.                  *)
RECURSIVE ResolveFrom(_, _)
ResolveFrom(st, mem) ==
  LET follow(now, use) == ResolveFrom(ProcessUse(Split(now, st.mapping), use), Out(use, 0))
  IN  FoldLeft(follow, st, AnyOrder(MemUsers(st.prog, mem)))

ResolveLoads(prog) ==
  LET root(st, b) == IF IsMemParam(prog, b) THEN ResolveFrom(Split(st, << >>), MemParam(b)) ELSE st
  IN  FoldLeft(root, [prog |-> prog, mapping |-> << >>, cache |-> << >>, dead |-> {}, todo |-> FALSE], [b \in Blocks |-> b])

-----------------------------------------------------------------------------
(* hoist_enters: slots move to the frame of the entry's first enter.       *)
RECURSIVE EntersAfter(_, _)
EntersAfter(prog, mem) ==
  LET found(seq, use) == seq \o (IF Kind(use) = "enter" THEN <<use>> ELSE << >>) \o EntersAfter(prog, Out(use, 0))
  IN  FoldLeft(found, << >>, AnyOrder(MemUsers(prog, mem)))

FindEnters(prog, rpo) ==
  FlattenSeq([i \in DOMAIN rpo |-> IF IsMemParam(prog, rpo[i]) THEN EntersAfter(prog, MemParam(rpo[i])) ELSE << >>])

Hoistable(enters) == enters # << >> /\ enters[1][3] = MemParam(Entry)

MoveSlots(prog, enter, frame) ==
  LET slots == {u \in Terms(prog) : Kind(u) = "slot" /\ u[3] = Out(enter, 1)}
  IN  FoldLeft(LAMBDA p, slot : ReplaceUses(p, slot, Slot(TypeOf(slot)[1], TypeOf(slot)[2], frame)),
               prog, AnyOrder(slots))

(* The enters are taken from the last to the first: none has changed when  *)
(* its turn comes.                                                         *)
HoistEnters(prog, rpo) ==
  LET enters == FindEnters(prog, rpo)
      frame  == Out(enters[1], 1)
      hoist(p, enter) == ReplaceUses(MoveSlots(p, enter, frame), Out(enter, 0), enter[3])
      alone  == FoldLeft(hoist, prog, Reverse(Tail(enters)))
  IN  IF ~Hoistable(enters) THEN prog
      ELSE IF Users(Terms(alone), frame) = {} THEN ReplaceUses(alone, Out(enters[1], 0), enters[1][3])
      ELSE alone

-----------------------------------------------------------------------------
(* dead_load_opt: up from the memories that bodies pass on.  What is dead  *)
(* does not change while the pass drops it, so the last are dropped first. *)
IsMem(d) == Kind(d) \in {"param", "extract", "store"} /\ TypeOf(d) = "mem"

RECURSIVE Before(_)
Before(mem) ==
  CASE Kind(mem) = "extract" -> Before(mem[3])
    [] Kind(mem) \in MemOps  -> {mem} \cup Before(mem[3])
    [] Kind(mem) \notin MemOps \cup {"extract"} -> {}

IsDead(terms, op) == Kind(op) \in {"load", "enter"} /\ Users(terms, Out(op, 1)) = {}

Nothing(op) == Aggregate(TypeOf(op), <<op[3], Bottom(ElemTypes[TypeOf(op)][2])>>)

DeadLoadOpt(prog) ==
  LET passed == {d \in UNION {Range(Operands(prog[b].body)) : b \in Blocks} : IsMem(d)}
      dead   == {op \in UNION {Before(mem) : mem \in passed} : IsDead(Terms(prog), op)}
      last(op, other) == Cardinality(Before(op)) > Cardinality(Before(other))
  IN  FoldLeft(LAMBDA p, op : ReplaceUses(p, op, Nothing(op)), prog, SortSeq(AnyOrder(dead), last))

=============================================================================
