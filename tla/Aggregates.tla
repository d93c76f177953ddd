----------------------------- MODULE Aggregates -----------------------------
(***************************************************************************)
(* Definitions as terms, and what World gives for extract, insert, select  *)
(* and aggregates of them.  A term is a kind, a type and operands, so that *)
(* equal terms are one definition, as World::cse makes them; replacing the *)
(* uses of a definition is replacing a term.  Indices have one type, and   *)
(* indefinite arrays are left out.                                         *)
(***************************************************************************)
EXTENDS Integers, Sequences

CONSTANT ElemTypes   (* the types of the elements, for every aggregate type *)

Kind(d)    == d[1]
TypeOf(d)  == d[2]
Lit(t, v)  == <<"lit", t, v>>
Bottom(t)  == <<"bottom", t>>
Top(t)     == <<"top", t>>
IsLit(d)   == Kind(d) = "lit"
Node(kind, t, ops) == <<kind, t>> \o ops
IsAgg(t)   == t \in DOMAIN ElemTypes

(* Extract::extracted_type: the elements of an array are of one type.      *)
ElemType(t, index) ==
  IF IsAgg(t) THEN ElemTypes[t][IF IsLit(index) /\ index[3] < Len(ElemTypes[t]) THEN index[3] + 1 ELSE 1] ELSE t

FoldOneTuple(t, index) == IsLit(index) /\ index[3] = 0 /\ ~IsAgg(t)

(* try_fold_aggregate: what is taken apart and put together again.         *)
Aggregate(t, ops) ==
  LET from == IF ops # << >> /\ Kind(ops[1]) = "extract" THEN ops[1][3] ELSE Bottom(t)
  IN  IF /\ Kind(from) # "bottom" /\ TypeOf(from) = t
         /\ \A i \in DOMAIN ops : /\ Kind(ops[i]) = "extract" /\ ops[i][3] = from
                                  /\ IsLit(ops[i][4]) /\ ops[i][4][3] = i - 1
      THEN from ELSE Node("agg", t, ops)

(* An element other than the one inserted is looked for further down.      *)
Behind(index, insert) == IsLit(index) /\ IsLit(insert[4])

RECURSIVE Extract(_, _)
Extract(agg, index) ==
  LET t == TypeOf(agg) IN
  IF Kind(agg) \in {"bottom", "top"} THEN <<Kind(agg), ElemType(t, index)>>
  ELSE IF FoldOneTuple(t, index) THEN agg
  ELSE IF Kind(agg) = "agg" /\ IsLit(index)
       THEN IF index[3] < Len(agg) - 2 THEN agg[3 + index[3]] ELSE Bottom(ElemType(t, index))
  ELSE IF Kind(agg) = "insert" /\ agg[4] = index THEN agg[5]
  ELSE IF Kind(agg) = "insert" /\ Behind(index, agg) THEN Extract(agg[3], index)
  ELSE Node("extract", ElemType(t, index), <<agg, index>>)

(* What is not known of an aggregate is filled with elements of its kind.  *)
Filled(agg) ==
  IF Kind(agg) \in {"bottom", "top"} /\ IsAgg(TypeOf(agg))
  THEN Aggregate(TypeOf(agg), [i \in DOMAIN ElemTypes[TypeOf(agg)] |-> <<Kind(agg), ElemTypes[TypeOf(agg)][i]>>])
  ELSE agg

Insert(old, index, value) ==
  LET agg == Filled(old)
      t   == TypeOf(old)
  IN  IF Kind(old) \in {"bottom", "top"} /\ Kind(value) = "bottom" THEN old
      ELSE IF FoldOneTuple(t, index) THEN value
      ELSE IF Kind(agg) = "agg" /\ IsLit(index)
           THEN IF index[3] < Len(agg) - 2
                THEN Aggregate(t, [SubSeq(agg, 3, Len(agg)) EXCEPT ![index[3] + 1] = value]) ELSE Bottom(t)
      ELSE Node("insert", t, <<agg, index, value>>)

-----------------------------------------------------------------------------
(* What terms stand for: an aggregate is the sequence of its elements, each*)
(* of which may be undefined.                                              *)
CONSTANT Undefined

RECURSIVE UndefinedOf(_)
UndefinedOf(t) == IF IsAgg(t) THEN [i \in DOMAIN ElemTypes[t] |-> UndefinedOf(ElemTypes[t][i])] ELSE Undefined

Element(t, v, i)    == IF i \in 0 .. Len(v) - 1 THEN v[i + 1] ELSE UndefinedOf(ElemTypes[t][1])
Changed(t, v, i, x) == IF i \in 0 .. Len(v) - 1 THEN [v EXCEPT ![i + 1] = x] ELSE UndefinedOf(t)

(* v may take the place of w, which is undefined in at least those places. *)
RECURSIVE Covers(_, _, _)
Covers(t, w, v) ==
  IF IsAgg(t) THEN \A i \in DOMAIN ElemTypes[t] : Covers(ElemTypes[t][i], w[i], v[i])
  ELSE w = Undefined \/ w = v

=============================================================================
