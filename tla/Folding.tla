------------------------------ MODULE Folding ------------------------------
(* World::arithop, cmp, cast, bitcast and select on integers and booleans: *)
(* the definition they give for an operation, folded and normalised. A     *)
(* value is its bit pattern; Undefined is what LLVM calls poison, of which *)
(* anything may be made. Vectors, floats and pointers are left out.        *)
EXTENDS Integers, FiniteSets, Sequences, Bitwise

CONSTANT Clients
(* Each client has vars and literals of one type of integers to begin with,*)
(* types it converts to, the tags it asks for and a bound built on the     *)
(* nodes it has. A type has a width, is signed or not, quick or not.       *)

VARIABLES client,  \* the client, which does not change
          defs     \* the definitions it has
vars == <<client, defs>>

Commutative == {"add", "mul", "and", "or", "xor"}
Associative == {"add", "mul", "and", "or", "xor"}
Bitops      == {"and", "or", "xor"}
Compares    == {"eq", "ne", "lt", "le", "gt", "ge"}

BoolType     == [width |-> 1, signed |-> FALSE, quick |-> FALSE]

ASSUME WidthAssumption ==
  \A c \in Clients : \A t \in c.types \cup {c.type} : t = BoolType \/ t.width \in Nat \ {0, 1}

(* A definition is its kind, its type and a value, a name or its operands. *)
None         == <<"none">>
Lit(t, v)    == <<"lit", t, v>>
Bottom(t)    == <<"bottom", t, 0>>
TypeOf(d)    == d[2]
Lhs(d)       == d[3]
Rhs(d)       == d[4]
IsLit(d)     == d[1] = "lit"
IsOp(d)      == d[1] \notin {"lit", "bottom", "var"}
From(d)      == d[3]
Operands(d)  == IF IsOp(d) THEN {d[i] : i \in 3 .. Len(d)} ELSE {}
ResultType(tag, a)    == IF tag \in Compares THEN BoolType ELSE TypeOf(a)
Node(tag, a, b)       == <<tag, ResultType(tag, a), a, b>>
SelectNode(cond, a, b) == <<"select", TypeOf(a), cond, a, b>>
Conversion(tag, to, a) == <<tag, to, a>>
Leaves       == {Lit(client.type, v) : v \in client.literals}
                \cup {<<"var", client.type, x>> : x \in client.vars}

-----------------------------------------------------------------------------
(* Arithmetic.                                                             *)
Wrap(t, n)   == n % 2^t.width
Smallest(t)  == IF t.signed THEN -(2^(t.width - 1)) ELSE 0
Largest(t)   == IF t.signed THEN 2^(t.width - 1) - 1 ELSE 2^t.width - 1
Number(t, v) == IF v > Largest(t) THEN v - 2^t.width ELSE v  \* what v stands for
Undefined    == -1
Abs(n)       == IF n < 0 THEN -n ELSE n
Quotient(m, n) == LET q == Abs(m) \div Abs(n) IN IF (m < 0) = (n < 0) THEN q ELSE -q
Compare(tag, m, n) ==
  CASE tag = "eq" -> m = n [] tag = "ne" -> m # n
    [] tag = "lt" -> m < n [] tag = "le" -> m <= n
    [] tag = "gt" -> m > n [] tag = "ge" -> m >= n
Bitop(tag, v, w) == CASE tag = "and" -> v & w [] tag = "or" -> v | w [] tag = "xor" -> v ^^ w

(* What the machine makes of an operation: be/llvm's instructions, nsw or  *)
(* nuw on quick types.                                                     *)
Machine(tag, t, v, w) ==
  LET m == Number(t, v)
      n == Number(t, w)
      Exact(e) == IF t.quick /\ e \notin Smallest(t) .. Largest(t) THEN Undefined ELSE Wrap(t, e)
  IN CASE v = Undefined \/ w = Undefined -> Undefined
       [] tag \in {"shl", "shr"} /\ w >= t.width -> Undefined
       [] tag \in {"div", "rem"} /\ (n = 0 \/ (t.signed /\ m = Smallest(t) /\ n = -1)) -> Undefined
       [] OTHER ->
          CASE tag = "add" -> Exact(m + n)
            [] tag = "sub" -> Exact(m - n)
            [] tag = "mul" -> Exact(m * n)
            [] tag = "shl" -> Exact(m * 2^w)
            [] tag = "shr" -> Wrap(t, m \div 2^w)
            [] tag = "div" -> Wrap(t, Quotient(m, n))
            [] tag = "rem" -> Wrap(t, m - n * Quotient(m, n))
            [] tag \in Bitops   -> Bitop(tag, v, w)
            [] tag \in Compares -> IF Compare(tag, m, n) THEN 1 ELSE 0

(* A cast truncates or extends, by the sign of what is cast; a bitcast of  *)
(* a value leaves its bits alone.                                          *)
MachineCast(from, to, v) ==
  CASE v = Undefined          -> Undefined
    [] from.width > to.width  -> v % 2^to.width
    [] from.width < to.width  -> IF from.signed THEN Wrap(to, Number(from, v)) ELSE v
    [] from.width = to.width  -> v

MachineSelect(c, v, w) == IF c = Undefined THEN Undefined ELSE IF c = 1 THEN v ELSE w

RECURSIVE Value(_, _)
Value(d, env) ==
  CASE d[1] = "lit"     -> d[3]
    [] d[1] = "var"     -> env[d[3]]
    [] d[1] = "bottom"  -> Undefined
    [] d[1] = "cast"    -> MachineCast(TypeOf(From(d)), TypeOf(d), Value(From(d), env))
    [] d[1] = "bitcast" -> Value(From(d), env)
    [] d[1] = "select"  -> MachineSelect(Value(d[3], env), Value(d[4], env), Value(d[5], env))
    [] OTHER            -> Machine(d[1], TypeOf(Lhs(d)), Value(Lhs(d), env), Value(Rhs(d), env))

-----------------------------------------------------------------------------
(* Literals: SInt and UInt, which throw BottomException for Undefined.     *)
SignedAdd(t, m, n) ==
  LET res == Number(t, Wrap(t, m + n))
  IN IF t.quick /\ (m < 0) = (n < 0) /\ (m < 0) # (res < 0) THEN Undefined ELSE Wrap(t, res)

MulOverflows(t, m, n) ==
  \/ m > 0  /\ n > 0  /\ m > Quotient(Largest(t), n)
  \/ m > 0  /\ n <= 0 /\ n < Quotient(Smallest(t), m)
  \/ m <= 0 /\ n > 0  /\ m < Quotient(Smallest(t), n)
  \/ m < 0  /\ n <= 0 /\ n < Quotient(Largest(t), m)

FoldSigned(tag, t, m, n) ==
  CASE tag = "add" -> SignedAdd(t, m, n)
    [] tag = "sub" -> SignedAdd(t, m, Number(t, Wrap(t, -n)))
    [] tag = "mul" -> IF t.quick /\ MulOverflows(t, m, n) THEN Undefined ELSE Wrap(t, m * n)
    [] tag \in {"div", "rem"} ->
         IF n = 0 \/ (m = Smallest(t) /\ n = -1) THEN Undefined
         ELSE Wrap(t, IF tag = "div" THEN Quotient(m, n) ELSE m - n * Quotient(m, n))
    [] tag = "shl" -> IF n >= t.width \/ n < 0 THEN Undefined ELSE Wrap(t, m * 2^n)

FoldUnsigned(tag, t, m, n) ==
  LET Checked(overflows, e) == IF t.quick /\ overflows THEN Undefined ELSE Wrap(t, e)
  IN CASE tag = "add" -> Checked(Wrap(t, m + n) < m, m + n)
       [] tag = "sub" -> Checked(Wrap(t, m - n) > m, m - n)
       [] tag = "mul" -> Checked(n # 0 /\ m > Largest(t) \div n, m * n)
       [] tag = "div" -> IF n = 0 THEN Undefined ELSE m \div n
       [] tag = "rem" -> IF n = 0 THEN Undefined ELSE m % n
       [] tag = "shl" -> Checked(n >= t.width, m * 2^n)

(* A shift right is not checked: by the amounts that C++ leaves undefined  *)
(* it gives something, here the sign.                                      *)
FoldValues(tag, t, v, w) ==
  LET m == Number(t, v)
      n == Number(t, w)
  IN CASE tag \in Bitops -> Bitop(tag, v, w)
       [] tag = "shr"    -> Wrap(t, m \div 2^w)
       [] OTHER          -> IF t.signed THEN FoldSigned(tag, t, m, n) ELSE FoldUnsigned(tag, t, m, n)

FoldLiterals(tag, a, b) ==
  LET v == FoldValues(tag, TypeOf(a), a[3], b[3])
  IN IF v = Undefined THEN Bottom(TypeOf(a)) ELSE Lit(TypeOf(a), v)

-----------------------------------------------------------------------------
(* World::cmp.                                                             *)
(* Mutation: as if the orders were exchanged and not reduced to lt and le. *)
MirroredBoth(tag) == CASE tag = "gt" -> "lt" [] tag = "lt" -> "gt" [] OTHER -> tag
Mirrored(tag) == CASE tag = "gt" -> "lt" [] tag = "ge" -> "le" [] OTHER -> tag

(* Mutation: as if the negation of a strict order were the other strict order.*)
NegateStrict(tag) == CASE tag = "eq" -> "ne" [] tag = "ne" -> "eq" [] tag = "lt" -> "gt"
                       [] tag = "le" -> "ge" [] tag = "gt" -> "lt" [] tag = "ge" -> "le"
Negate(tag) == CASE tag = "eq" -> "ne" [] tag = "ne" -> "eq" [] tag = "lt" -> "ge"
                 [] tag = "le" -> "gt" [] tag = "gt" -> "le" [] tag = "ge" -> "lt"

(* Mutation: as if the result of a comparison had the type of what is compared.*)
BoolUntyped(p) == Lit(client.type, IF p THEN 1 ELSE 0)
Bool(p) == Lit(BoolType, IF p THEN 1 ELSE 0)

Cmp(oldtag, l, r) ==
  LET tag == Mirrored(oldtag)
      a   == IF tag = oldtag THEN l ELSE r
      b   == IF tag = oldtag THEN r ELSE l
  IN IF "bottom" \in {a[1], b[1]} THEN Bottom(BoolType)
     ELSE IF IsLit(a) /\ IsLit(b)
     THEN Bool(Compare(tag, Number(TypeOf(a), a[3]), Number(TypeOf(b), b[3])))
     ELSE IF a = b THEN Bool(tag \in {"le", "eq"}) ELSE Node(tag, a, b)

-----------------------------------------------------------------------------
(* World::arithop: each rule gives a definition, or None if it does not    *)
(* apply, and the first one that applies decides.                          *)
Else(d, e)   == IF d = None THEN e ELSE d
IsZero(d)    == IsLit(d) /\ d[3] = 0
IsOne(d)     == IsLit(d) /\ d[3] = 1
IsAllset(d)  == IsLit(d) /\ d[3] = 2^TypeOf(d).width - 1
IsNot(d)     == d[1] = "xor" /\ IsAllset(Lhs(d))
Swaps(tag, a, b) == tag \in Commutative /\ IsLit(b)

RECURSIVE Arithop(_, _, _)

Identical(tag, a) ==
  LET t == TypeOf(a)
  IN CASE tag = "add"            -> Arithop("mul", Lit(t, Wrap(t, 2)), a)
       [] tag \in {"sub", "xor"} -> Lit(t, 0)
       [] tag \in {"and", "or"}  -> a
       [] tag = "div"            -> IF IsZero(a) THEN Bottom(t) ELSE Lit(t, 1)
       [] tag = "rem"            -> IF IsZero(a) THEN Bottom(t) ELSE Lit(t, 0)
       [] OTHER                  -> None

LeftLiteral(tag, a, b) ==
  CASE IsZero(a) /\ tag \in {"mul", "div", "rem", "and", "shl", "shr"} -> a
    [] IsZero(a) /\ tag \in {"add", "or", "xor"} -> b
    [] IsOne(a) /\ tag = "mul"    -> b
    [] IsAllset(a) /\ tag = "and" -> b
    [] IsAllset(a) /\ tag = "or"  -> a
    [] OTHER -> None

RightLiteral(tag, a, b) ==
  LET t == TypeOf(a)
  IN CASE IsZero(b) /\ tag \in {"div", "rem"} -> Bottom(t)
       [] IsZero(b) /\ tag \in {"shl", "shr"} -> a
       [] IsOne(b) /\ tag \in {"mul", "div"}  -> a
       [] IsOne(b) /\ tag = "rem"             -> Lit(t, 0)
       [] IsLit(b) /\ b[3] >= t.width /\ tag \in {"shl", "shr"} -> Bottom(t)
       [] OTHER -> None

(* Negations, and a comparison joined with its negation.                   *)
Complement(tag, a, b) ==
  CASE tag = "xor" /\ IsAllset(a) /\ IsNot(b)         -> Rhs(b)
    [] tag = "xor" /\ IsAllset(a) /\ b[1] \in Compares -> Cmp(Negate(b[1]), Lhs(b), Rhs(b))
    [] /\ tag \in {"or", "and"} /\ a[1] \in Compares /\ b[1] \in Compares
       /\ Lhs(a) = Lhs(b) /\ Rhs(a) = Rhs(b) /\ a[1] = Negate(b[1]) -> Bool(tag = "or")
    [] OTHER -> None

Dual(tag) == IF tag = "or" THEN "and" ELSE "or"

Distributivity(tag, a, b) ==
  IF tag \in {"or", "and"} /\ a[1] = Dual(tag) /\ b[1] = Dual(tag)
  THEN CASE Lhs(a) = Lhs(b) -> Arithop(Dual(tag), Lhs(a), Arithop(tag, Rhs(a), Rhs(b)))
         [] Lhs(a) # Lhs(b) /\ Rhs(a) = Rhs(b) ->
              Arithop(Dual(tag), Rhs(a), Arithop(tag, Lhs(a), Lhs(b)))
         [] OTHER -> None
  ELSE None

(* a is never an operand of its own, so the tests for that are left out.   *)
Absorption(tag, a, b) ==
  IF tag \in {"or", "and"} /\ b[1] = Dual(tag) /\ a \in Operands(b)
  THEN IF a = Lhs(b) THEN Rhs(b) ELSE Lhs(b)
  ELSE None

SharedOperand(tag, a, b) ==
  IF tag \in {"or", "and"} /\ a[1] = tag /\ b[1] = tag
  THEN CASE Lhs(a) = Lhs(b) -> Arithop(tag, Rhs(a), Rhs(b))
         [] Lhs(a) # Lhs(b) /\ Rhs(a) = Rhs(b) -> Arithop(tag, Lhs(a), Lhs(b))
         [] OTHER -> None
  ELSE None

(* Mutation: as if the operand next to the leading literal were forgotten. *)
ReassociationShort(tag, a, b) ==
  LET Leads(d) == d[1] = tag /\ IsLit(Lhs(d))
  IN IF tag \in Associative /\ TypeOf(a) # BoolType /\ IsLit(a) /\ Leads(b)
     THEN Arithop(tag, a, Rhs(b)) ELSE None

(* Literals move to the left of a chain of the same operation.             *)
Reassociation(tag, a, b) ==
  LET Leads(d) == d[1] = tag /\ IsLit(Lhs(d))
  IN IF tag \notin Associative \/ TypeOf(a) = BoolType THEN None
     ELSE CASE Leads(a) /\ Leads(b) ->
                 Arithop(tag, Arithop(tag, Lhs(a), Lhs(b)), Arithop(tag, Rhs(a), Rhs(b)))
            [] IsLit(a) /\ Leads(b) -> Arithop(tag, Arithop(tag, a, Lhs(b)), Rhs(b))
            [] ~Leads(a) /\ ~IsLit(a) /\ Leads(b) ->
                 Arithop(tag, Lhs(b), Arithop(tag, a, Rhs(b)))
            [] Leads(a) /\ ~Leads(b) -> Arithop(tag, Lhs(a), Arithop(tag, Rhs(a), b))
            [] OTHER -> None

Arithop(tag, l, r) ==
  IF IsLit(l) /\ IsLit(r) THEN FoldLiterals(tag, l, r)
  ELSE LET a == IF Swaps(tag, l, r) THEN r ELSE l
           b == IF Swaps(tag, l, r) THEN l ELSE r
       IN Else(IF a = b THEN Identical(tag, a) ELSE None,
          Else(LeftLiteral(tag, a, b),
          Else(RightLiteral(tag, a, b),
          Else(Complement(tag, a, b),
          Else(Distributivity(tag, a, b),
          Else(Absorption(tag, a, b),
          Else(SharedOperand(tag, a, b),
          Else(Reassociation(tag, a, b),
          Node(tag, a, b)))))))))

Allset(t)       == Lit(t, 2^t.width - 1)
ArithopNot(a)   == Arithop("xor", Allset(TypeOf(a)), a)
ArithopMinus(a) == Arithop("sub", Lit(TypeOf(a), 0), a)
Binop(tag, a, b) == IF tag \in Compares THEN Cmp(tag, a, b) ELSE Arithop(tag, a, b)

-----------------------------------------------------------------------------
(* World::cast, bitcast and select.                                        *)

(* Mutation: as if every literal were read as an unsigned integer.         *)
CastLiteralUnsigned(to, a) ==
  Lit(to, IF to = BoolType THEN (IF a[3] # 0 THEN 1 ELSE 0) ELSE Wrap(to, a[3]))

(* A literal is read as the integer of its type and written as one of to;  *)
(* a boolean is written as whether that integer is not zero.               *)
CastLiteral(to, a) ==
  LET n == Number(TypeOf(a), a[3])
  IN Lit(to, IF to = BoolType THEN (IF n # 0 THEN 1 ELSE 0) ELSE Wrap(to, n))

CastTo(to, a) ==
  CASE a[1] = "bottom" -> Bottom(to)
    [] a[1] # "bottom" /\ TypeOf(a) = to -> a
    [] IsLit(a) /\ TypeOf(a) # to -> CastLiteral(to, a)
    [] OTHER -> Conversion("cast", to, a)

(* What the chain of bitcasts that a ends goes through, from the last on.  *)
RECURSIVE Chain(_)
Chain(a) == IF a[1] = "bitcast" THEN <<a>> \o Chain(From(a)) ELSE <<a>>

BitcastTo(to, a) ==
  LET chain   == Chain(a)
      matches == {i \in DOMAIN chain : TypeOf(chain[i]) = to}
  IN CASE a[1] = "bottom" -> Bottom(to)
       [] a[1] # "bottom" /\ matches # {} -> chain[CHOOSE i \in matches : \A j \in matches : i <= j]
       [] IsLit(a) /\ matches = {} -> Lit(to, a[3])
       [] OTHER -> Conversion("bitcast", to, a)

(* Mutation: as if a negated condition did not exchange what is selected.  *)
SelectKept(cond, a, b) ==
  IF "bottom" \in {cond[1], a[1], b[1]} THEN Bottom(TypeOf(a))
  ELSE IF IsLit(cond) THEN (IF cond[3] = 1 THEN a ELSE b)
  ELSE IF a = b THEN a
  ELSE SelectNode(IF IsNot(cond) THEN Rhs(cond) ELSE cond, a, b)

Select(cond, a, b) ==
  IF "bottom" \in {cond[1], a[1], b[1]} THEN Bottom(TypeOf(a))
  ELSE IF IsLit(cond) THEN (IF cond[3] = 1 THEN a ELSE b)
  ELSE LET stripped == IF IsNot(cond) THEN <<Rhs(cond), b, a>> ELSE <<cond, a, b>>
       IN  IF stripped[2] = stripped[3] THEN stripped[2]
           ELSE SelectNode(stripped[1], stripped[2], stripped[3])

(* Def::rebuild: what is given for a node, or for the one asked for.       *)
Rebuild(d) ==
  CASE d[1] = "cast"    -> CastTo(TypeOf(d), From(d))
    [] d[1] = "bitcast" -> BitcastTo(TypeOf(d), From(d))
    [] d[1] = "select"  -> Select(d[3], d[4], d[5])
    [] OTHER            -> Binop(d[1], Lhs(d), Rhs(d))

-----------------------------------------------------------------------------
(* A client asks for one operation after the other on what it was given.   *)
(* It does not join and/or nodes with an operand in common: absorption     *)
(* drops the wrong one of them (README).                                   *)
Shares(tag, a, b) ==
  /\ tag \in {"and", "or"}
  /\ \/ a[1] = Dual(tag) /\ b \in Operands(a)
     \/ b[1] = Dual(tag) /\ a \in Operands(b)
     \/ a[1] = tag /\ b[1] = tag /\ Operands(a) \cap Operands(b) # {}

Binops == client.tags \ {"cast", "bitcast", "select", "not", "minus"}

AskedBinops ==
  {Node(q[1], q[2], q[3]) :
    q \in {r \in Binops \X defs \X defs :
      /\ TypeOf(r[2]) = TypeOf(r[3])
      /\ TypeOf(r[2]) = BoolType => r[1] \in Bitops \cup Compares
      /\ ~Shares(r[1], r[2], r[3])}}

(* An integer is not cast to a boolean: literals and the machine disagree. *)
AskedConversions ==
  {Conversion("cast", t, a) : t \in client.types, a \in {d \in defs : "cast" \in client.tags}}
  \cup {Conversion("bitcast", q[1], q[2]) :
          q \in {r \in client.types \X defs :
            "bitcast" \in client.tags /\ r[1].width = TypeOf(r[2]).width}}

(* The operands are no bottom: a select of one is bottom as a whole.       *)
AskedSelects ==
  {SelectNode(q[1], q[2], q[3]) :
    q \in {r \in {d \in defs : "select" \in client.tags /\ TypeOf(d) = BoolType} \X defs \X defs :
      TypeOf(r[2]) = TypeOf(r[3]) /\ "bottom" \notin {r[2][1], r[3][1]}}}

Asked == AskedBinops \cup AskedConversions \cup AskedSelects

Init == client \in Clients /\ defs = Leaves

Gives(d) == Cardinality(defs \ Leaves) < client.built /\ defs' = defs \cup {d} /\ UNCHANGED client

Build      == \E d \in Asked : Gives(Rebuild(d))
BuildNot   == "not" \in client.tags /\ \E d \in defs : Gives(ArithopNot(d))
BuildMinus == "minus" \in client.tags /\ \E d \in defs : TypeOf(d) # BoolType /\ Gives(ArithopMinus(d))

Next == Build \/ BuildNot \/ BuildMinus
Spec == Init /\ [][Next]_vars

-----------------------------------------------------------------------------
(* What is given for an operation has the type of the operation, and the   *)
(* operands of every node have one type (the assertion in World::arithop). *)
TypeOK ==
  /\ \A d \in Asked : TypeOf(Rebuild(d)) = TypeOf(d)
  /\ \A d \in defs : IsOp(d) /\ Len(d) = 4 => TypeOf(Lhs(d)) = TypeOf(Rhs(d))

Environments == [client.vars -> 0 .. 2^client.type.width - 1]

(* d can take the place of e: whatever the parameters are, d has the value *)
(* that the machine would compute for e, unless that is undefined.         *)
Refines(d, e) ==
  \A env \in Environments : LET v == Value(e, env) IN v = Undefined \/ Value(d, env) = v

(* The definition given for an operation computes what the operation asked *)
(* for does, on any definitions that were given before; and the negations  *)
(* are those of the machine.                                               *)
FoldSound ==
  /\ \A d \in Asked : Refines(Rebuild(d), d)
  /\ "not" \in client.tags =>
       \A d \in defs, env \in Environments :
         LET v == Value(d, env) IN v # Undefined => Value(ArithopNot(d), env) + v = 2^TypeOf(d).width - 1

(* World::rebuild asks for each node anew, on its own operands, and the    *)
(* importer counts on nothing changing: folding has nothing left to do.    *)
FoldStable == \A d \in defs : IsOp(d) => Rebuild(d) = d

=============================================================================
