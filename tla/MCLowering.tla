----------------------------- MODULE MCLowering -----------------------------
(***************************************************************************)
(* Functions of a memory, a counter n and an index x, with a slot s, an    *)
(* array a, an immutable array g and a mutable global c.                   *)
(***************************************************************************)
EXTENDS Lowering

Types == ("arr" :> <<"int", "int">>) @@ ("load int" :> <<"mem", "int">>)
         @@ ("load arr" :> <<"mem", "arr">>) @@ ("enter" :> <<"mem", "frame">>)

Num(v) == Lit("int", v)
N == Param(1, 2, "int")
X == Param(1, 3, "int")
Begin(mem) == Enter(mem)
Frame1 == Out(Enter(MemParam(1)), 1)
S == Slot("int", 1, Frame1)
A == Slot("arr", 2, Frame1)
G == Global(Aggregate("arr", <<Num(1), Num(2)>>), FALSE)
C == Global(Num(0), TRUE)
A0 == Lea(A, Num(0))
A1 == Lea(A, Num(1))
AX == Lea(A, X)
GX == Lea(G, X)
Both == Aggregate("arr", <<N, X>>)

(* A chain of operations: s.mem is the memory after it, s.last the value   *)
(* loaded last.                                                            *)
Last1 == <<"last", "int">>
St(ptr, v) == <<"st", ptr, v>>
Ld(ptr)    == <<"ld", ptr>>
Do(s, op) ==
  IF op[1] = "st" THEN [s EXCEPT !.mem = Store(@, op[2], IF op[3] = Last1 THEN s.last ELSE op[3])]
  ELSE LET load == Load(s.mem, op[2])
           v    == Out(load, 1)
       IN  [mem |-> Out(load, 0), last |-> IF TypeOf(v) = "arr" THEN Extract(v, Num(1)) ELSE v]
Chain(mem, ops) == FoldLeft(Do, [mem |-> mem, last |-> N], ops)

Block(params, body)   == [params |-> params, body |-> body]
Unreached             == Block(<< >>, None)
Function(blocks)      == [b \in Blocks |-> IF b \in DOMAIN blocks THEN blocks[b] ELSE Unreached]
EntryParams           == <<"mem", "int", "int">>
Ret(s)                == Node("ret", "ret", <<s.mem, s.last>>)

Stores == {St(p, v) : p \in {S, A0, AX, C}, v \in {N, Last1}} \cup {St(A, Both)}
Loads  == {Ld(p) : p \in {S, A1, AX, GX, C, A}}

(* One block.                                                              *)
Straight ==
  {Function(<<Block(EntryParams, Ret(Chain(Out(Enter(MemParam(1)), 0), <<o1, o2, fin>>)))>>) :
     o1 \in Stores \cup {Ld(C)}, o2 \in Stores \cup Loads, fin \in Loads}

(* A branch: its targets go on with the memory of the entry; the last case *)
(* is a match on the same value.                                           *)
Diamond(kind, o1, o2, o3, fin) ==
  LET s1 == Chain(Out(Enter(MemParam(1)), 0), <<o1>>)
      arm(o) == LET s == Chain(s1.mem, <<o>>) IN Node("jump", <<4>>, <<s.mem, s.last>>)
      s4 == Chain(MemParam(4), <<fin>>)
  IN  Function(<<Block(EntryParams, Node(kind, IF kind = "branch" THEN <<2, 3>> ELSE <<3, 3, 2>>, <<X>>)),
                 Block(<< >>, arm(o2)), Block(<< >>, arm(o3)),
                 Block(<<"mem", "int">>,
                       Node("ret", "ret", <<s4.mem, Node("add", "int", <<s4.last, Param(4, 2, "int")>>)>>))>>)

Diamonds == {Diamond(k, o1, o2, o3, fin) :
               k \in {"branch", "match"}, o1 \in {St(A, Both), St(S, N), St(C, N)},
               o2 \in {St(AX, N), Ld(A1), Ld(S), St(C, X)}, o3 \in {St(A0, X), St(S, X), Ld(AX), Ld(C)},
               fin \in {Ld(S), Ld(A), Ld(C)}}

(* A loop that counts n down and carries two more values, changed in turn, *)
(* exchanged, or kept behind the loop; its body may have a slot of its own.*)
Loop(o1, inner, o2, carry, fin) ==
  LET s1 == Chain(Out(Enter(MemParam(1)), 0), <<o1>>)
      i  == Param(2, 2, "int")
      v  == Param(2, 3, "int")
      w  == Param(2, 4, "int")
      m0 == IF inner THEN Out(Enter(MemParam(2)), 0) ELSE MemParam(2)
      t  == Slot("int", 3, Out(Enter(MemParam(2)), 1))
      s2 == Chain(m0, IF inner THEN <<St(t, i), o2, Ld(t)>> ELSE <<o2>>)
      s3 == Chain(MemParam(2), <<fin>>)
      next == CASE carry = "swap" -> <<w, v>>
                [] carry = "count" -> <<Node("add", "int", <<v, s2.last>>), v>>
                [] carry = "load" -> <<s2.last, w>>
  IN  Function(<<Block(EntryParams, Node("jump", <<2>>, <<s1.mem, N, X, s1.last>>)),
                 Block(<<"mem", "int", "int", "int">>, Node("branch", <<3, 4>>, <<i>>)),
                 Block(<< >>, Node("jump", <<2>>, <<s2.mem, Node("add", "int", <<i, Num(Numbers - 1)>>)>> \o next)),
                 Block(<< >>, Node("ret", "ret", <<s3.mem, Node("add", "int", <<s3.last, v>>)>>))>>)

LoopsAround == {Loop(o1, inner, o2, carry, fin) :
            o1 \in {St(S, N), St(A, Both), Ld(C)}, inner \in BOOLEAN,
            o2 \in {St(S, X), St(AX, Last1), Ld(A), Ld(A1), St(C, Last1)},
            carry \in {"swap", "count", "load"}, fin \in {Ld(S), Ld(AX)}}

(* A call, which is given a pointer it may store to.                       *)
Call(o1, o2, ptr, o3, fin) ==
  LET s1 == Chain(Out(Enter(MemParam(1)), 0), <<o1, o2>>)
      s2 == Chain(MemParam(2), <<o3, fin>>)
  IN  Function(<<Block(EntryParams, Node("call", <<2>>, <<s1.mem, s1.last, ptr>>)),
                 Block(<<"mem", "int">>, Node("ret", "ret", <<s2.mem, Node("add", "int", <<s2.last, Param(2, 2, "int")>>)>>))>>)

Calls(pointers, first, second) ==
  {Call(o1, o2, ptr, o3, fin) : o1 \in first, o2 \in second, ptr \in pointers,
                                o3 \in {St(S, X), St(A1, N), Ld(GX)}, fin \in {Ld(S), Ld(A1), Ld(A)}}

(* Once the pointer to an element is given away, the array is only stored  *)
(* to and read by element: find_slot does not track a store to the whole   *)
(* of it, but answers a load of another element.                           *)
Careful == Straight \cup Diamonds \cup LoopsAround
           \cup Calls({S, C}, {St(S, N), St(A, Both)}, {St(A1, X), Ld(S), Ld(A1)})
           \cup Calls({A0}, {St(S, N), St(A1, N)}, {St(A1, X), Ld(S), Ld(A1)})

Parameters == {<<n, x>> : n \in 0 .. 2, x \in 0 .. 1}
=============================================================================
