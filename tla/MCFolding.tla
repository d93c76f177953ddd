------------------------------ MODULE MCFolding ------------------------------
(* Clients. Three bits tell the literal 2 and both limits apart; each rule *)
(* looks at no more than the operands of two nodes.                        *)
EXTENDS Folding

IntType(width, signed, quick) == [width |-> width, signed |-> signed, quick |-> quick]
Client(type, vars_, literals, tags, built) ==
  [type |-> type, types |-> {}, vars |-> vars_, literals |-> literals, tags |-> tags,
   built |-> built]

Arithmetic == {"add", "sub", "mul", "div", "rem", "shl", "shr"}
S2 == IntType(2, TRUE, FALSE)
U2 == IntType(2, FALSE, FALSE)
S3 == IntType(3, TRUE, FALSE)
U3 == IntType(3, FALSE, FALSE)
U4 == IntType(4, FALSE, FALSE)

WrappingSigned   == Client(S3, {"x"}, {0, 1, 4, 7}, Arithmetic \cup {"gt", "minus"}, 1)
WrappingUnsigned == Client(U3, {"x", "y"}, {0, 1, 7}, Arithmetic \cup Bitops \cup {"not"}, 1)
Chains           == Client(S3, {"x", "y"}, {3, 6}, {"add", "mul"}, 2)
Joins            == Client(U2, {"x", "y", "z"}, {}, {"and", "or"}, 2)
Comparing        == Client(S2, {"x", "y"}, {}, Bitops \cup {"eq", "ne", "gt", "le"}, 2)
QuickUnsigned    == Client(IntType(4, FALSE, TRUE), {}, {1, 9}, Arithmetic, 3)
QuickSigned      == Client(IntType(4, TRUE, TRUE), {}, {1, 9}, Arithmetic \ {"sub"}, 3)

(* Truncation, extension by sign and by zero and reinterpretation, each of *)
(* a value that was converted before.                                      *)
Converting == [Client(S3, {"x"}, {3, 6}, {"cast", "bitcast"}, 3) EXCEPT !.types = {S3, U3, U2, U4, S2}]
Truths     == [Client(S2, {"x"}, {1}, {"gt", "select", "cast"}, 3) EXCEPT !.types = {U3}]
Selecting  == Client(BoolType, {"x", "y", "z"}, {}, {"select", "not"}, 2)

Careful == {WrappingSigned, WrappingUnsigned, Chains, Joins, Comparing, QuickUnsigned, QuickSigned,
            Converting, Truths, Selecting}
=============================================================================
