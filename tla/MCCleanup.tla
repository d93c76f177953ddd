------------------------------ MODULE MCCleanup ------------------------------
(* Kinds of initial programs.                                              *)
EXTENDS Cleanup

(* Every continuation but Main has one of the same bodies, and no filter.  *)
Kind(shape, bodies, mains) ==
  [shape |-> shape, bodies |-> [n \in DOMAIN shape |-> IF n = Main THEN mains ELSE bodies],
   filters |-> << >>, pe_done |-> TRUE, shared |-> TRUE]
AnyBody(shape, literals) == Kind(shape, Bodies(shape, literals), Bodies(shape, literals))

(* main(ret) calls a function of one value with two blocks: loops, branches.*)
Loops ==
  LET shape  == <<"ck", "cv", "c0", "c0">>
      all    == Bodies(shape, {"true"})
      calls  == {b \in all : b[1] # Br}
      leaves == {b \in calls : b[1] \in {K(2), P(1, 1)}}
  IN  [Kind(shape, all, {b \in leaves : b[1] = K(2)}) EXCEPT !.bodies[4] = leaves]

(* main(x, ret) calls a function of two values and a place to return to,   *)
(* with two blocks: loops whose parameters vary, are exchanged or repeated.*)
Swaps ==
  LET values == {P(2, 1), P(2, 2)}
      blocks == {K(3), K(4)}
      bodies == {<<K(2), v, w, P(2, 3)>> : v \in values, w \in values}
                  \cup {<<P(2, 3), P(2, 1)>>} \cup {<<k>> : k \in blocks}
                  \cup {<<Br, v, K(3), K(4)>> : v \in values}
      mains  == {<<K(2), P(1, 1), Lit("true"), P(1, 2)>>}
  IN  Kind(<<"main", "cvvk", "c0", "c0">>, bodies, mains)

(* main(x, ret), a function like it and a return point: calls and returns. *)
CallsOn(literals) ==
  LET kind == AnyBody(<<"cvk", "cvk", "cv">>, literals)
  IN  [kind EXCEPT !.bodies[3] = {b \in @ : b[1] # K(3)}]

BottomOnly == {CallsOn({"bottom"})}
=============================================================================
