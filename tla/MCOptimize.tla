----------------------------- MODULE MCOptimize -----------------------------
(* Kinds of initial programs, besides those of MCCleanup.                  *)
EXTENDS Optimize, MCCleanup

(* Not yet partially evaluated, with filters for the continuations.        *)
Unevaluated(kind, filters) == [kind EXCEPT !.filters = filters, !.pe_done = FALSE, !.shared = FALSE]

(* main(x, ret) calls a function that calls itself or returns, specialised *)
(* for a value that is known.                                              *)
Shape    == <<"main", "cvk", "cv">>
CallsOf(n, literals) == {b \in Bodies(Shape, literals) : b[1] = K(n)}
Filtered ==
  LET kind == Kind(Shape, Bodies(Shape, {"true"}), CallsOf(2, {"true"}))
  IN  Unevaluated([kind EXCEPT !.bodies[3] = @ \ CallsOf(2, {"true"})],
                  <<{<< >>}, {<< >>, <<"known", "never">>}>>)

(* Or one that does not call itself, specialised for anything.             *)
Straight ==
  LET bodies == Bodies(Shape, {"true"}) \ CallsOf(2, {"true"})
  IN  Unevaluated(Kind(Shape, bodies, CallsOf(2, {"true"})),
                  <<{<< >>}, {<<"never", "always">>, <<"always", "known">>}>>)

(* pe_infos about what is known or not, one after another.                 *)
Informing ==
  LET info(n) == {<<Info, v, K(n)>> : v \in {P(1, 1), Lit("true")}}
      calls   == {<<P(1, 2), P(1, 1)>>, <<K(2)>>}
  IN  [shape |-> <<"main", "c0", "c0", "c0">>,
       bodies |-> <<info(2) \cup {<<Br, P(1, 1), K(2), K(3)>>}, info(3) \cup calls, info(4) \cup calls, calls>>,
       filters |-> << >>, pe_done |-> FALSE, shared |-> FALSE]

(* Functions within main that return, call each other or themselves, and   *)
(* use x: what lower2cff is for.                                           *)
Nested ==
  LET shape  == <<"main", "cvk", "cvk", "cv">>
      values == {P(1, 1)}
      calls(n) == {<<K(f), v, k>> : f \in {2, 3}, v \in {P(1, 1), P(n, 1)}, k \in {P(n, 2), K(4)}}
                     \cup {<<P(n, 2), v>> : v \in {P(1, 1), P(n, 1)}}
  IN  [shape |-> shape,
       bodies |-> <<{<<K(2), P(1, 1), P(1, 2)>>, <<K(2), P(1, 1), K(4)>>}, calls(2), calls(3),
                    {<<P(1, 2), v>> : v \in {P(1, 1), P(4, 1)}} \cup {<<K(3), P(4, 1), P(n, 2)>> : n \in {1, 2}}>>,
       filters |-> << >>, pe_done |-> TRUE, shared |-> TRUE]

(* A function that takes a function, and returns to main.                  *)
HigherOrder ==
  LET shape  == <<"main", "cf", "cvk", "cv">>
      bodies == Bodies(shape, {})
  IN  [Kind(shape, bodies, {<<K(2), P(1, 1), K(3)>>})
         EXCEPT !.bodies[3] = {b \in bodies : b[1] \notin {K(3), K(4)}},
                !.bodies[4] = {b \in bodies : b[1] \in {K(2), P(1, 2)}}]

(* main launches one kernel after the other, that use x and return.        *)
Launching ==
  LET launch(a, n) == {<<Launch(a), K(k), K(n)>> : k \in {2, 3}}
  IN  [shape |-> <<"main", "kernel", "kernel", "c0", "c0", "c0">>,
       bodies |-> <<launch("cuda", 4) \cup launch("vectorize", 4),
                    {<<P(2, 1)>>, <<Br, P(1, 1), P(2, 1), K(5)>>, <<K(3), P(2, 1)>>},
                    {<<P(3, 1)>>, <<Br, P(1, 1), P(3, 1), K(5)>>},
                    launch("cuda", 6) \cup {<<P(1, 2), P(1, 1)>>},
                    {<<P(2, 1)>>, <<P(3, 1)>>, <<K(5)>>},
                    {<<P(1, 2), P(1, 1)>>}>>,
       filters |-> << >>, pe_done |-> TRUE, shared |-> TRUE]

(* The functions of CallsOn, where main calls the first.                   *)
Calling == [CallsOn({}) EXCEPT !.bodies[1] = {<<K(2), P(1, 1), k>> : k \in {P(1, 2), K(3)}}]

(* As Filtered, but main and the continuation it returns to may go on with *)
(* the same call.                                                          *)
SharedCalls ==
  {[Unevaluated(Kind(Shape, Bodies(Shape, {"true"}), CallsOf(2, {"true"})), Filtered.filters)
      EXCEPT !.bodies[3] = CallsOf(2, {"true"}), !.shared = TRUE]}

(* All kinds: those of MCCleanup go through the whole pipeline too.        *)
OptKinds ==
  {Filtered, Straight, Informing, Nested, HigherOrder, Launching, Loops, Swaps, Calling}

=============================================================================
