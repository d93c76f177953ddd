------------------------------ MODULE Programs ------------------------------
(***************************************************************************)
(* Programs in the form the transformations of thorin see them: numbered   *)
(* continuations, each with typed parameters, a filter and a body that is  *)
(* one App.  Operands are atoms: a continuation, a parameter, a literal, a *)
(* Global that holds a continuation, or an intrinsic; primitive operations *)
(* are left out.  A destroyed continuation, or a number not yet given out, *)
(* has the empty body.  A filter is empty or says of each parameter when   *)
(* partial evaluation specialises it: "never", "always", or if the argument*)
(* is "known".                                                             *)
(*                                                                         *)
(* Meaning is the reference all transformations are checked against: what  *)
(* a run of the external continuation Main does to its environment.        *)
(***************************************************************************)
EXTENDS Integers, SequencesExt

CONSTANT MaxConts      (* bound: continuations numbered in one world       *)

ASSUME MaxContsAssumption == MaxConts \in Nat \ {0}

Conts == 1 .. MaxConts
Main  == 1             (* the one external continuation                    *)

K(n)    == <<"k", n>>
P(n, i) == <<"p", n, i>>
G(n)    == <<"g", n>>  (* a Global whose initialiser is continuation n     *)
Lit(v)  == <<"l", v>>
Br      == <<"br">>
Info    == <<"info">>          (* pe_info(value, next)                     *)
Launch(accelerator) == <<"launch", accelerator>>   (* (kernel, next, ...)  *)
Bot     == Lit("bottom")

IsCont(a) == a[1] \in {"k", "g"}

(* Parameter types by name: a value, or a continuation taking parameters.  *)
Takes == [ c0 |-> << >>, cv |-> <<"v">>, cvvk |-> <<"v", "v", "cv">>,
           ck |-> <<"cv">>, cvk |-> <<"v", "cv">>, main |-> <<"v", "cv">>,
           kernel |-> <<"c0">>, cf |-> <<"v", "cvk">> ]
Order(type) == CASE type = "v" -> 0 [] type \in {"c0", "cv"} -> 1 [] OTHER -> 2

Params(prog, n)    == [i \in DOMAIN prog.params[n] |-> P(n, i)]
HasBody(prog, n)   == prog.body[n] # << >>
Live(prog)         == {n \in Conts : HasBody(prog, n)}
Rounds(prog)       == Cardinality(Live(prog))   (* enough for any closure  *)
Atoms(prog, n)     == Range(prog.body[n])
Mentioned(prog, n) == {a[2] : a \in {b \in Atoms(prog, n) : IsCont(b)}}

(* can_be_inlined: where continuations that are not destroyed mention g.   *)
Occurrences(prog, g) ==
  UNION {{<<n, i>> : i \in {j \in DOMAIN prog.body[n] : prog.body[n][j] \in {K(g), G(g)}}} : n \in Live(prog)}

(* World::app: a branch on a known condition or between equals is no       *)
(* branch.                                                                 *)
App(b) ==
  CASE b[1] = Br /\ b[2] \in {Lit("true"), Lit("false")} ->
         <<IF b[2] = Lit("true") THEN b[3] ELSE b[4]>>
    [] b[1] = Br /\ b[2] \notin {Lit("true"), Lit("false")} /\ b[3] = b[4] -> <<b[3]>>
    [] OTHER -> b

Jump(prog, n, b)      == [prog EXCEPT !.body[n] = App(b)]
Destroy(prog, n)      == [prog EXCEPT !.body[n] = << >>]
ReplaceUses(prog, a, with) ==
  [prog EXCEPT !.body = [n \in Conts |-> ReplaceAll(prog.body[n], a, with)]]

-----------------------------------------------------------------------------
(* Scope::run: what depends on entry's parameters, through continuations   *)
(* other than entry itself.                                                *)
AppInScope(b, entry, S) ==
  \E i \in DOMAIN b : \/ b[i][1] = "p" /\ b[i][2] \in S
                      \/ IsCont(b[i]) /\ b[i][2] \in S \ {entry}

Scope(prog, entry) ==
  LET grow[k \in 0 .. Rounds(prog)] ==
        IF k = 0 THEN {entry}
        ELSE LET S == grow[k - 1]
             IN  S \cup {n \in Live(prog) : AppInScope(prog.body[n], entry, S)}
  IN  grow[Rounds(prog)]

(* The continuations Scope::free leads to, the owners of free parameters   *)
(* included.                                                               *)
FreeConts(prog, entry) ==
  LET S == Scope(prog, entry)
  IN  {m \in Conts \ S : \E n \in S, a \in UNION {Atoms(prog, n) : n \in S} :
                            (IsCont(a) \/ a[1] = "p") /\ a[2] = m}

(* Parameters that occur in n, or in what n mentions, unbound.             *)
FreeParams(prog) ==
  LET own(n) == {a \in Atoms(prog, n) : a[1] = "p"}
      free[k \in 0 .. Rounds(prog)] ==
        IF k = 0 THEN [n \in Conts |-> own(n) \ Range(Params(prog, n))]
        ELSE LET of == free[k - 1]
             IN  [n \in Conts |-> (own(n) \cup UNION {of[m] : m \in Mentioned(prog, n)})
                                     \ Range(Params(prog, n))]
  IN  free[Rounds(prog)]

(* One App, for they are hash-consed, is the body of two continuations.     *)
SharesCall(prog) ==
  \E m, n \in Live(prog) : m # n /\ prog.body[m] = prog.body[n]

ReachableFrom(prog, start) ==
  LET reach[k \in 0 .. Rounds(prog)] ==
        IF k = 0 THEN {start}
        ELSE LET S == reach[k - 1] IN S \cup UNION {Mentioned(prog, n) : n \in S}
  IN  reach[Rounds(prog)]

Reachable(prog) == ReachableFrom(prog, Main)

(* What verify and App::verify ask of what Main reaches: no parameter is   *)
(* unbound, no continuation without a body is called, and calls pass as    *)
(* many arguments as there are parameters.                                 *)
WellFormed(prog) ==
  /\ FreeParams(prog)[Main] = {}
  /\ \A n \in Reachable(prog) :
       /\ HasBody(prog, n)
       /\ \A m \in Conts : prog.body[n][1] = K(m) => Len(prog.body[n]) = Len(prog.params[m]) + 1

-----------------------------------------------------------------------------
(* What a run does.  A value is a literal, an opaque value of the          *)
(* environment, or a closure: a continuation with the values its free      *)
(* parameters had.  Calling an opaque value is visible: the run goes on in *)
(* every function passed.  So is launching a kernel, on what the           *)
(* accelerator gives it and the arguments after next.  Opaque conditions   *)
(* hold if they were handed out at one of the given visible calls (the     *)
(* last's decide nothing that is seen).  A run of more than Silent calls   *)
(* between two visible ones counts as diverging.                           *)
Opaque(x, i, type) == <<"opaque", x, i, type>>

Value(a, env) ==
  CASE IsCont(a) -> <<"closure", a[2], env>>
    [] a[1] = "p" -> IF <<a[2], a[3]>> \in DOMAIN env THEN env[<<a[2], a[3]>>] ELSE <<"unbound">>
    [] OTHER      -> a

Enter(closure, args) ==
  FoldLeftDomain(LAMBDA env, i : (<<closure[2], i>> :> args[i]) @@ env, closure[3], args)

Call(body, env, hold) ==
  LET call == [i \in DOMAIN body |-> Value(body[i], env)]
      test == call[2] = Lit("true") \/ (call[2][1] = "opaque" /\ call[2][2] \in hold)
  IN  CASE call[1] = Br   -> <<IF test THEN call[3] ELSE call[4]>>
        [] call[1] = Info -> <<call[3]>>
        [] OTHER          -> call

RECURSIVE Run(_, _, _, _, _, _, _)
Run(prog, hold, f, args, silent, Silent, visible) ==
  LET body     == prog.body[f[2]]
      call     == Call(body, Enter(f, args), hold)
      takes(g) == IF g[1] = "closure" THEN prog.params[g[2]] ELSE Takes[g[4]]
      fresh(g) == [i \in DOMAIN takes(g) |-> Opaque(visible, i, takes(g)[i])]
      enter(g, given) == Run(prog, hold, g, given, Silent, Silent, visible - 1)
      shown(a) == IF a[1] = "closure" \/ (a[1] = "opaque" /\ Order(a[4]) > 0) THEN enter(a, fresh(a)) ELSE a
      extra    == SubSeq(args, 3, Len(args))
      kernel   == SubSeq(fresh(args[1]), 1, Len(fresh(args[1])) - Len(extra)) \o extra
  IN  CASE f[1] = "closure" /\ silent = 0 -> <<"diverges">>
        [] f[1] = "closure" /\ silent > 0 /\ body = << >> -> <<"stuck">>
        [] f[1] = "closure" /\ silent > 0 /\ body # << >> ->
             Run(prog, hold, Head(call), Tail(call), silent - 1, Silent, visible)
        [] f[1] # "closure" /\ visible = 0 -> <<"unobserved">>
        [] f[1] = "launch" /\ visible > 0 -> <<"launch", f, enter(args[1], kernel), shown(args[2])>>
        [] OTHER -> <<"call", f, [i \in DOMAIN args |-> shown(args[i])]>>

Meaning(prog, Silent, Visible) ==
  LET start == Visible + 1
      args  == [i \in DOMAIN prog.params[Main] |-> Opaque(start, i, prog.params[Main][i])]
  IN  [hold \in SUBSET (2 .. start) |->
         Run(prog, hold, <<"closure", Main, << >>>>, args, Silent, Silent, Visible)]

-----------------------------------------------------------------------------
(* What can be written down in a shape, the names of the types of the      *)
(* continuations; one of type "main" is not called from within.            *)
TypedAtoms(shape, t, literals) ==
  {K(n) : n \in {m \in DOMAIN shape : shape[m] = t}}
    \cup UNION {{P(n, i) : i \in {j \in DOMAIN Takes[shape[n]] : Takes[shape[n]][j] = t}}
                   : n \in DOMAIN shape}
    \cup (IF t = "v" THEN {Lit(v) : v \in literals} ELSE {})

Bodies(shape, literals) ==
  LET atoms(t) == TypedAtoms(shape, t, literals)
      args(ts) == {s \in [DOMAIN ts -> UNION {atoms(t) : t \in Range(ts)}] :
                     \A i \in DOMAIN ts : s[i] \in atoms(ts[i])}
  IN  {App(<<Br, c, t, f>>) : c \in atoms("v"), t \in atoms("c0"), f \in atoms("c0")}
        \cup UNION {{<<f>> \o s : f \in atoms(t), s \in args(Takes[t])} : t \in DOMAIN Takes \ {"main"}}

(* All programs of a shape whose continuations have one of the bodies and  *)
(* one of the filters given for them.                                      *)
ProgramsOf(shape, bodies, filters) ==
  LET given(s, n) == IF n \in DOMAIN s THEN s[n] ELSE << >>
      all(sets)   == FoldLeft(LAMBDA seqs, set : {Append(s, x) : s \in seqs, x \in set}, {<< >>}, sets)
      program(b, f) == [params |-> [n \in Conts |-> IF n \in DOMAIN shape THEN Takes[shape[n]] ELSE << >>],
                        filter |-> [n \in Conts |-> given(f, n)], body |-> [n \in Conts |-> given(b, n)]]
  IN  {prog \in {program(b, f) : b \in all(bodies), f \in all(filters)} : WellFormed(prog)}

=============================================================================
