------------------------------- MODULE Mangle -------------------------------
(***************************************************************************)
(* Mangler (mangle.cpp): a copy of the scope of entry with parameters      *)
(* dropped in favour of arguments and definitions lifted into parameters,  *)
(* and Importer (importer.cpp): a copy of what the externals reach.        *)
(***************************************************************************)
EXTENDS Programs

Keep == <<"keep">>       (* a null entry of args: the parameter remains    *)

(* What is copied: the scope, and what uses a lifted definition outside of *)
(* it; what is in the scope already, as the entry, is not followed.        *)
Within(prog, entry, lift) ==
  LET scope      == Scope(prog, entry)
      uses(n, S) == \E a \in Atoms(prog, n) : a \in Range(lift) \/ ((IsCont(a) \/ a[1] = "p") /\ a[2] \in S)
      grow[k \in 0 .. Rounds(prog)] ==
        LET S == IF k = 0 THEN {} ELSE grow[k - 1]
        IN  S \cup {n \in Live(prog) \ scope : uses(n, S)}
  IN  scope \cup (IF lift = << >> THEN {} ELSE grow[Rounds(prog)])

(* mangle reaches them from entry's body, in the order operands are met.   *)
RECURSIVE Visit(_, _, _, _)
Visit(prog, todo, within, seen) ==
  IF todo = << >> THEN seen
  ELSE LET n == Head(todo)[2]
       IN  IF Head(todo)[1] \notin {"k", "p", "g"} \/ n \notin within \/ n \in Range(seen)
           THEN Visit(prog, Tail(todo), within, seen)
           ELSE Visit(prog, prog.body[n] \o Tail(todo), within, Append(seen, n))

Copied(prog, entry, within) == Visit(prog, prog.body[entry], within \ {entry}, << >>)

(* Mutation: a recursive call always goes to the original.                 *)
SubstitutesNever(b, args) == FALSE

(* A recursive call goes to the copy if it passes what was dropped, and to *)
(* the original otherwise.                                                 *)
Substitutes(b, args) == \A i \in DOMAIN args : args[i] # Keep => b[i + 1] = args[i]

TypeOf(prog, a) == IF a[1] = "p" THEN prog.params[a[2]][a[3]] ELSE "v"

(* The copies get the numbers from first on, the new entry the first.      *)
Mangle(prog, entry, args, lift, within, first) ==
  LET copied == Copied(prog, entry, within)
      id(n)  == first + (CHOOSE j \in DOMAIN copied : copied[j] = n)
      kept   == SelectSeq([i \in DOMAIN args |-> i], LAMBDA i : args[i] = Keep)
      place(s, x) == CHOOSE j \in DOMAIN s : s[j] = x
      new(a) ==
        CASE a \in Range(lift)                    -> P(first, Len(kept) + place(lift, a))
          [] a[1] = "p" /\ a[2] = entry           ->
               IF args[a[3]] = Keep THEN P(first, place(kept, a[3])) ELSE args[a[3]]
          [] a[1] \in {"k", "p", "g"} /\ a[2] \in Range(copied) -> [a EXCEPT ![2] = id(a[2])]
          [] OTHER -> a
      lifted == [j \in DOMAIN lift |-> P(first, Len(kept) + j)]
      body(b) ==
        LET nb == [i \in DOMAIN b |-> new(b[i])]
        IN  IF nb[1] = K(entry) /\ Substitutes(nb, args)
            THEN <<K(first)>> \o [j \in DOMAIN kept |-> nb[kept[j] + 1]] \o lifted
            ELSE App(nb)
      source(n) == IF n = first THEN entry ELSE copied[n - first]
      range == first .. first + Len(copied)
  IN  [params |-> [n \in Conts |->
                     IF n = first THEN [j \in DOMAIN kept |-> prog.params[entry][kept[j]]]
                                         \o [j \in DOMAIN lift |-> TypeOf(prog, lift[j])]
                     ELSE IF n \in range THEN prog.params[source(n)] ELSE prog.params[n]],
       filter |-> [n \in Conts |->
                     CASE n = first /\ prog.filter[entry] # << >> ->
                            [j \in DOMAIN kept |-> prog.filter[entry][kept[j]]] \o [j \in DOMAIN lift |-> "never"]
                       [] n \in range /\ (n # first \/ prog.filter[entry] = << >>) -> prog.filter[source(n)]
                       [] OTHER -> prog.filter[n]],
       body   |-> [n \in Conts |->
                     IF n \in range THEN body(prog.body[source(n)]) ELSE prog.body[n]]]

Drop(prog, entry, args, first) == Mangle(prog, entry, args, << >>, Within(prog, entry, << >>), first)

-----------------------------------------------------------------------------
(* Importer::import of Main: continuations are created as they are met.    *)
Imported(prog) == <<Main>> \o Visit(prog, prog.body[Main], Conts \ {Main}, << >>)

Import(prog) ==
  LET order == Imported(prog)
      id(n) == CHOOSE j \in DOMAIN order : order[j] = n
      new(a) == IF a[1] \in {"k", "p", "g"} THEN [a EXCEPT ![2] = id(a[2])] ELSE a
      of(field, n) == IF n \in DOMAIN order THEN field[order[n]] ELSE << >>
      body(n) == [i \in DOMAIN of(prog.body, n) |-> new(prog.body[order[n]][i])]
  IN  [params |-> [n \in Conts |-> of(prog.params, n)],
       filter |-> [n \in Conts |-> of(prog.filter, n)],
       body   |-> [n \in Conts |-> IF n \in DOMAIN order THEN App(body(n)) ELSE << >>]]

=============================================================================
