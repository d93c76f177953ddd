-------------------------- MODULE PartialEvaluation --------------------------
(***************************************************************************)
(* PartialEvaluator (partial_evaluation.cpp): one run over what Main       *)
(* reaches, as a function of the world.  A run is a record of the fields   *)
(* of PartialEvaluator and of what it does to the world:                   *)
(*   prog, next, todo      as in Cleanup                                   *)
(*   queue, done           the continuations to examine and those enqueued *)
(*   cache                 from calls to the copies made for them          *)
(*   top_level             the continuations is_top_level was asked about  *)
(*   lower2cff             as in the code                                  *)
(*   limit                 the number of the first continuation with a gid *)
(*                         of 2 * boundary_ or more                        *)
(*   params_first          the order of hash tables: whether is_top_level  *)
(*                         meets parameters before continuations           *)
(*   stop                  "outgrown" once a copy would pass MaxConts, or  *)
(*                         "rejected" once App::verify fails, else empty   *)
(* pe_info is followed in both modes: its messages leave no trace.         *)
(***************************************************************************)
EXTENDS Mangle

(* CondEval::is_top_level: it answers TRUE to itself while it is asking.   *)
RECURSIVE AskTopLevel(_, _, _, _)
AskTopLevel(prog, memo, n, params_first) ==
  LET S     == Scope(prog, n)
      free  == {a \in UNION {Atoms(prog, m) : m \in S} :
                  (IsCont(a) \/ a[1] = "p") /\ a[2] \notin S}
      bound == \E a \in free : a[1] = "p"
      ask(answers, a) ==
        IF ~answers[n] THEN answers
        ELSE LET asked == AskTopLevel(prog, answers, a[2], params_first)
             IN  [asked EXCEPT ![n] = asked[a[2]]]
      asked == FoldSet(LAMBDA a, answers : ask(answers, a), (n :> TRUE) @@ memo, {a \in free : IsCont(a)})
  IN  CASE n \in DOMAIN memo -> memo
        [] n \notin DOMAIN memo /\ bound /\ params_first -> (n :> FALSE) @@ memo
        [] OTHER -> [asked EXCEPT ![n] = @ /\ ~bound]

(* FnType::is_returning: one parameter of order 1, whatever the others.    *)
Returning(prog, n) == Cardinality({i \in DOMAIN prog.params[n] : Order(prog.params[n][i]) = 1}) = 1

(* A parameter lower2cff may not leave, but for a top-level continuation.  *)
OnlyAtTopLevel(prog, n, i) == Order(prog.params[n][i]) = 1 /\ Returning(prog, n)
NeverLeft(prog, n, i)      == Order(prog.params[n][i]) >= 1 /\ ~OnlyAtTopLevel(prog, n, i)

(* The filter's condition on a parameter; a continuation counts as known.  *)
Holds(condition, arg) == condition = "always" \/ (condition = "known" /\ arg[1] # "p")

(* Mutation: as if the parameter of order 1 were allowed anywhere.         *)
EvalAnyLevel(w, b, i) ==
  LET callee == b[1][2]
  IN  \/ w.lower2cff /\ NeverLeft(w.prog, callee, i)
      \/ callee # Main /\ Cardinality(Occurrences(w.prog, callee)) < 2
      \/ w.prog.filter[callee] # << >> /\ Holds(w.prog.filter[callee][i], b[i + 1])

(* CondEval::eval of the i-th argument of call b, after AskTopLevel.       *)
Eval(w, b, i) ==
  LET callee == b[1][2]
  IN  \/ /\ w.lower2cff
         /\ \/ NeverLeft(w.prog, callee, i)
            \/ OnlyAtTopLevel(w.prog, callee, i) /\ ~w.top_level[callee]
      \/ callee # Main /\ Cardinality(Occurrences(w.prog, callee)) < 2
      \/ w.prog.filter[callee] # << >> /\ Holds(w.prog.filter[callee][i], b[i + 1])

(* For every parameter of the callee the argument it is specialised by.    *)
Specialize(w, b) ==
  [i \in 1 .. Len(b) - 1 |-> IF Eval(w, b, i) THEN b[i + 1] ELSE Keep]

(* jump_to_dropped_call: what was not specialised is passed to the copy.   *)
DroppedCall(b, target, specialize) ==
  LET kept == SelectSeq([i \in DOMAIN specialize |-> i], LAMBDA i : specialize[i] = Keep)
  IN  <<K(target)>> \o [j \in DOMAIN kept |-> b[kept[j] + 1]]

Enqueue(w, n) ==
  IF n < w.limit /\ n \notin w.done
  THEN [w EXCEPT !.done = @ \cup {n}, !.queue = Append(@, n)] ELSE w

(* Continuation::succs, in the order of the operands.                      *)
EnqueueSuccs(w, n) ==
  LET conts == SelectSeq(w.prog.body[n], IsCont)
  IN  FoldLeft(Enqueue, w, [j \in DOMAIN conts |-> conts[j][2]])

(* The call of n is one of a specialised copy, a new one or that from the  *)
(* cache; lower2cff examines n again.                                      *)
Fold(w, n, specialize) ==
  LET b      == w.prog.body[n]
      callee == b[1][2]
      hit    == b \in DOMAIN w.cache
      target == IF hit THEN w.cache[b] ELSE w.next
      last   == w.next + Len(Copied(w.prog, callee, Within(w.prog, callee, << >>)))
      prog   == IF hit THEN w.prog ELSE Drop(w.prog, callee, specialize, w.next)
      call   == DroppedCall(b, target, specialize)
      folded == [w EXCEPT !.prog  = Jump(prog, n, call),
                          !.next  = IF hit THEN @ ELSE last + 1,
                          !.todo  = @ \/ ~hit,
                          !.cache = (b :> target) @@ @]
  IN  IF ~hit /\ last > MaxConts THEN [w EXCEPT !.stop = "outgrown"]
      ELSE IF Len(call) # Len(prog.params[target]) + 1 THEN [w EXCEPT !.stop = "rejected"]
      ELSE IF w.lower2cff THEN [folded EXCEPT !.queue = Append(@, n)]
      ELSE EnqueueSuccs(folded, n)

(* eat_pe_info: one about something known is dropped and n examined again, *)
(* the continuation after any other is examined next.                      *)
EatInfo(w, n) ==
  LET b == w.prog.body[n]
  IN  CASE b[2][1] # "p" -> [w EXCEPT !.prog = Jump(@, n, <<b[3]>>), !.queue = Append(@, n)]
        [] b[2][1] = "p" /\ IsCont(b[3]) -> [w EXCEPT !.queue = Append(@, b[3][2])]
        [] OTHER -> w

Examine(w, n) ==
  LET b          == w.prog.body[n]
      callee     == b[1][2]
      asks       == w.lower2cff /\ \E i \in DOMAIN w.prog.params[callee] : OnlyAtTopLevel(w.prog, callee, i)
      asked      == IF asks THEN [w EXCEPT !.top_level = AskTopLevel(w.prog, @, callee, w.params_first)] ELSE w
      specialize == Specialize(asked, b)
  IN  CASE b = << >> -> w
        [] b # << >> /\ b[1] = Info -> EatInfo(w, n)
        [] b # << >> /\ b[1][1] = "k" /\ HasBody(w.prog, callee) ->
             IF Range(specialize) \subseteq {Keep} THEN EnqueueSuccs(asked, n) ELSE Fold(asked, n, specialize)
        [] OTHER -> EnqueueSuccs(w, n)

RECURSIVE ExamineQueue(_)
ExamineQueue(w) ==
  IF w.queue = << >> \/ w.stop # "" THEN w
  ELSE ExamineQueue(Examine([w EXCEPT !.queue = Tail(@)], Head(w.queue)))

(* Gids count the definitions of all worlds so far: how many copies fit    *)
(* below 2 * boundary_ depends on what else there was, but as many do as   *)
(* there are continuations, whose definitions are below boundary_ at least *)
(* twice, in this world and in the one it was imported from.               *)
Limits(next) == {2 * next, MaxConts + 1}

PartialEvaluator(prog, next, lower2cff, params_first, limit) ==
  ExamineQueue(
    [prog |-> prog, next |-> next, todo |-> FALSE, queue |-> <<Main>>, done |-> {Main},
     cache |-> << >>, top_level |-> (Main :> TRUE), lower2cff |-> lower2cff, limit |-> limit,
     params_first |-> params_first, stop |-> ""])

=============================================================================
