----------------------------- MODULE SeaOfNodes -----------------------------
(***************************************************************************)
(* The "sea of nodes" of one thorin::World: the definitions (Def), their   *)
(* operands (ops_), their use lists (uses_), the dependence bits (dep_)   *)
(* and the hash-consing table (data_.defs_).                               *)
(*                                                                         *)
(* A definition is its gid.  The payload of a definition (type, literal,   *)
(* name, location) is left out: nodes are told apart by tag and operands.  *)
(* Operand positions count from 1, so that the body of a continuation is   *)
(* ops[c][1] and its filter ops[c][2] (op(0) and op(1) in the code).       *)
(***************************************************************************)
EXTENDS Integers, Sequences, FiniteSets

CONSTANTS
  MaxGid,      (* bound: the last gid a run may allocate                  *)
  MaxArgs,     (* bound: operands a client gives an App, PrimOp or MemOp  *)
  MaxParams    (* bound: parameters a client gives a new continuation     *)

ASSUME BoundsAssumption ==
  /\ MaxGid \in Nat /\ MaxGid >= 7
  /\ MaxArgs \in Nat
  /\ MaxParams \in Nat

VARIABLES
  gidCounter,  (* Def::gid_counter_: the gid the next Def receives        *)
  tag,         (* tag_ of each Def, "None" for a gid not yet given out    *)
  ops,         (* ops_                                                    *)
  uses,        (* uses_: pairs <<position, user>>                         *)
  dep,         (* dep_                                                    *)
  hash,        (* hash_: what the hash cached at insertion was taken over *)
  sea,         (* data_.defs_                                             *)
  dead,        (* continuations with dead_ set                            *)
  mutated      (* history: structural nodes rewritten by replace_uses     *)

vars == <<gidCounter, tag, ops, uses, dep, hash, sea, dead, mutated>>

Gids == 1..MaxGid

(* The nodes World::World creates before any client: the branch intrinsic  *)
(* (1) with parameters 4..6 and end_scope (7); constructing them has put   *)
(* the bottom body (2) and the empty filter (3) into the sea.              *)
Branch      == 1
Bottom      == 2
EmptyFilter == 3
EndScope    == 7

Nominal    == {"Continuation", "Param"}       (* constructed with nom_      *)
ById       == {"MemOp"}                       (* vhash/equal go by identity *)
Structural == {"Bottom", "Filter", "App", "PrimOp"} \cup ById
Tags       == Nominal \cup Structural

Live            == {g \in Gids : tag[g] # "None"}
Tagged(ts)      == {g \in Live : tag[g] \in ts}
Continuations   == Tagged({"Continuation"})
Users(d)        == {use[2] : use \in uses[d]}
HasBody(c)      == tag[ops[c][1]] # "Bottom"

(* What vhash and equal look at.                                           *)
Key(t, os, g)   == IF t \in Nominal \cup ById THEN <<"gid", <<g>>>> ELSE <<t, os>>
Content(g)      == Key(tag[g], ops[g], g)

-----------------------------------------------------------------------------
(* Use lists.                                                              *)

UsesIn(d, u, os)    == {<<i, u>> : i \in {j \in DOMAIN os : os[j] = d}}
Register(us, u, os)   == [d \in Gids |-> us[d] \cup UsesIn(d, u, os)]
Unregister(us, u, os) == [d \in Gids |-> us[d] \ UsesIn(d, u, os)]

(* Mutation: set_op forgets to register the new use.                       *)
ResetUnregistered(us, u, i, old, new) == [us EXCEPT ![old] = @ \ {<<i, u>>}]

(* unset_op(i) followed by set_op(i, new) on definition u.                 *)
Reset(us, u, i, old, new) ==
  LET unset == [us EXCEPT ![old] = @ \ {<<i, u>>}]
  IN  [unset EXCEPT ![new] = @ \cup {<<i, u>>}]

(* The bits a definition of tag t collects from its operands.              *)
OwnDep(t)      == CASE t = "Continuation" -> {"Cont"} [] t = "Param" -> {"Param"} [] OTHER -> {}

(* Mutation: set_op forgets to collect the operand's bits.                 *)
DepOfOwn(t, os) == OwnDep(t)

DepOf(t, os)   == OwnDep(t) \cup (IF t \in Nominal THEN {} ELSE UNION {dep[os[i]] : i \in DOMAIN os})

-----------------------------------------------------------------------------
(* cse(new T(os)): the constructor takes gid gidCounter and registers its  *)
(* uses; a definition that is equal and is found is returned instead, and  *)
(* the new one unregistered, deleted and its gid given back.  A node whose *)
(* operands replace_uses has changed keeps the hash of its old operands:   *)
(* a lookup is certain to find a node only when hash and content agree,    *)
(* and otherwise finds it only if it lies on the probed slots by chance.   *)
Equal(t, os)    == {n \in sea : Content(n) = Key(t, os, gidCounter)}
SureHits(t, os) == {n \in Equal(t, os) : hash[n] = Content(n)}

(* Mutation: every lookup misses.                                          *)
AlwaysNew(t, os) == {gidCounter}

CseResults(t, os) ==
  Equal(t, os) \cup (IF SureHits(t, os) = {} THEN {gidCounter} ELSE {})

(* Mutation: the discarded node is deleted without unregister_uses.        *)
CseUsesLeft(b, os) == Register(uses, gidCounter, os)

CseUses(b, os) ==
  IF b = gidCounter THEN Register(uses, b, os)
  ELSE Unregister(Register(uses, gidCounter, os), gidCounter, os)

(* Mutation: a discarded node's gid is given back twice.                   *)
InsertGivingBackTwice(b, t, os) ==
  /\ gidCounter' = IF b = gidCounter THEN gidCounter + 1 ELSE gidCounter - 1
  /\ UNCHANGED <<tag, dep, hash, sea>>

(* Mutation: a discarded node's gid is lost.                               *)
InsertLosingGid(b, t, os) ==
  /\ gidCounter' = gidCounter + 1
  /\ tag'  = [tag EXCEPT ![b] = t]
  /\ dep'  = [dep EXCEPT ![b] = IF b = gidCounter THEN DepOf(t, os) ELSE @]
  /\ hash' = [hash EXCEPT ![b] = IF b = gidCounter THEN Key(t, os, b) ELSE @]
  /\ sea'  = sea \cup {b}

(* Everything cse changes but ops and uses.                                *)
Insert(b, t, os) ==
  /\ gidCounter' = IF b = gidCounter THEN gidCounter + 1 ELSE gidCounter
  /\ tag'  = [tag EXCEPT ![b] = t]
  /\ dep'  = IF b = gidCounter THEN [dep EXCEPT ![b] = DepOf(t, os)] ELSE dep
  /\ hash' = IF b = gidCounter THEN [hash EXCEPT ![b] = Key(t, os, b)] ELSE hash
  /\ sea'  = sea \cup {b}

-----------------------------------------------------------------------------
(* Values a client holds and passes as operands: everything it has created *)
(* that may be the argument of an App; not the parameters of intrinsics.   *)
Operands ==
  {g \in Tagged({"Continuation", "Param", "PrimOp", "MemOp"}) :
      /\ g \notin {1, 4, 5, 6, 7} \cup dead
      /\ tag[g] = "Param" => ops[g][1] \notin dead}

(* The arity in a continuation's type: apps and filters must agree with it. *)
Arity(c) == Cardinality({p \in Tagged({"Param"}) : ops[p] = <<c>>})

Mutable == Continuations \ {Branch, EndScope}
Args    == UNION {[1..n -> Operands] : n \in 0..MaxArgs}

NewPrimOp(t, os) ==
  /\ t \in {"PrimOp", "MemOp"}
  /\ \E b \in CseResults(t, os) \cap Gids :
       /\ Insert(b, t, os)
       /\ ops'  = [ops EXCEPT ![b] = os]
       /\ uses' = CseUses(b, os)
  /\ UNCHANGED <<dead, mutated>>

(* World::continuation: the constructor puts the definition into the sea   *)
(* with the bottom body and the empty filter, then its n parameters follow.*)
NewContinuation(n) ==
  LET c  == gidCounter
      ps == c + 1 .. c + n
      t(g)  == IF g = c THEN "Continuation" ELSE "Param"
      os(g) == IF g = c THEN <<Bottom, EmptyFilter>> ELSE <<c>>
  IN  /\ c + n \in Gids
      /\ gidCounter' = c + n + 1
      /\ tag'  = [g \in Gids |-> IF g \in {c} \cup ps THEN t(g) ELSE tag[g]]
      /\ ops'  = [g \in Gids |-> IF g \in {c} \cup ps THEN os(g) ELSE ops[g]]
      /\ dep'  = [g \in Gids |-> IF g \in {c} \cup ps THEN OwnDep(t(g)) ELSE dep[g]]
      /\ hash' = [g \in Gids |-> IF g \in {c} \cup ps THEN Key(t(g), os(g), g) ELSE hash[g]]
      /\ uses' = [Register(uses, c, os(c)) EXCEPT ![c] = @ \cup {<<1, p>> : p \in ps}]
      /\ sea'  = sea \cup {c}
      /\ UNCHANGED <<dead, mutated>>

(* Continuation::append_param.                                             *)
AppendParam(c) ==
  LET p == gidCounter
  IN  /\ p \in Gids
      /\ gidCounter' = p + 1
      /\ tag'  = [tag  EXCEPT ![p] = "Param"]
      /\ ops'  = [ops  EXCEPT ![p] = <<c>>]
      /\ dep'  = [dep  EXCEPT ![p] = OwnDep("Param")]
      /\ hash' = [hash EXCEPT ![p] = Key("Param", <<c>>, p)]
      /\ uses' = Register(uses, p, <<c>>)
      /\ UNCHANGED <<sea, dead, mutated>>

(* cse(new T(os)), then unset_op(i) and set_op(i, result) on c: the body   *)
(* and the filter of a continuation are replaced this way.                 *)
BuildInto(c, i, t, os) ==
  /\ \E b \in CseResults(t, os) \cap Gids :
       /\ Insert(b, t, os)
       /\ ops'  = [ops EXCEPT ![b] = os, ![c][i] = b]
       /\ uses' = Reset(CseUses(b, os), c, i, ops[c][i], b)
  /\ UNCHANGED <<dead, mutated>>

(* Continuation::jump; App's constructor asserts a live callee, and as many *)
(* arguments as its type has.                                              *)
Jump(c, callee, args) ==
  /\ callee \notin dead
  /\ callee \in Continuations => Len(args) = Arity(callee)
  /\ BuildInto(c, 1, "App", <<callee>> \o args)

(* World::filter, then Continuation::set_filter.                           *)
SetFilter(c, conditions) ==
  /\ Len(conditions) \in {0, Arity(c)}
  /\ BuildInto(c, 2, "Filter", conditions)

(* Continuation::destroy: destroy_filter, then the bottom body.            *)
Destroy(c) ==
  /\ ops'  = [ops EXCEPT ![c] = <<Bottom, EmptyFilter>>]
  /\ uses' = Reset(Reset(uses, c, 2, ops[c][2], EmptyFilter), c, 1, ops[c][1], Bottom)
  /\ dead' = dead \cup {c}
  /\ UNCHANGED <<gidCounter, tag, dep, hash, sea, mutated>>

(* Def::replace_uses: every user but a Param is rewritten in place, which  *)
(* changes neither its cached hash nor its slot in the sea; the use list   *)
(* is then cleared, the Params' uses with it.                              *)
ReplaceUses(d, with) ==
  LET moved   == {use \in uses[d] : tag[use[2]] # "Param"}
      users   == {use[2] : use \in moved}
  IN  /\ d # with
      /\ ops'  = [u \in Gids |-> [i \in DOMAIN ops[u] |-> IF <<i, u>> \in moved THEN with ELSE ops[u][i]]]
      /\ uses' = [uses EXCEPT ![d] = {}, ![with] = @ \cup moved]
      /\ dep'  = [u \in Gids |-> IF u \in users /\ tag[u] \notin Nominal THEN dep[u] \cup dep[with] ELSE dep[u]]
      /\ mutated' = mutated \cup {u \in users : tag[u] \notin Nominal}
      /\ UNCHANGED <<gidCounter, tag, hash, sea, dead>>

(* Passes replace a call by a call and a value by a value of its type.     *)
Replaceable(d, with) ==
  \/ {d, with} \subseteq Tagged({"App"})
  \/ /\ {d, with} \subseteq Operands
     /\ {d, with} \subseteq Continuations => Arity(d) = Arity(with)

(* Mutation: an App counts once however often it is used.                  *)
PotentialCallsUnshared(k) == {use \in uses[k] : tag[use[2]] # "Param"}

(* Continuation::can_be_inlined: a use as App counts once for every use of *)
(* that (hash-consed, hence shared) App, any other but a Param's once.     *)
PotentialCalls(k) ==
  UNION {CASE tag[use[2]] = "App"   -> {<<use, again>> : again \in uses[use[2]]}
           [] tag[use[2]] = "Param" -> {}
           [] OTHER                 -> {<<use, use>>} : use \in uses[k]}

CanBeInlined(k) == Cardinality(PotentialCalls(k)) < 2

-----------------------------------------------------------------------------
Init ==
  LET t(g) == CASE g \in {Branch, EndScope} -> "Continuation" [] g = Bottom -> "Bottom"
                [] g = EmptyFilter -> "Filter" [] g \in 4..6 -> "Param" [] OTHER -> "None"
      os(g) == CASE g \in {Branch, EndScope} -> <<Bottom, EmptyFilter>>
                 [] g \in 4..6 -> <<Branch>> [] OTHER -> << >>
  IN  /\ gidCounter = 8
      /\ tag  = [g \in Gids |-> t(g)]
      /\ ops  = [g \in Gids |-> os(g)]
      /\ uses = [d \in Gids |-> UNION {UsesIn(d, u, os(u)) : u \in 1..7}]
      /\ dep  = [g \in Gids |-> OwnDep(t(g))]
      /\ hash = [g \in Gids |-> Key(t(g), os(g), g)]
      /\ sea  = {Branch, Bottom, EmptyFilter, EndScope}
      /\ dead = {} /\ mutated = {}

Next ==
  \/ \E n \in 0..MaxParams : NewContinuation(n)
  \/ \E t \in {"PrimOp", "MemOp"}, os \in Args : NewPrimOp(t, os)
  \/ \E c \in Mutable \ dead :
       \/ AppendParam(c)
       \/ \E callee \in Operands, args \in Args : Jump(c, callee, args)
       \/ \E conditions \in Args : SetFilter(c, conditions)
       \/ Destroy(c)
  \/ \E d, with \in Live : Replaceable(d, with) /\ ReplaceUses(d, with)

Spec == Init /\ [][Next]_vars

-----------------------------------------------------------------------------
TypeOK ==
  /\ gidCounter \in 8..MaxGid + 1
  /\ tag  \in [Gids -> Tags \cup {"None"}]
  /\ ops  \in [Gids -> Seq(Gids)]
  /\ uses \in [Gids -> SUBSET (Nat \X Gids)]
  /\ dep  \in [Gids -> SUBSET {"Cont", "Param"}]
  /\ hash \in [Gids -> (Structural \cup {"gid", "None"}) \X Seq(Gids)]
  /\ sea \subseteq Gids /\ dead \subseteq Gids /\ mutated \subseteq Gids

(* A use in a definition's use list points back to it: the user is live    *)
(* and has the definition as that operand ("use doesn't point to def" in   *)
(* Cleaner::verify_closedness), through every create, discard, rewire and  *)
(* replace.                                                                *)
UsesPointBack ==
  \A d \in Gids : \A use \in uses[d] :
    /\ use[2] \in Live
    /\ use[1] \in DOMAIN ops[use[2]]
    /\ ops[use[2]][use[1]] = d

(* An operand knows its user ("can't find def in op's uses"): what         *)
(* unset_op and unregister_use assert before they erase.  Params are the   *)
(* exception the code makes: replace_uses drops their uses.                *)
OpsAreRegistered ==
  \A u \in Live : tag[u] # "Param" =>
    \A i \in DOMAIN ops[u] : <<i, u>> \in uses[ops[u][i]]

(* A gid names at most one definition ever: those given out are exactly    *)
(* the gids below the counter, although cse_base hands gids back.          *)
GidsContiguous == Live = 1 .. gidCounter - 1

(* Dependence bits cover the operands' bits, but for a node one of whose   *)
(* operands was itself rewritten later: replace_uses does not cascade.     *)
DepCoversOps ==
  \A u \in Live : tag[u] \notin Nominal =>
    \A i \in DOMAIN ops[u] : dep[ops[u][i]] \subseteq dep[u] \/ ops[u][i] \in mutated

(* Value unification: of the structural nodes replace_uses never touched,  *)
(* no two in the sea are equal.                                            *)
Unified ==
  \A m, n \in sea \ mutated : Content(m) = Content(n) => m = n

(* eta_conversion may inline the callee of a body only if that body is not *)
(* shared: when can_be_inlined holds of the callee, the body has exactly   *)
(* one use (the assertion before the jump in Cleaner::eta_conversion).     *)
InlinableBodyUnshared ==
  \A c \in {k \in Continuations : HasBody(k)} :
    LET body   == ops[c][1]
        callee == ops[body][1]
    IN  callee \in Continuations \ {c} /\ CanBeInlined(callee) => uses[body] = {<<1, c>>}

=============================================================================
