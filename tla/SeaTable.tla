------------------------------ MODULE SeaTable ------------------------------
(***************************************************************************)
(* World::cse_base over the Robin Hood table data_.defs_.  A node caches   *)
(* its hash when it is first looked up (hash_) while equality compares its *)
(* present operands, so a node rewritten by replace_uses sits in the table *)
(* under the hash of what it was.  Each node is worth one value: its tag,  *)
(* type and operands.                                                      *)
(***************************************************************************)
EXTENDS RobinHood, FiniteSets

CONSTANTS
  Values,       (* what a structural node can be: tag, type and operands  *)
  HashOf,       (* vhash of each value                                    *)
  MaxNodes,     (* bound: nodes created                                   *)
  MaxRewrites   (* bound: nodes rewritten by replace_uses                 *)

ASSUME HashOfAssumption == HashOf \in [Values -> Nat]
ASSUME SentinelAssumption == Sentinel \notin Nat
ASSUME BoundsAssumption == MaxNodes \in Nat /\ MaxRewrites \in Nat

VARIABLES
  defs,      (* data_.defs_                                               *)
  value,     (* the present value of each node created, in order          *)
  hash,      (* hash_ of each                                             *)
  rewritten, (* history: nodes replace_uses has rewritten                 *)
  refused    (* history: nodes whose insertion into defs reported false   *)

vars == <<defs, value, hash, rewritten, refused>>

Nodes  == DOMAIN value
Hits(v) == FindSlot(defs, Len(value) + 1, Append(hash, HashOf[v]), Append(value, v)) # -1

Init ==
  /\ defs = EmptyTable
  /\ value = << >> /\ hash = << >>
  /\ rewritten = {} /\ refused = {}

(* cse_base of a new node of value v: a hit is returned and the new node   *)
(* deleted; otherwise it is inserted, and returned whatever insert says.   *)
Cse(v) ==
  LET n  == Len(value) + 1
      vs == Append(value, v)
      hs == Append(hash, HashOf[v])
      inserted == Emplace(defs, n, hs, vs)
  IN  /\ n <= MaxNodes
      /\ ~Hits(v)
      /\ defs' = inserted /\ value' = vs /\ hash' = hs
      /\ refused' = IF n \in Elems(inserted) THEN refused ELSE refused \cup {n}
      /\ UNCHANGED rewritten

(* replace_uses of an operand of n: n becomes the value v in place, as     *)
(* often as its operands are replaced.                                     *)
Rewrite(n, v) ==
  /\ Cardinality(rewritten \cup {n}) <= MaxRewrites /\ v # value[n]
  /\ value' = [value EXCEPT ![n] = v]
  /\ rewritten' = rewritten \cup {n}
  /\ UNCHANGED <<defs, hash, refused>>

Next ==
  \/ \E v \in Values : Cse(v)
  \/ \E n \in Nodes, v \in Values : Rewrite(n, v)

Spec == Init /\ [][Next]_vars

-----------------------------------------------------------------------------
(* A node whose hash is that of its value is never missed: asking for its  *)
(* value again returns a node of that value, however the table has grown   *)
(* and whatever was rewritten around it.                                   *)
CurrentIsFound ==
  \A n \in Elems(defs) : hash[n] = HashOf[value[n]] => Hits(value[n])

(* Two nodes of one value can only come from rewriting one of them.        *)
TwinsWereRewritten ==
  \A m, n \in Elems(defs) : m # n /\ value[m] = value[n] => m \in rewritten \/ n \in rewritten

(* "hash/equal broken" is not met: the insertion that follows a miss       *)
(* succeeds, as long as nothing is rewritten in place.                     *)
PureInsertSucceeds == rewritten = {} => refused = {}

=============================================================================
