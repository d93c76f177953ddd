----------------------------- MODULE GidCounter -----------------------------
(***************************************************************************)
(* Def::gid_counter_ is one static counter for all worlds of the process.  *)
(* Constructing a Def takes gid_counter_++, and cse_base gives the gid of  *)
(* a discarded Def back with --gid_counter_.  The counter is a plain       *)
(* size_t: neither step is atomic, each is a load and a later store.       *)
(***************************************************************************)
EXTENDS Integers, FiniteSets

CONSTANTS
  Threads,    (* the threads that build worlds                            *)
  Worlds,     (* the worlds                                               *)
  Owner,      (* the thread of each world: worlds are never shared        *)
  Contents,   (* what structural nodes can be asked for                   *)
  MaxGid      (* bound: the last gid a run may hand out                   *)

VARIABLES
  gidCounter,  (* gid_counter_                                            *)
  sea,         (* data_.defs_ of each world: the gid of each content, 0 if absent *)
  pc,          (* where each thread is inside cse(new T(...))             *)
  job,         (* the world and content the thread is working for         *)
  loaded,      (* the value a thread has loaded from the counter          *)
  fresh        (* the gid_ of the Def a thread has just constructed       *)

vars == <<gidCounter, sea, pc, job, loaded, fresh>>

Jobs(t) == {w \in Worlds : Owner[w] = t} \X Contents
Found(t) == sea[job[t][1]][job[t][2]] # 0

Init ==
  /\ gidCounter = 1
  /\ sea = [w \in Worlds |-> [c \in Contents |-> 0]]
  /\ pc = [t \in Threads |-> "idle"]
  /\ job = [t \in Threads |-> << >>]
  /\ loaded = [t \in Threads |-> 0]
  /\ fresh = [t \in Threads |-> 0]

(* new T(...): the load of gid_(gid_counter_++).                           *)
Begin(t, j) ==
  /\ pc[t] = "idle" /\ gidCounter <= MaxGid
  /\ job' = [job EXCEPT ![t] = j]
  /\ loaded' = [loaded EXCEPT ![t] = gidCounter]
  /\ pc' = [pc EXCEPT ![t] = "increment"]
  /\ UNCHANGED <<gidCounter, sea, fresh>>

(* The store of gid_(gid_counter_++).                                      *)
Construct(t) ==
  /\ pc[t] = "increment"
  /\ gidCounter' = loaded[t] + 1
  /\ fresh' = [fresh EXCEPT ![t] = loaded[t]]
  /\ pc' = [pc EXCEPT ![t] = "lookup"]
  /\ UNCHANGED <<sea, job, loaded>>

(* cse_base finds nothing: the new Def goes into the sea.                  *)
Insert(t) ==
  /\ pc[t] = "lookup" /\ ~Found(t)
  /\ sea' = [sea EXCEPT ![job[t][1]][job[t][2]] = fresh[t]]
  /\ pc' = [pc EXCEPT ![t] = "idle"]
  /\ UNCHANGED <<gidCounter, job, loaded, fresh>>

(* cse_base finds an equal Def: the load of --gid_counter_.                *)
Discard(t) ==
  /\ pc[t] = "lookup" /\ Found(t)
  /\ loaded' = [loaded EXCEPT ![t] = gidCounter]
  /\ pc' = [pc EXCEPT ![t] = "decrement"]
  /\ UNCHANGED <<gidCounter, sea, job, fresh>>

(* The store of --gid_counter_; the Def is deleted.                        *)
GiveBack(t) ==
  /\ pc[t] = "decrement"
  /\ gidCounter' = loaded[t] - 1
  /\ pc' = [pc EXCEPT ![t] = "idle"]
  /\ UNCHANGED <<sea, job, loaded, fresh>>

Next == \E t \in Threads :
  \/ \E j \in Jobs(t) : Begin(t, j)
  \/ Construct(t) \/ Insert(t) \/ Discard(t) \/ GiveBack(t)

Spec == Init /\ [][Next]_vars

-----------------------------------------------------------------------------
TypeOK ==
  /\ gidCounter \in Nat \ {0}
  /\ sea \in [Worlds -> [Contents -> Nat]]
  /\ pc \in [Threads -> {"idle", "increment", "lookup", "decrement"}]
  /\ job \in [Threads -> {<< >>} \cup (Worlds \X Contents)]
  /\ loaded \in [Threads -> Nat]
  /\ fresh \in [Threads -> Nat]

Defs == {d \in Worlds \X Contents : sea[d[1]][d[2]] # 0}
Gid(def) == sea[def[1]][def[2]]

(* "a unique number for each Def" (the note on global identifiers in       *)
(* world.h): no two definitions of any worlds have the same gid.  It holds *)
(* when a single thread builds all worlds, whatever cse hands back.        *)
UniqueNumbers == \A d, e \in Defs : Gid(d) = Gid(e) => d = e

(* "All worlds are completely independent from each other" (world.h): what *)
(* other threads do to their worlds never makes two definitions of one     *)
(* world share a gid.                                                      *)
WorldsIndependent == \A d, e \in Defs : d[1] = e[1] /\ Gid(d) = Gid(e) => d = e

(* Between two calls of a single thread no gid is lost: those of the       *)
(* definitions in all worlds are exactly the ones below the counter.       *)
NoGidLost ==
  (\A t \in Threads : pc[t] = "idle") => {Gid(d) : d \in Defs} = 1 .. gidCounter - 1

=============================================================================
