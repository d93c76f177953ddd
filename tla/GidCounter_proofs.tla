-------------------------- MODULE GidCounter_proofs --------------------------
(***************************************************************************)
(* When a single thread builds all worlds the counter numbers definitions  *)
(* uniquely and without gaps, for any worlds, contents and bound.          *)
(***************************************************************************)
EXTENDS GidCounter, TLAPS

(* The next gid as it would be if no call were in progress.                *)
Base(t) == IF pc[t] \in {"idle", "increment"} THEN gidCounter ELSE gidCounter - 1

(* What the thread has loaded or constructed agrees with the counter; the  *)
(* definitions number 1 .. Base - 1, each a number of its own.             *)
IInv(t) ==
  /\ TypeOK
  /\ pc[t] \in {"increment", "decrement"} => loaded[t] = gidCounter
  /\ pc[t] \in {"lookup", "decrement"} => fresh[t] = gidCounter - 1 /\ fresh[t] > 0
  /\ pc[t] # "idle" => job[t] \in Worlds \X Contents
  /\ {Gid(d) : d \in Defs} = 1 .. Base(t) - 1
  /\ UniqueNumbers

LEMMA InitEstablishes ==
  ASSUME NEW t \in Threads, Init
  PROVE  IInv(t)
<1>1. Defs = {}
  BY DEF Init, Defs
<1>2. TypeOK /\ UniqueNumbers /\ Base(t) = 1
  BY <1>1 DEF Init, TypeOK, UniqueNumbers, Base
<1>3. {Gid(d) : d \in Defs} = 1 .. Base(t) - 1
  BY <1>1, <1>2
<1>4. QED BY <1>2, <1>3 DEF IInv, Init

(* Steps that leave the seas alone keep the numbering.                     *)
LEMMA SeaUnchanged ==
  ASSUME NEW t \in Threads, IInv(t), sea' = sea, Base(t)' = Base(t)
  PROVE  {Gid(d) : d \in Defs}' = 1 .. Base(t)' - 1 /\ UniqueNumbers'
<1>1. Defs' = Defs /\ \A d \in Defs : Gid(d)' = Gid(d)
  BY DEF Defs, Gid
<1>2. QED BY <1>1 DEF IInv, UniqueNumbers, Gid

LEMMA StepPreserves ==
  ASSUME NEW t, Threads = {t}, IInv(t), [Next]_vars
  PROVE  IInv(t)'
<1> USE DEF TypeOK
<1>1. CASE UNCHANGED vars
  BY <1>1 DEF vars, IInv, Base, UniqueNumbers, Defs, Gid
<1>2. ASSUME NEW j \in Jobs(t), Begin(t, j) PROVE IInv(t)'
  <2>1. j \in Worlds \X Contents
    BY DEF Jobs
  <2>2. Base(t)' = Base(t) /\ sea' = sea
    BY <1>2 DEF Begin, Base, IInv
  <2>3. QED BY <1>2, <2>1, <2>2, SeaUnchanged DEF IInv, Begin
<1>3. CASE Construct(t)
  <2>1. Base(t)' = Base(t) /\ sea' = sea
    BY <1>3 DEF Construct, Base, IInv
  <2>2. QED BY <1>3, <2>1, SeaUnchanged DEF IInv, Construct
<1>4. CASE Discard(t)
  <2>1. Base(t)' = Base(t) /\ sea' = sea
    BY <1>4 DEF Discard, Base, IInv
  <2>2. QED BY <1>4, <2>1, SeaUnchanged DEF IInv, Discard
<1>5. CASE GiveBack(t)
  <2>1. Base(t)' = Base(t) /\ sea' = sea
    BY <1>5 DEF GiveBack, Base, IInv
  <2>2. QED BY <1>5, <2>1, SeaUnchanged DEF IInv, GiveBack
<1>6. CASE Insert(t)
  <2>1. PICK w \in Worlds, c \in Contents : job[t] = <<w, c>>
    BY <1>6 DEF IInv, Insert
  <2>2. /\ sea[w][c] = 0 /\ fresh[t] = gidCounter - 1 /\ fresh[t] \in Nat \ {0}
        /\ sea' = [sea EXCEPT ![w][c] = fresh[t]]
        /\ UNCHANGED <<gidCounter, job, loaded, fresh>> /\ pc'[t] = "idle"
    BY <1>6, <2>1 DEF IInv, Insert, Found
  <2>3. Base(t) = fresh[t] /\ Base(t)' = fresh[t] + 1
    BY <1>6, <2>2 DEF Base, Insert, IInv
  <2>4. /\ \A d \in Worlds \X Contents : Gid(d)' = IF d = <<w, c>> THEN fresh[t] ELSE Gid(d)
        /\ <<w, c>> \notin Defs
    BY <2>2 DEF IInv, Gid, Defs
  <2>5. Defs' = Defs \cup {<<w, c>>}
    <3>1. \A d \in Worlds \X Contents : d \in Defs <=> Gid(d) # 0
      BY DEF Defs, Gid
    <3>2. \A d \in Worlds \X Contents : d \in Defs' <=> Gid(d)' # 0
      BY DEF Defs, Gid
    <3>3. \A d \in Worlds \X Contents : d \in Defs' <=> d \in Defs \/ d = <<w, c>>
      BY <2>2, <2>4, <3>1, <3>2
    <3>4. Defs \subseteq Worlds \X Contents /\ Defs' \subseteq Worlds \X Contents
      BY DEF Defs
    <3>5. QED BY <3>3, <3>4
  <2>6. {Gid(d) : d \in Defs}' = {Gid(d) : d \in Defs} \cup {fresh[t]}
    <3>1. Defs \subseteq Worlds \X Contents
      BY DEF Defs
    <3>2. QED BY <2>4, <2>5, <3>1
  <2>7. {Gid(d) : d \in Defs} = 1 .. fresh[t] - 1 /\ fresh[t] \in Nat \ {0}
    BY <2>2, <2>3 DEF IInv
  <2>8. {Gid(d) : d \in Defs}' = 1 .. Base(t)' - 1
    <3>1. Base(t)' - 1 = fresh[t]
      BY <2>3, <2>7
    <3>2. 1 .. fresh[t] = 1 .. fresh[t] - 1 \cup {fresh[t]}
      BY <2>7
    <3>3. QED BY <2>6, <2>7, <3>1, <3>2
  <2>9. UniqueNumbers'
    <3>1. \A d \in Defs : Gid(d) # fresh[t]
      <4>1. \A d \in Defs : Gid(d) \in 1 .. fresh[t] - 1
        BY <2>7
      <4>2. QED BY <2>7, <4>1
    <3>2. Defs \subseteq Worlds \X Contents
      BY DEF Defs
    <3>3. SUFFICES ASSUME NEW d \in Defs', NEW e \in Defs', Gid(d)' = Gid(e)'
                   PROVE  d = e
      BY DEF UniqueNumbers
    <3>4. d \in Worlds \X Contents /\ e \in Worlds \X Contents
      BY <2>5, <3>2
    <3>5. Gid(d)' = (IF d = <<w, c>> THEN fresh[t] ELSE Gid(d)) /\ Gid(e)' = (IF e = <<w, c>> THEN fresh[t] ELSE Gid(e))
      BY <2>4, <3>4
    <3>6. QED BY <2>5, <3>1, <3>3, <3>5 DEF IInv, UniqueNumbers
  <2>10. TypeOK'
    BY <1>6, <2>2 DEF IInv, Insert
  <2>11. QED BY <2>2, <2>8, <2>9, <2>10 DEF IInv
<1>7. QED BY <1>1, <1>2, <1>3, <1>4, <1>5, <1>6 DEF Next

(* With one thread the counter never falls to 0, whatever is given back,   *)
(* and every variable keeps its type.                                      *)
THEOREM OneThreadTypeCorrect ==
  ASSUME NEW t, Threads = {t}
  PROVE  Spec => []TypeOK
<1>1. Init => IInv(t)
  BY InitEstablishes
<1>2. IInv(t) /\ [Next]_vars => IInv(t)'
  BY StepPreserves
<1>3. IInv(t) => TypeOK
  BY DEF IInv
<1>4. QED BY <1>1, <1>2, <1>3, PTL DEF Spec

(* With one thread, no two definitions of any worlds share a gid.          *)
THEOREM OneThreadNumbersUniquely ==
  ASSUME NEW t, Threads = {t}
  PROVE  Spec => []UniqueNumbers
<1>1. Init => IInv(t)
  BY InitEstablishes
<1>2. IInv(t) /\ [Next]_vars => IInv(t)'
  BY StepPreserves
<1>3. IInv(t) => UniqueNumbers
  BY DEF IInv
<1>4. QED BY <1>1, <1>2, <1>3, PTL DEF Spec

(* With one thread, no gid is lost between two calls.                      *)
THEOREM OneThreadLosesNoGid ==
  ASSUME NEW t, Threads = {t}
  PROVE  Spec => []NoGidLost
<1>1. Init => IInv(t)
  BY InitEstablishes
<1>2. IInv(t) /\ [Next]_vars => IInv(t)'
  BY StepPreserves
<1>3. IInv(t) => NoGidLost
  BY DEF IInv, NoGidLost, Base
<1>4. QED BY <1>1, <1>2, <1>3, PTL DEF Spec

=============================================================================
