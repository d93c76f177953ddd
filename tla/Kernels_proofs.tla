--------------------------- MODULE Kernels_proofs ---------------------------
(* For every number of kernels, channels and arguments: kernels are called *)
(* after those whose channels they read, since the resolver never takes a  *)
(* kernel with a dependency that is marked and unmarks only those of what  *)
(* it took; what it leaves are circles; no read waits for ever; arguments  *)
(* arrive; and all kernels run or none.                                    *)
EXTENDS Kernels, SequenceTheorems, FiniteSetTheorems, NaturalsInduction, WellFoundedInduction, TLAPS

(* What kernels are called, on the stack and in the order.                 *)
Targets == {dependencies[i][2] : i \in DOMAIN dependencies}
Names   == DOMAIN kernels_ch_modes \cup Targets
Modes   == UNION {[D -> {"write", "read"}] : D \in SUBSET Channels}

TypeInv ==
  /\ kernels_ch_modes \in Seq(Modes)
  /\ marked \subseteq DOMAIN dependencies
  /\ resolved \in Seq(Names) /\ free_kernels \in Seq(Names)

Nothing == dependencies = << >> /\ marked = {} /\ resolved = << >> /\ free_kernels = << >>

(* A dependency is unmarked when the kernel it starts from is taken.       *)
UnmarkedDone ==
  \A i \in DOMAIN dependencies : i \notin marked => dependencies[i][1] \in Range(resolved)

(* What is taken or may be has no dependency left.                         *)
NothingLeft ==
  \A k \in Range(resolved) \cup Range(free_kernels) : IsFree(dependencies, marked, k)

SourcesFirst ==
  \A n \in DOMAIN resolved, i \in DOMAIN dependencies :
    dependencies[i][2] = resolved[n] => \E m \in 1 .. n - 1 : resolved[m] = dependencies[i][1]

TakenOnce ==
  /\ IsInjective(resolved) /\ IsInjective(free_kernels)
  /\ Range(resolved) \cap Range(free_kernels) = {}

IInv ==
  /\ TypeInv
  /\ phase = "rewrite" => Nothing
  /\ UnmarkedDone /\ NothingLeft /\ SourcesFirst /\ TakenOnce

-----------------------------------------------------------------------------
(* An order of a set has its elements, each of them once.                  *)
LEMMA AscendingFacts ==
  ASSUME NEW S, NEW s \in Ascending(S)
  PROVE  /\ s \in Seq(S)
         /\ Range(s) = S
         /\ \A m, n \in DOMAIN s : m < n => s[m] < s[n]
  <1>1. PICK n \in 0 .. NumKernels : s \in [1 .. n -> S]
    BY DEF Ascending
  <1>2. n \in Nat
    BY <1>1, KernelsAssumption
  <1> QED
    BY <1>1, <1>2 DEF Ascending

(* The elements of a sequence appended to another.                         *)
LEMMA ConcatFacts ==
  ASSUME NEW S, NEW s \in Seq(S), NEW t \in Seq(S)
  PROVE  /\ Len(s) \in Nat /\ Len(t) \in Nat
         /\ s \o t \in Seq(S) /\ Len(s \o t) = Len(s) + Len(t)
         /\ \A n \in 1 .. Len(s) : (s \o t)[n] = s[n]
         /\ \A n \in 1 .. Len(t) : (s \o t)[Len(s) + n] = t[n]
  <1>1. Len(s) \in Nat /\ Len(t) \in Nat
    OBVIOUS
  <1>2. /\ s \o t \in Seq(S) /\ Len(s \o t) = Len(s) + Len(t)
        /\ \A i \in 1 .. Len(s) + Len(t) : (s \o t)[i] = IF i <= Len(s) THEN s[i] ELSE t[i - Len(s)]
    BY ConcatProperties
  <1> DEFINE both == s \o t
  <1> HIDE DEF both
  <1>3. \A i \in 1 .. Len(s) + Len(t) : both[i] = IF i <= Len(s) THEN s[i] ELSE t[i - Len(s)]
    BY <1>2 DEF both
  <1>4. \A n \in 1 .. Len(s) : both[n] = s[n]
    BY <1>1, <1>3
  <1>5. \A n \in 1 .. Len(t) : both[Len(s) + n] = t[n]
    <2> TAKE n \in 1 .. Len(t)
    <2>1. Len(s) + n \in 1 .. Len(s) + Len(t) /\ ~(Len(s) + n <= Len(s)) /\ (Len(s) + n) - Len(s) = n
      BY <1>1
    <2> QED
      BY <2>1, <1>3
  <1> QED
    BY <1>1, <1>2, <1>4, <1>5 DEF both

(* A sequence is all but its last element and that.                        *)
LEMMA FrontFacts ==
  ASSUME NEW S, NEW s \in Seq(S), s # << >>
  PROVE  /\ Len(s) \in Nat \ {0}
         /\ Front(s) \in Seq(S) /\ Len(Front(s)) = Len(s) - 1
         /\ \A n \in 1 .. Len(s) - 1 : Front(s)[n] = s[n]
         /\ Last(s) = s[Len(s)] /\ Last(s) \in S
  <1>1. /\ Len(s) \in Nat \ {0} /\ \A n \in 1 .. Len(s) : s[n] \in S
    OBVIOUS
  <1>2. 1 \in Int /\ Len(s) - 1 \in Int /\ \A i \in 1 .. Len(s) - 1 : s[i] \in S
    BY <1>1
  <1> DEFINE front == SubSeq(s, 1, Len(s) - 1)
  <1>3. /\ front \in Seq(S)
        /\ Len(front) = IF 1 <= Len(s) - 1 THEN Len(s) - 1 - 1 + 1 ELSE 0
        /\ \A i \in 1 .. Len(s) - 1 - 1 + 1 : front[i] = s[1 + i - 1]
    BY <1>2, SubSeqProperties
  <1> HIDE DEF front
  <1>4. Len(front) = Len(s) - 1 /\ \A n \in 1 .. Len(s) - 1 : front[n] = s[n]
    <2>1. Len(front) = Len(s) - 1
      <3> DEFINE n == Len(s)
      <3>1. n \in Nat \ {0} /\ Len(front) = IF 1 <= n - 1 THEN n - 1 - 1 + 1 ELSE 0
        BY <1>1, <1>3
      <3> HIDE DEF n
      <3>2. CASE 1 <= n - 1
        BY <3>1, <3>2 DEF n
      <3>3. CASE ~(1 <= n - 1)
        <4>1. n = 1
          BY <3>1, <3>3
        <4>2. Len(front) = 0
          BY <3>1, <3>3
        <4> QED
          BY <4>1, <4>2 DEF n
      <3> QED
        BY <3>2, <3>3
    <2>2. ASSUME NEW n \in 1 .. Len(s) - 1 PROVE front[n] = s[n]
      <3>1. n \in 1 .. Len(s) - 1 - 1 + 1 /\ 1 + n - 1 = n
        BY <1>1
      <3> QED
        BY <3>1, <1>3
    <2> QED
      BY <2>1, <2>2
  <1>5. Front(s) = front /\ Last(s) = s[Len(s)] /\ Last(s) \in S
    BY <1>1 DEF Front, Last, front
  <1> QED
    BY <1>1, <1>3, <1>4, <1>5

(* The initial states have nothing to resolve.                             *)
LEMMA Initially == Init => IInv
  BY DEF Init, IInv, TypeInv, Nothing, UnmarkedDone, NothingLeft, SourcesFirst, TakenOnce, Range,
         IsInjective, IsFree

(* Whatever the resolver's variables and the modes do not change.          *)
LEMMA Undisturbed ==
  ASSUME IInv, UNCHANGED <<kernels_ch_modes, solved>>, phase' = "rewrite" => phase = "rewrite"
  PROVE  IInv'
  <1>1. /\ kernels_ch_modes' = kernels_ch_modes /\ dependencies' = dependencies /\ marked' = marked
        /\ free_kernels' = free_kernels /\ resolved' = resolved
    BY DEF solved
  <1>2. TypeInv' /\ (phase' = "rewrite" => Nothing')
    BY <1>1 DEF IInv, TypeInv, Nothing, Names, Targets
  <1>3. UnmarkedDone' /\ NothingLeft'
    BY <1>1 DEF IInv, UnmarkedDone, NothingLeft
  <1>4. SourcesFirst' /\ TakenOnce'
    BY <1>1 DEF IInv, SourcesFirst, TakenOnce
  <1> QED
    BY <1>2, <1>3, <1>4 DEF IInv

(* hls_channels rewrites the kernels before there is anything to resolve.  *)
LEMMA RewriteKernelKeeps == IInv /\ RewriteKernel => IInv'
  <1> SUFFICES ASSUME IInv, RewriteKernel PROVE IInv'
    OBVIOUS
  <1>1. Nothing /\ Nothing' /\ UNCHANGED solved /\ phase' = phase
    BY DEF IInv, RewriteKernel, Nothing, solved
  <1>2. \A k : Mode(k) \in Modes
    <2> TAKE k
    <2> DEFINE D == {d \in Channels : Count(Write(d), ops[k]) + Count(Read(d), ops[k]) > 0}
    <2>1. D \in SUBSET Channels /\ Mode(k) \in [D -> {"write", "read"}]
      BY DEF Mode
    <2> QED
      BY <2>1 DEF Modes
  <1>3. kernels_ch_modes' \in Seq(Modes)
    BY <1>2 DEF RewriteKernel, IInv, TypeInv
  <1> QED
    BY <1>1, <1>3 DEF IInv, TypeInv, Nothing, UnmarkedDone, NothingLeft, SourcesFirst, TakenOnce, Range,
         IsInjective, IsFree

(* The stack begins with the kernels that no dependency leads to.          *)
LEMMA BuildTopKeeps == IInv /\ BuildTop => IInv'
  <1> SUFFICES ASSUME IInv, BuildTop PROVE IInv'
    OBVIOUS
  <1> DEFINE Free == {k \in DOMAIN kernels_ch_modes : IsFree(dependencies', DOMAIN dependencies', k)}
  <1>1. /\ marked' = DOMAIN dependencies' /\ resolved' = << >> /\ free_kernels' \in Ascending(Free)
        /\ phase' = "resolve" /\ kernels_ch_modes' = kernels_ch_modes
    BY DEF BuildTop
  <1>2. /\ free_kernels' \in Seq(Free) /\ Range(free_kernels') = Free
        /\ \A m, n \in DOMAIN free_kernels' : m < n => free_kernels'[m] < free_kernels'[n]
    BY <1>1, AscendingFacts
  <1>3. Free \subseteq Nat /\ Free \subseteq Names'
    BY <1>1 DEF IInv, TypeInv, Names
  <1>4. IsInjective(free_kernels')
    <2> SUFFICES ASSUME NEW m \in DOMAIN free_kernels', NEW n \in DOMAIN free_kernels',
                        free_kernels'[m] = free_kernels'[n], m # n
                 PROVE  FALSE
      BY DEF IsInjective
    <2>1. free_kernels'[m] \in Nat /\ m \in Nat /\ n \in Nat
      BY <1>2, <1>3
    <2> QED
      BY <1>2, <2>1
  <1>5. TypeInv'
    BY <1>1, <1>2, <1>3 DEF IInv, TypeInv
  <1>6. NothingLeft'
    BY <1>1, <1>2 DEF NothingLeft, Range
  <1> QED
    BY <1>1, <1>4, <1>5, <1>6 DEF IInv, UnmarkedDone, SourcesFirst, TakenOnce, Range, IsInjective

-----------------------------------------------------------------------------
(* The kernel on top of the stack is taken.                                *)
LEMMA ResolveNextKeeps == IInv /\ ResolveNext => IInv'
  <1> SUFFICES ASSUME IInv, ResolveNext PROVE IInv'
    OBVIOUS
  <1> DEFINE free   == Last(free_kernels)
             rest   == Front(free_kernels)
             gone   == {i \in marked : dependencies[i][1] = free}
             freed  == {i \in gone : IsFree(dependencies, {j \in marked : j \in gone => i < j}, dependencies[i][2])}
  <1>1. /\ phase = "resolve" /\ phase' = phase /\ free_kernels # << >>
        /\ resolved' = Append(resolved, free) /\ marked' = marked \ gone
        /\ UNCHANGED <<dependencies, kernels_ch_modes>>
    BY DEF ResolveNext, built
  <1>2. PICK order \in Ascending(freed) : free_kernels' = rest \o [n \in DOMAIN order |-> dependencies[order[n]][2]]
    BY DEF ResolveNext
  <1> DEFINE pushed == [n \in DOMAIN order |-> dependencies[order[n]][2]]
  <1> HIDE DEF free, rest, gone, freed, pushed
  <1>3. /\ order \in Seq(freed) /\ \A m, n \in DOMAIN order : m < n => order[m] < order[n]
    BY <1>2, AscendingFacts
  <1>4. /\ rest \in Seq(Names) /\ free \in Names /\ Len(free_kernels) \in Nat \ {0}
        /\ Len(rest) = Len(free_kernels) - 1
        /\ \A n \in 1 .. Len(rest) : rest[n] = free_kernels[n]
        /\ free = free_kernels[Len(free_kernels)]
    <2>1. free_kernels \in Seq(Names) /\ free_kernels # << >>
      BY <1>1 DEF IInv, TypeInv
    <2> QED
      BY <2>1, FrontFacts DEF free, rest
  <1>5. /\ Range(free_kernels) = Range(rest) \cup {free}
        /\ free \notin Range(rest) /\ IsInjective(rest)
    <2>1. /\ DOMAIN rest = 1 .. Len(free_kernels) - 1
          /\ DOMAIN free_kernels = DOMAIN rest \cup {Len(free_kernels)}
          /\ Len(free_kernels) \notin DOMAIN rest
          /\ \A n \in DOMAIN rest : rest[n] = free_kernels[n]
      <3>1. DOMAIN rest = 1 .. Len(free_kernels) - 1 /\ DOMAIN free_kernels = 1 .. Len(free_kernels)
        BY <1>4 DEF IInv, TypeInv
      <3> QED
        BY <3>1, <1>4
    <2>2. IsInjective(free_kernels)
      BY DEF IInv, TakenOnce
    <2>3. IsInjective(rest)
      BY <2>1, <2>2 DEF IsInjective
    <2>4. \A n \in DOMAIN rest : rest[n] # free
      BY <2>1, <2>2, <1>4 DEF IsInjective
    <2>5. Range(free_kernels) = Range(rest) \cup {free}
      <3>1. \A n \in DOMAIN rest : rest[n] \in Range(free_kernels)
        BY <2>1 DEF Range
      <3>2. \A n \in DOMAIN free_kernels : free_kernels[n] \in Range(rest) \cup {free}
        BY <2>1, <1>4 DEF Range
      <3>3. free \in Range(free_kernels)
        BY <2>1, <1>4 DEF Range
      <3> QED
        BY <3>1, <3>2, <3>3 DEF Range
    <2> QED
      BY <2>3, <2>4, <2>5 DEF Range
  <1>6. Range(resolved') = Range(resolved) \cup {free}
    <2>1. /\ DOMAIN resolved' = DOMAIN resolved \cup {Len(resolved) + 1}
          /\ \A n \in DOMAIN resolved : resolved'[n] = resolved[n]
          /\ resolved'[Len(resolved) + 1] = free
      BY <1>1, <1>4 DEF IInv, TypeInv
    <2> QED
      BY <2>1 DEF Range
  <1>7. /\ pushed \in Seq(Targets) /\ DOMAIN pushed = DOMAIN order
        /\ \A n \in DOMAIN pushed :
             /\ order[n] \in gone /\ order[n] \in marked
             /\ pushed[n] = dependencies[order[n]][2]
             /\ IsFree(dependencies, {j \in marked : j \in gone => order[n] < j}, pushed[n])
    <2>1. \A n \in DOMAIN order : order[n] \in freed
      BY <1>3
    <2>2. freed \subseteq gone /\ gone \subseteq marked /\ marked \subseteq DOMAIN dependencies
      BY DEF freed, gone, IInv, TypeInv
    <2>3. \A n \in DOMAIN order : dependencies[order[n]][2] \in Targets
      BY <2>1, <2>2 DEF Targets
    <2>4. /\ DOMAIN pushed = DOMAIN order
          /\ \A n \in DOMAIN order : pushed[n] = dependencies[order[n]][2]
      BY DEF pushed
    <2>5. pushed \in Seq(Targets)
      <3>1. Len(order) \in Nat /\ DOMAIN order = 1 .. Len(order)
        BY <1>3
      <3>2. pushed \in [1 .. Len(order) -> Targets]
        BY <3>1, <2>3 DEF pushed
      <3> QED
        BY <3>1, <3>2
    <2>6. \A i \in freed : IsFree(dependencies, {j \in marked : j \in gone => i < j}, dependencies[i][2])
      BY DEF freed
    <2> QED
      BY <2>1, <2>2, <2>4, <2>5, <2>6
  <1>8. /\ free_kernels' \in Seq(Names)
        /\ Range(free_kernels') = Range(rest) \cup Range(pushed)
        /\ Len(free_kernels') = Len(rest) + Len(pushed)
        /\ \A n \in 1 .. Len(rest) : free_kernels'[n] = rest[n]
        /\ \A n \in 1 .. Len(pushed) : free_kernels'[Len(rest) + n] = pushed[n]
    <2>1. pushed \in Seq(Names) /\ free_kernels' = rest \o pushed
      BY <1>2, <1>7 DEF Names, pushed
    <2>2. /\ Len(rest) \in Nat /\ Len(pushed) \in Nat
          /\ free_kernels' \in Seq(Names) /\ Len(free_kernels') = Len(rest) + Len(pushed)
          /\ \A n \in 1 .. Len(rest) : free_kernels'[n] = rest[n]
          /\ \A n \in 1 .. Len(pushed) : free_kernels'[Len(rest) + n] = pushed[n]
      <3>1. /\ Len(rest) \in Nat /\ Len(pushed) \in Nat
            /\ rest \o pushed \in Seq(Names) /\ Len(rest \o pushed) = Len(rest) + Len(pushed)
            /\ \A n \in 1 .. Len(rest) : (rest \o pushed)[n] = rest[n]
            /\ \A n \in 1 .. Len(pushed) : (rest \o pushed)[Len(rest) + n] = pushed[n]
        <4>1. rest \in Seq(Names) /\ pushed \in Seq(Names)
          BY <2>1, <1>4
        <4> QED
          BY <4>1, ConcatFacts
      <3> QED
        BY <3>1, <2>1
    <2>3. /\ DOMAIN rest = 1 .. Len(rest) /\ DOMAIN pushed = 1 .. Len(pushed)
          /\ DOMAIN free_kernels' = 1 .. Len(rest) + Len(pushed)
      BY <2>1, <2>2, <1>4
    <2>4. Range(free_kernels') \subseteq Range(rest) \cup Range(pushed)
      <3> SUFFICES ASSUME NEW n \in 1 .. Len(rest) + Len(pushed)
                   PROVE  free_kernels'[n] \in Range(rest) \cup Range(pushed)
        BY <2>3 DEF Range
      <3>1. CASE n <= Len(rest)
        BY <3>1, <2>2, <2>3 DEF Range
      <3>2. CASE n > Len(rest)
        <4>1. n - Len(rest) \in 1 .. Len(pushed) /\ n = Len(rest) + (n - Len(rest))
          BY <3>2, <2>2
        <4>2. free_kernels'[n] = pushed[n - Len(rest)]
          BY <4>1, <2>2
        <4> QED
          BY <4>1, <4>2, <2>3 DEF Range
      <3> QED
        BY <3>1, <3>2, <2>2
    <2>5. \A n \in DOMAIN rest : rest[n] \in Range(free_kernels')
      BY <2>2, <2>3 DEF Range
    <2>6. \A n \in DOMAIN pushed : pushed[n] \in Range(free_kernels')
      <3> TAKE n \in DOMAIN pushed
      <3>1. Len(rest) + n \in DOMAIN free_kernels'
        BY <2>2, <2>3
      <3> QED
        BY <3>1, <2>2, <2>3 DEF Range
    <2>7. Range(rest) \cup Range(pushed) \subseteq Range(free_kernels')
      BY <2>5, <2>6 DEF Range
    <2> QED
      BY <2>2, <2>4, <2>7
  <1>9. TypeInv'
    <2>1. Names' = Names
      BY <1>1 DEF Names, Targets
    <2> QED
      BY <1>1, <1>4, <1>8, <2>1 DEF IInv, TypeInv
  <1>10. UnmarkedDone'
    BY <1>1, <1>6 DEF IInv, UnmarkedDone, gone
  <1>11. NothingLeft'
    <2> SUFFICES ASSUME NEW k \in Range(resolved') \cup Range(free_kernels')
                 PROVE  IsFree(dependencies, marked', k)
      BY <1>1 DEF NothingLeft
    <2>1. CASE k \in Range(resolved) \cup Range(free_kernels)
      BY <2>1, <1>1 DEF IInv, NothingLeft, IsFree
    <2>2. CASE k \in Range(pushed)
      <3>1. PICK n \in DOMAIN pushed : k = pushed[n]
        BY <2>2 DEF Range
      <3> QED
        BY <3>1, <1>1, <1>7 DEF IsFree
    <2> QED
      BY <2>1, <2>2, <1>5, <1>6, <1>8
  <1>12. SourcesFirst'
    <2> SUFFICES ASSUME NEW n \in DOMAIN resolved', NEW i \in DOMAIN dependencies,
                        dependencies[i][2] = resolved'[n]
                 PROVE  \E m \in 1 .. n - 1 : resolved'[m] = dependencies[i][1]
      BY <1>1 DEF SourcesFirst
    <2>1. resolved \in Seq(Names) /\ Len(resolved) \in Nat /\ DOMAIN resolved = 1 .. Len(resolved)
      BY DEF IInv, TypeInv
    <2>2. /\ n \in 1 .. Len(resolved) + 1
          /\ \A m \in 1 .. Len(resolved) : resolved'[m] = resolved[m]
          /\ resolved'[Len(resolved) + 1] = free
      BY <2>1, <1>1, <1>4
    <2>3. CASE n \in 1 .. Len(resolved)
      <3>1. PICK m \in 1 .. n - 1 : resolved[m] = dependencies[i][1]
        BY <2>1, <2>2, <2>3 DEF IInv, SourcesFirst
      <3> QED
        BY <3>1, <2>1, <2>2, <2>3
    <2>4. CASE n = Len(resolved) + 1
      <3>1. dependencies[i][2] = free
        BY <2>2, <2>4
      <3>2. i \notin marked
        BY <3>1, <1>5 DEF IInv, NothingLeft, IsFree
      <3>3. PICK m \in 1 .. Len(resolved) : resolved[m] = dependencies[i][1]
        BY <3>2, <2>1 DEF IInv, UnmarkedDone, Range
      <3> QED
        BY <3>3, <2>1, <2>2, <2>4
    <2> QED
      BY <2>1, <2>2, <2>3, <2>4
  <1>13. TakenOnce'
    <2>1. \A k \in Range(pushed) : k \notin Range(resolved) \cup Range(free_kernels)
      <3> SUFFICES ASSUME NEW n \in DOMAIN pushed
                   PROVE  pushed[n] \notin Range(resolved) \cup Range(free_kernels)
        BY DEF Range
      <3> QED
        BY <1>7 DEF IInv, NothingLeft, IsFree
    <2>2. ASSUME NEW m \in DOMAIN pushed, NEW n \in DOMAIN pushed, m < n
          PROVE  pushed[m] # pushed[n]
      <3>1. order[m] < order[n]
        BY <1>3, <1>7, <2>2
      <3> QED
        BY <3>1, <1>7 DEF IsFree
    <2>3. IsInjective(pushed)
      <3>1. DOMAIN pushed \subseteq Nat
        BY <1>7
      <3> QED
        BY <2>2, <3>1 DEF IsInjective
    <2>4. IsInjective(resolved')
      <3>1. /\ DOMAIN resolved' = DOMAIN resolved \cup {Len(resolved) + 1}
            /\ \A n \in DOMAIN resolved : resolved'[n] = resolved[n]
            /\ resolved'[Len(resolved) + 1] = free
        BY <1>1, <1>4 DEF IInv, TypeInv
      <3>2. free \notin Range(resolved) /\ IsInjective(resolved)
        BY <1>5 DEF IInv, TakenOnce
      <3>3. \A n \in DOMAIN resolved : resolved'[n] # free
        BY <3>1, <3>2 DEF Range
      <3> QED
        BY <3>1, <3>2, <3>3 DEF IsInjective
    <2>5. IsInjective(free_kernels')
      <3> SUFFICES ASSUME NEW m \in DOMAIN free_kernels', NEW n \in DOMAIN free_kernels', m < n
                   PROVE  free_kernels'[m] # free_kernels'[n]
        <4>1. DOMAIN free_kernels' \subseteq Nat
          BY <1>8
        <4> QED
          BY <4>1 DEF IsInjective
      <3>1. /\ m \in 1 .. Len(free_kernels') /\ n \in 1 .. Len(free_kernels')
            /\ Len(rest) \in Nat /\ Len(pushed) \in Nat
            /\ DOMAIN rest = 1 .. Len(rest) /\ DOMAIN pushed = 1 .. Len(pushed)
        BY <1>4, <1>7, <1>8
      <3>2. CASE n <= Len(rest)
        BY <3>1, <3>2, <1>5, <1>8 DEF IsInjective
      <3>3. CASE m <= Len(rest) /\ n > Len(rest)
        <4>1. free_kernels'[m] \in Range(free_kernels) /\ n - Len(rest) \in DOMAIN pushed
              /\ free_kernels'[n] = pushed[n - Len(rest)]
          <5>1. m \in DOMAIN rest /\ free_kernels'[m] = rest[m]
            BY <3>1, <3>3, <1>8
          <5>2. n - Len(rest) \in 1 .. Len(pushed) /\ n = Len(rest) + (n - Len(rest))
            BY <3>1, <3>3, <1>8
          <5>3. free_kernels'[n] = pushed[n - Len(rest)]
            BY <5>2, <1>8
          <5>4. rest[m] \in Range(rest)
            BY <5>1 DEF Range
          <5> QED
            BY <5>1, <5>2, <5>3, <5>4, <3>1, <1>5
        <4> QED
          BY <4>1, <2>1 DEF Range
      <3>4. CASE m > Len(rest)
        <4>1. /\ m - Len(rest) \in DOMAIN pushed /\ n - Len(rest) \in DOMAIN pushed
              /\ m - Len(rest) < n - Len(rest)
              /\ free_kernels'[m] = pushed[m - Len(rest)] /\ free_kernels'[n] = pushed[n - Len(rest)]
          BY <3>1, <3>4, <1>8
        <4> QED
          BY <4>1, <2>2
      <3> QED
        BY <3>1, <3>2, <3>3, <3>4
    <2>6. Range(resolved') \cap Range(free_kernels') = {}
      BY <2>1, <1>5, <1>6, <1>8 DEF IInv, TakenOnce
    <2> QED
      BY <2>4, <2>5, <2>6 DEF TakenOnce
  <1> QED
    BY <1>1, <1>9, <1>10, <1>11, <1>12, <1>13 DEF IInv

-----------------------------------------------------------------------------
(* Every step keeps the invariant.                                         *)
LEMMA StepKeeps == IInv /\ [Next]_vars => IInv'
  <1> SUFFICES ASSUME IInv, [Next]_vars PROVE IInv'
    OBVIOUS
  <1>1. CASE RewriteKernel
    BY <1>1, RewriteKernelKeeps
  <1>2. CASE BuildTop
    BY <1>2, BuildTopKeeps
  <1>3. CASE ResolveNext
    BY <1>3, ResolveNextKeeps
  <1>4. CASE Reject \/ Reorder \/ Annotate \/ RewriteBlock \/ Start
    <2>1. UNCHANGED <<kernels_ch_modes, solved>> /\ (phase' = "rewrite" => phase = "rewrite")
      BY <1>4 DEF Reject, Reorder, Annotate, RewriteBlock, Start, built, solved
    <2> QED
      BY <2>1, Undisturbed
  <1>5. CASE HostStep \/ KernelStep \/ KernelReturn \/ UNCHANGED vars
    <2>1. UNCHANGED <<kernels_ch_modes, solved>> /\ (phase' = "rewrite" => phase = "rewrite")
      BY <1>5 DEF HostStep, KernelStep, KernelReturn, built, solved, vars
    <2> QED
      BY <2>1, Undisturbed
  <1> QED
    BY <1>1, <1>2, <1>3, <1>4, <1>5 DEF Next

(* The resolver's invariant.                                               *)
THEOREM ResolverInvariant == Spec => []IInv
  BY Initially, StepKeeps, PTL DEF Spec

(* A kernel is called at most once, and after those whose channels it      *)
(* reads: dependency_resolver and get_free_kernels.                        *)
THEOREM KernelsInOrder == Spec => []ResolvedInOrder
  <1>1. IInv => ResolvedInOrder
    <2> SUFFICES ASSUME IInv PROVE ResolvedInOrder
      OBVIOUS
    <2> DEFINE stack == Reverse(free_kernels)
               order == resolved \o stack
    <2>1. /\ resolved \in Seq(Names) /\ free_kernels \in Seq(Names)
          /\ Len(resolved) \in Nat /\ Len(free_kernels) \in Nat
      BY DEF IInv, TypeInv
    <2>2. /\ stack \in Seq(Names) /\ Len(stack) = Len(free_kernels)
          /\ \A n \in 1 .. Len(stack) : stack[n] = free_kernels[Len(free_kernels) - n + 1]
      BY <2>1 DEF Reverse
    <2>3. /\ DOMAIN order = 1 .. Len(resolved) + Len(stack)
          /\ \A n \in 1 .. Len(resolved) : order[n] = resolved[n]
          /\ \A n \in Len(resolved) + 1 .. Len(resolved) + Len(stack) : order[n] = stack[n - Len(resolved)]
      <3>1. /\ order \in Seq(Names) /\ Len(order) = Len(resolved) + Len(stack)
            /\ \A n \in 1 .. Len(resolved) : order[n] = resolved[n]
            /\ \A n \in 1 .. Len(stack) : order[Len(resolved) + n] = stack[n]
        <4>1. resolved \in Seq(Names) /\ stack \in Seq(Names)
          BY <2>1, <2>2
        <4> HIDE DEF stack
        <4> QED
          BY <4>1, ConcatFacts
      <3>2. \A n \in Len(resolved) + 1 .. Len(resolved) + Len(stack) :
              n - Len(resolved) \in 1 .. Len(stack) /\ n = Len(resolved) + (n - Len(resolved))
        BY <2>1, <2>2
      <3>3. DOMAIN order = 1 .. Len(resolved) + Len(stack)
        BY <3>1
      <3>4. \A n \in Len(resolved) + 1 .. Len(resolved) + Len(stack) : order[n] = stack[n - Len(resolved)]
        <4> TAKE n \in Len(resolved) + 1 .. Len(resolved) + Len(stack)
        <4> HIDE DEF order
        <4> QED
          BY <3>1, <3>2
      <3> QED
        BY <3>1, <3>3, <3>4
    <2> HIDE DEF stack, order
    <2>4. \A n \in 1 .. Len(resolved) : order[n] \in Range(resolved)
      BY <2>1, <2>3 DEF Range
    <2>5. \A n \in Len(resolved) + 1 .. Len(resolved) + Len(stack) :
            /\ Len(free_kernels) - (n - Len(resolved)) + 1 \in DOMAIN free_kernels
            /\ order[n] = free_kernels[Len(free_kernels) - (n - Len(resolved)) + 1]
      BY <2>1, <2>2, <2>3, SMTT(30)
    <2>6. \A n \in Len(resolved) + 1 .. Len(resolved) + Len(stack) : order[n] \in Range(free_kernels)
      BY <2>5 DEF Range
    <2>7. ASSUME NEW m \in DOMAIN order, NEW n \in DOMAIN order, order[m] = order[n]
          PROVE  m = n
      <3>1. CASE m <= Len(resolved) /\ n <= Len(resolved)
        BY <3>1, <2>1, <2>3, <2>7 DEF IInv, TakenOnce, IsInjective
      <3>2. CASE m <= Len(resolved) /\ n > Len(resolved)
        BY <3>2, <2>1, <2>2, <2>3, <2>4, <2>6, <2>7 DEF IInv, TakenOnce
      <3>3. CASE m > Len(resolved) /\ n <= Len(resolved)
        BY <3>3, <2>1, <2>2, <2>3, <2>4, <2>6, <2>7 DEF IInv, TakenOnce
      <3>4. CASE m > Len(resolved) /\ n > Len(resolved)
        <4>1. Len(free_kernels) - (m - Len(resolved)) + 1 = Len(free_kernels) - (n - Len(resolved)) + 1
          <5>1. /\ m \in Len(resolved) + 1 .. Len(resolved) + Len(stack)
                /\ n \in Len(resolved) + 1 .. Len(resolved) + Len(stack)
            BY <3>4, <2>1, <2>2, <2>3
          <5>2. IsInjective(free_kernels)
            BY DEF IInv, TakenOnce
          <5> QED
            BY <5>1, <5>2, <2>5, <2>7 DEF IsInjective
        <4> QED
          BY <4>1, <2>1, <2>2, <2>3
      <3> QED
        BY <3>1, <3>2, <3>3, <3>4, <2>1, <2>2, <2>3
    <2>8. IsInjective(order)
      BY <2>7 DEF IsInjective
    <2>9. \A d \in Range(dependencies), n \in DOMAIN resolved :
            resolved[n] = d[2] => \E m \in 1 .. n - 1 : resolved[m] = d[1]
      BY DEF IInv, SourcesFirst, Range
    <2> QED
      BY <2>8, <2>9 DEF ResolvedInOrder, order, stack
  <1> QED
    BY <1>1, ResolverInvariant, PTL

-----------------------------------------------------------------------------
(* The listings of a finite set have each element of it once.              *)
LEMMA ListingFacts ==
  ASSUME NEW S, IsFiniteSet(S), NEW s \in SetToSeqs(S)
  PROVE  /\ s \in Seq(S) /\ Len(s) = Cardinality(S) /\ DOMAIN s = 1 .. Len(s)
         /\ Range(s) = S /\ IsInjective(s)
  <1> DEFINE n == Cardinality(S)
  <1>1. n \in Nat
    BY FS_CardinalityType
  <1> HIDE DEF n
  <1>2. s \in [1 .. n -> S] /\ \A i, j \in 1 .. n : i # j => s[i] # s[j]
    BY DEF SetToSeqs, n
  <1>3. s \in Injection(1 .. n, S) /\ IsInjective(s)
    BY <1>2 DEF Injection, IsInjective
  <1>4. IsFiniteSet(1 .. n) /\ Cardinality(1 .. n) = n
    BY <1>1, FS_Interval
  <1>5. s \in Surjection(1 .. n, S)
    BY <1>3, <1>4, FS_Injection DEF n
  <1>6. Range(s) = S
    BY <1>2, <1>5 DEF Surjection, Range
  <1> QED
    BY <1>1, <1>2, <1>3, <1>6 DEF n

(* A sequence with all elements of a set that is as long as the set is     *)
(* large has each of them once.                                            *)
LEMMA NoneTwice ==
  ASSUME NEW S, IsFiniteSet(S), NEW s \in Seq(S), Range(s) = S, Len(s) = Cardinality(S)
  PROVE  IsInjective(s)
  <1> DEFINE n == Len(s)
  <1>1. n \in Nat /\ s \in [1 .. n -> S]
    OBVIOUS
  <1> HIDE DEF n
  <1>2. s \in Surjection(1 .. n, S)
    BY <1>1 DEF Surjection, Range
  <1>3. IsFiniteSet(1 .. n) /\ Cardinality(1 .. n) = n
    BY <1>1, FS_Interval
  <1>4. s \in Injection(1 .. n, S)
    BY <1>2, <1>3, FS_Surjection DEF n
  <1> QED
    BY <1>1, <1>4 DEF Injection, IsInjective

(* A set of numbers has a smallest one.                                    *)
LEMMA SmallestExists ==
  ASSUME NEW S \in SUBSET Nat, S # {}
  PROVE  \E x \in S : \A y \in S : x <= y
  <1> DEFINE R == OpToRel(<, Nat)
  <1>1. IsWellFoundedOn(R, Nat)
    BY NatLessThanWellFounded DEF OpToRel
  <1>2. \A u, v \in Nat : <<u, v>> \in R <=> u < v
    BY DEF OpToRel
  <1> HIDE DEF R
  <1>3. PICK x \in S : \A y \in S : <<y, x>> \notin R
    BY <1>1, WFMin
  <1>4. ASSUME NEW y \in S PROVE x <= y
    <2>1. ~(y < x)
      BY <1>2, <1>3
    <2> QED
      BY <2>1
  <1> QED
    BY <1>4

(* A set of numbers up to a bound has a largest one.                       *)
LEMMA LargestExists ==
  ASSUME NEW N \in Nat, NEW S \in SUBSET (0 .. N), S # {}
  PROVE  \E x \in S : \A y \in S : y <= x
  <1> DEFINE R == OpToRel(<, Nat)
             T == {N - x : x \in S}
  <1>1. IsWellFoundedOn(R, Nat)
    BY NatLessThanWellFounded DEF OpToRel
  <1>2. T \subseteq Nat /\ T # {}
    <2>1. \A x \in S : x \in 0 .. N /\ N - x \in Nat
      OBVIOUS
    <2>2. PICK x \in S : TRUE
      OBVIOUS
    <2> QED
      BY <2>1, <2>2
  <1>3. \A u, v \in Nat : <<u, v>> \in R <=> u < v
    BY DEF OpToRel
  <1> HIDE DEF R, T
  <1>4. PICK z \in T : \A y \in T : <<y, z>> \notin R
    BY <1>1, <1>2, WFMin
  <1>5. PICK x \in S : z = N - x
    BY <1>4 DEF T
  <1>6. ASSUME NEW y \in S PROVE y <= x
    <2>1. N - y \in T
      BY DEF T
    <2>2. ~(N - y < z)
      BY <2>1, <1>2, <1>3, <1>4
    <2> QED
      BY <2>2, <1>5
  <1> QED
    BY <1>6

(* Counting finds out whether there is one.                                *)
LEMMA CountFacts ==
  ASSUME NEW n \in Nat, NEW s, DOMAIN s = 1 .. n, NEW op
  PROVE  /\ Count(op, s) \in Nat
         /\ Count(op, s) = 0 <=> \A i \in 1 .. n : s[i] # op
  <1> DEFINE S == {i \in DOMAIN s : s[i] = op}
  <1>1. S \in SUBSET (1 .. n) /\ IsFiniteSet(1 .. n)
    BY FS_Interval
  <1>2. IsFiniteSet(S) /\ Cardinality(S) \in Nat
    BY <1>1, FS_Subset, FS_CardinalityType
  <1>3. Cardinality(S) = 0 <=> S = {}
    BY <1>2, FS_EmptySet
  <1> QED
    BY <1>2, <1>3 DEF Count

(* Codes of kernels: finite, and no channel is both read and written.      *)
LEMMA CodeFacts ==
  ASSUME NEW s \in Codes
  PROVE  /\ Len(s) \in 0 .. MaxOps /\ DOMAIN s = 1 .. Len(s)
         /\ \A i \in DOMAIN s : \E c \in Channels : s[i] = Write(c) \/ s[i] = Read(c)
         /\ \A c \in Channels : Count(Write(c), s) = 0 \/ Count(Read(c), s) = 0
  <1>1. PICK n \in 0 .. MaxOps : s \in [1 .. n -> {Write(c) : c \in Channels} \cup {Read(c) : c \in Channels}]
    BY DEF Codes
  <1>2. DOMAIN s = 1 .. n /\ n \in Nat /\ Len(s) = n
    BY <1>1, KernelsAssumption
  <1> QED
    BY <1>1, <1>2 DEF Codes

-----------------------------------------------------------------------------
(* Circles: the modes are those of the kernels after the ones without      *)
(* channels, the dependencies are the channels between them, and a kernel  *)
(* is on the stack as soon as nothing is left that it waits for.           *)
Single == Len(new_kernels) - Len(kernels_ch_modes)

Rewritten ==
  /\ new_kernels \in Seq(Kernels) /\ Len(new_kernels) <= NumKernels
  /\ todo \in Seq(Nat) /\ Len(todo) = NumKernels - Len(new_kernels)
  /\ \A i \in 1 .. Len(todo) : todo[i] = Len(new_kernels) + i
  /\ Range(new_kernels) = 1 .. Len(new_kernels)
  /\ Len(kernels_ch_modes) <= Len(new_kernels)
  /\ \A n \in 1 .. Single : IsSingle(new_kernels[n])
  /\ \A n \in 1 .. Len(kernels_ch_modes) : kernels_ch_modes[n] = Mode(new_kernels[Single + n])

EdgeOf(f, t) == \E i \in DOMAIN dependencies : dependencies[i] = <<f, t>>

DependenciesAreChannels ==
  /\ dependencies \in Seq(Nat \X Nat)
  /\ \A i \in DOMAIN dependencies :
       \E f, t \in DOMAIN kernels_ch_modes : dependencies[i] = <<f, t>>
  /\ \A f, t \in DOMAIN kernels_ch_modes :
       EdgeOf(f, t) <=> Feeds(new_kernels[Single + f], new_kernels[Single + t])

FreeOnStack ==
  \A k \in DOMAIN kernels_ch_modes :
    IsFree(dependencies, marked, k) => k \in Range(resolved) \cup Range(free_kernels)

MarkedUntaken == \A i \in marked : dependencies[i][1] \notin Range(resolved)

(* How hls_top calls the kernels.                                          *)
Called ==
  /\ new_kernels \in Seq(Kernels) /\ Len(new_kernels) = NumKernels
  /\ Range(new_kernels) = Kernels /\ IsInjective(new_kernels)
  /\ \A m, n \in DOMAIN new_kernels : Feeds(new_kernels[m], new_kernels[n]) => m < n

Ordering == {"rewrite", "resolve", "rejected"}

OrderInv ==
  /\ ops \in [Kernels -> Codes]
  /\ phase \in Ordering => Rewritten
  /\ phase = "resolve" => todo = << >> /\ DependenciesAreChannels /\ FreeOnStack /\ MarkedUntaken
  /\ phase = "rejected" => Circular
  /\ phase \notin Ordering => Called

(* The kernels are finitely many.                                          *)
LEMMA KernelsFinite ==
  /\ NumKernels \in Nat \ {0}
  /\ IsFiniteSet(Kernels) /\ Cardinality(Kernels) = NumKernels
  BY KernelsAssumption, FS_Interval DEF Kernels

(* A kernel feeds another if some channel has the mode for it at both, and *)
(* then both have modes.                                                   *)
LEMMA FeedsFacts ==
  ASSUME ops \in [Kernels -> Codes], NEW k \in Kernels, NEW l \in Kernels
  PROVE  /\ Feeds(k, l) <=> \E c \in Channels : /\ c \in DOMAIN Mode(k) /\ Mode(k)[c] = "write"
                                                /\ c \in DOMAIN Mode(l) /\ Mode(l)[c] = "read"
         /\ Feeds(k, l) => ~IsSingle(k) /\ ~IsSingle(l)
  <1>1. \A m \in Kernels, c \in Channels :
          /\ Count(Write(c), ops[m]) \in Nat /\ Count(Read(c), ops[m]) \in Nat
          /\ Count(Write(c), ops[m]) = 0 \/ Count(Read(c), ops[m]) = 0
    <2> TAKE m \in Kernels, c \in Channels
    <2>1. /\ Len(ops[m]) \in Nat /\ DOMAIN ops[m] = 1 .. Len(ops[m])
          /\ Count(Write(c), ops[m]) = 0 \/ Count(Read(c), ops[m]) = 0
      BY CodeFacts, KernelsAssumption
    <2> QED
      BY <2>1, CountFacts
  <1>2. \A m \in Kernels, c \in Channels :
          /\ c \in DOMAIN Mode(m) <=> Count(Write(c), ops[m]) > 0 \/ Count(Read(c), ops[m]) > 0
          /\ c \in DOMAIN Mode(m) => Mode(m)[c] = IF Count(Write(c), ops[m]) > 0 THEN "write" ELSE "read"
    <2> TAKE m \in Kernels, c \in Channels
    <2>1. Count(Write(c), ops[m]) + Count(Read(c), ops[m]) > 0
            <=> Count(Write(c), ops[m]) > 0 \/ Count(Read(c), ops[m]) > 0
      BY <1>1
    <2> QED
      BY <2>1 DEF Mode
  <1>3. \A m \in Kernels, c \in Channels :
          /\ c \in DOMAIN Mode(m) /\ Mode(m)[c] = "write" <=> Count(Write(c), ops[m]) > 0
          /\ c \in DOMAIN Mode(m) /\ Mode(m)[c] = "read" <=> Count(Read(c), ops[m]) > 0
    <2> TAKE m \in Kernels, c \in Channels
    <2> DEFINE w == Count(Write(c), ops[m])
               r == Count(Read(c), ops[m])
    <2>1. w \in Nat /\ r \in Nat /\ (w = 0 \/ r = 0)
      BY <1>1
    <2>2. /\ c \in DOMAIN Mode(m) <=> w > 0 \/ r > 0
          /\ c \in DOMAIN Mode(m) => Mode(m)[c] = IF w > 0 THEN "write" ELSE "read"
      BY <1>2
    <2> HIDE DEF w, r
    <2>3. /\ c \in DOMAIN Mode(m) /\ Mode(m)[c] = "write" <=> w > 0
          /\ c \in DOMAIN Mode(m) /\ Mode(m)[c] = "read" <=> r > 0
      BY <2>1, <2>2
    <2> QED
      BY <2>3 DEF w, r
  <1>4. Feeds(k, l) <=> \E c \in Channels : Count(Write(c), ops[k]) > 0 /\ Count(Read(c), ops[l]) > 0
    BY DEF Feeds
  <1> QED
    BY <1>3, <1>4 DEF IsSingle

(* What is said of the code of the kernels alone stays true.               *)
LEMMA SameCode ==
  ASSUME ops' = ops
  PROVE  /\ \A k : Mode(k)' = Mode(k) /\ IsSingle(k)' = IsSingle(k)
         /\ \A k, l : Feeds(k, l)' = Feeds(k, l)
         /\ Circular' = Circular
  <1>1. \A k : Mode(k)' = Mode(k)
    BY DEF Mode
  <1>2. \A k : IsSingle(k)' = IsSingle(k)
    BY <1>1 DEF IsSingle
  <1>3. \A k, l : Feeds(k, l)' = Feeds(k, l)
    BY DEF Feeds
  <1>4. Circular' = Circular
    BY <1>3 DEF Circular
  <1> QED
    BY <1>1, <1>2, <1>3, <1>4

(* Initially no kernel is rewritten.                                       *)
LEMMA OrderInitially == Init => OrderInv
  <1> SUFFICES ASSUME Init PROVE OrderInv
    OBVIOUS
  <1>1. /\ ops \in [Kernels -> Codes] /\ phase = "rewrite" /\ todo = [k \in Kernels |-> k]
        /\ new_kernels = << >> /\ kernels_ch_modes = << >>
    BY DEF Init
  <1>2. /\ todo \in Seq(Nat) /\ Len(todo) = NumKernels /\ \A i \in 1 .. Len(todo) : todo[i] = i
    BY <1>1, KernelsFinite DEF Kernels
  <1>3. Len(new_kernels) = 0 /\ Range(new_kernels) = {} /\ new_kernels \in Seq(Kernels)
    BY <1>1 DEF Range
  <1>4. Single = 0
    BY <1>1 DEF Single
  <1>5. Rewritten
    BY <1>1, <1>2, <1>3, <1>4, KernelsFinite DEF Rewritten
  <1> QED
    BY <1>1, <1>5 DEF OrderInv, Ordering

(* The next kernel goes in front or, with its modes, to the end.           *)
LEMMA RewriteKernelOrders == IInv /\ OrderInv /\ RewriteKernel => OrderInv'
  <1> SUFFICES ASSUME IInv, OrderInv, RewriteKernel PROVE OrderInv'
    OBVIOUS
  <1> DEFINE k == Head(todo)
             m == Len(new_kernels)
             d == Len(kernels_ch_modes)
  <1>1. /\ phase = "rewrite" /\ phase' = phase /\ todo # << >> /\ todo' = Tail(todo) /\ ops' = ops
        /\ new_kernels' = IF IsSingle(k) THEN <<k>> \o new_kernels ELSE Append(new_kernels, k)
        /\ kernels_ch_modes' = IF IsSingle(k) THEN kernels_ch_modes ELSE Append(kernels_ch_modes, Mode(k))
    BY DEF RewriteKernel
  <1>2. Rewritten
    BY <1>1 DEF OrderInv, Ordering
  <1>3. /\ k = m + 1 /\ k \in Kernels /\ m \in Nat /\ m + 1 <= NumKernels
        /\ todo' \in Seq(Nat) /\ Len(todo') = NumKernels - (m + 1)
        /\ \A i \in 1 .. Len(todo') : todo'[i] = (m + 1) + i
    <2>1. /\ todo \in Seq(Nat) /\ Len(todo) = NumKernels - m /\ m \in Nat
          /\ \A i \in 1 .. Len(todo) : todo[i] = m + i
      BY <1>2 DEF Rewritten
    <2> HIDE DEF m
    <2>2. Len(todo) \in Nat \ {0} /\ k = todo[1]
      BY <2>1, <1>1
    <2>3. todo' \in Seq(Nat) /\ Len(todo') = Len(todo) - 1 /\ \A i \in 1 .. Len(todo') : todo'[i] = todo[i + 1]
      BY <2>1, <1>1
    <2> HIDE DEF k
    <2>4. 1 \in 1 .. Len(todo) /\ \A i \in 1 .. Len(todo') : i + 1 \in 1 .. Len(todo)
      BY <2>2, <2>3
    <2>5. k = m + 1 /\ m + 1 <= NumKernels
      BY <2>1, <2>2, <2>4, KernelsFinite
    <2> QED
      BY <2>1, <2>3, <2>4, <2>5, KernelsFinite DEF Kernels
  <1>4. /\ new_kernels \in Seq(Kernels) /\ Range(new_kernels) = 1 .. m /\ d <= m
        /\ \A n \in 1 .. m - d : IsSingle(new_kernels[n])
        /\ \A n \in 1 .. d : kernels_ch_modes[n] = Mode(new_kernels[(m - d) + n])
    BY <1>2 DEF Rewritten, Single
  <1>5. /\ d \in Nat /\ m - d \in Nat /\ DOMAIN new_kernels = 1 .. m
        /\ kernels_ch_modes \in Seq(Modes)
    BY <1>3, <1>4 DEF IInv, TypeInv
  <1>6. Single = m - d
    BY DEF Single
  <1>7. \A j : Mode(j)' = Mode(j) /\ IsSingle(j)' = IsSingle(j)
    BY <1>1, SameCode
  <1>8. 1 .. m + 1 = (1 .. m) \cup {m + 1}
    BY <1>3
  <1>9. CASE IsSingle(k)
    <2> DEFINE both == <<k>> \o new_kernels
    <2>1. new_kernels' = both /\ kernels_ch_modes' = kernels_ch_modes
      BY <1>1, <1>9
    <2>2. /\ both \in Seq(Kernels) /\ Len(both) = m + 1 /\ both[1] = k
          /\ \A n \in 1 .. m : both[1 + n] = new_kernels[n]
      <3>1. /\ <<k>> \in Seq(Kernels) /\ Len(<<k>>) = 1 /\ <<k>>[1] = k
        BY <1>3
      <3> HIDE DEF k, m
      <3>2. /\ both \in Seq(Kernels) /\ Len(both) = Len(<<k>>) + Len(new_kernels)
            /\ \A n \in 1 .. Len(<<k>>) : both[n] = <<k>>[n]
            /\ \A n \in 1 .. Len(new_kernels) : both[Len(<<k>>) + n] = new_kernels[n]
        BY <3>1, <1>4, ConcatFacts
      <3> QED
        BY <3>1, <3>2, <1>3 DEF m
    <2> HIDE DEF both, m, d, k
    <2>3. \A n \in 2 .. m + 1 : n - 1 \in 1 .. m /\ both[n] = new_kernels[n - 1]
      <3> TAKE n \in 2 .. m + 1
      <3>1. n - 1 \in 1 .. m /\ n = 1 + (n - 1)
        BY <1>3
      <3> QED
        BY <3>1, <2>2
    <2>4. Range(both) = 1 .. m + 1
      <3>1. DOMAIN both = 1 .. m + 1 /\ \A n \in 1 .. m + 1 : n = 1 \/ n \in 2 .. m + 1
        BY <2>2, <1>3
      <3>2. \A n \in 1 .. m : 1 + n \in 1 .. m + 1
        BY <1>3
      <3>3. \A x \in 1 .. m : \E n \in 1 .. m : new_kernels[n] = x
        BY <1>4, <1>5 DEF Range
      <3>4. \A x \in 1 .. m : \E n \in 1 .. m + 1 : both[n] = x
        BY <3>2, <3>3, <2>2
      <3>5. \A n \in 1 .. m : new_kernels[n] \in 1 .. m
        BY <1>4, <1>5 DEF Range
      <3>6. \A n \in 1 .. m + 1 : both[n] \in 1 .. m + 1
        <4> TAKE n \in 1 .. m + 1
        <4>1. CASE n = 1
          BY <4>1, <2>2, <1>3
        <4>2. CASE n \in 2 .. m + 1
          <5>1. both[n] \in 1 .. m
            BY <4>2, <3>5, <2>3
          <5> QED
            BY <5>1, <1>8
        <4> QED
          BY <4>1, <4>2, <3>1
      <3>7. 1 \in 1 .. m + 1 /\ both[1] = m + 1
        BY <1>3, <2>2
      <3> QED
        BY <3>1, <3>4, <3>6, <3>7, <1>8 DEF Range
    <2>5. Single' = (m - d) + 1 /\ Len(kernels_ch_modes') = d
      BY <2>1, <2>2, <1>3, <1>5 DEF Single, d
    <2>6. \A n \in 1 .. Single' : IsSingle(new_kernels[n])'
      <3> TAKE n \in 1 .. Single'
      <3>1. CASE n = 1
        BY <3>1, <2>1, <2>2, <1>7, <1>9
      <3>2. CASE n # 1
        <4>1. n \in 2 .. m + 1 /\ n - 1 \in 1 .. m - d
          BY <3>2, <2>5, <1>3, <1>4, <1>5
        <4>2. IsSingle(new_kernels[n - 1]) /\ new_kernels'[n] = new_kernels[n - 1]
          BY <4>1, <1>4, <2>1, <2>3
        <4> QED
          BY <4>2, <1>7
      <3> QED
        BY <3>1, <3>2
    <2>7. \A n \in 1 .. d : kernels_ch_modes'[n] = Mode(new_kernels[Single + n])'
      <3> TAKE n \in 1 .. d
      <3>1. (m - d) + n \in 1 .. m /\ Single' + n = 1 + ((m - d) + n)
        BY <2>5, <1>3, <1>4, <1>5
      <3>2. new_kernels'[Single' + n] = new_kernels[(m - d) + n]
        BY <3>1, <2>1, <2>2
      <3> QED
        BY <3>2, <2>1, <1>4, <1>7
    <2>8. /\ new_kernels' \in Seq(Kernels) /\ Len(new_kernels') = m + 1 /\ Range(new_kernels') = 1 .. m + 1
      BY <2>1, <2>2, <2>4
    <2>9. Rewritten'
      BY <2>5, <2>6, <2>7, <2>8, <1>3, <1>4, <1>5 DEF Rewritten
    <2> QED
      BY <2>9, <1>1 DEF OrderInv, Ordering
  <1>10. CASE ~IsSingle(k)
    <2>1. new_kernels' = Append(new_kernels, k) /\ kernels_ch_modes' = Append(kernels_ch_modes, Mode(k))
      BY <1>1, <1>10
    <2> HIDE DEF k
    <2>2. /\ new_kernels' \in Seq(Kernels) /\ Len(new_kernels') = m + 1 /\ new_kernels'[m + 1] = k
          /\ \A n \in 1 .. m : new_kernels'[n] = new_kernels[n]
      BY <2>1, <1>3, <1>4
    <2>3. /\ Len(kernels_ch_modes') = d + 1 /\ kernels_ch_modes'[d + 1] = Mode(k)
          /\ \A n \in 1 .. d : kernels_ch_modes'[n] = kernels_ch_modes[n]
      BY <2>1, <1>5
    <2>4. Range(new_kernels') = 1 .. m + 1
      <3>1. DOMAIN new_kernels' = 1 .. m + 1
        BY <2>2, <1>3
      <3>2. \A x \in 1 .. m : \E n \in 1 .. m : new_kernels[n] = x
        BY <1>4, <1>5 DEF Range
      <3>3. \A n \in 1 .. m : new_kernels[n] \in 1 .. m
        BY <1>4, <1>5 DEF Range
      <3> HIDE DEF m
      <3>4. \A x \in 1 .. m + 1 : \E n \in 1 .. m + 1 : new_kernels'[n] = x
        <4>1. m + 1 \in 1 .. m + 1
          BY <1>3
        <4> QED
          BY <4>1, <3>2, <2>2, <1>3, <1>8
      <3>5. \A n \in 1 .. m + 1 : new_kernels'[n] \in 1 .. m + 1
        <4>1. m + 1 \in 1 .. m + 1
          BY <1>3
        <4> QED
          BY <4>1, <3>3, <2>2, <1>3, <1>8
      <3> QED
        BY <3>1, <3>4, <3>5 DEF Range
    <2> HIDE DEF m, d
    <2>5. Single' = m - d
      BY <2>2, <2>3, <1>3, <1>5 DEF Single
    <2>6. \A n \in 1 .. Single' : IsSingle(new_kernels[n])'
      <3> TAKE n \in 1 .. Single'
      <3>1. n \in 1 .. m - d /\ n \in 1 .. m
        BY <2>5, <1>3, <1>4, <1>5
      <3> QED
        BY <3>1, <2>2, <1>4, <1>7
    <2>7. \A n \in 1 .. d + 1 : kernels_ch_modes'[n] = Mode(new_kernels[Single + n])'
      <3> TAKE n \in 1 .. d + 1
      <3>1. CASE n = d + 1
        <4>1. Single' + n = m + 1
          BY <3>1, <2>5, <1>3, <1>5
        <4> QED
          BY <4>1, <3>1, <2>2, <2>3, <1>7
      <3>2. CASE n # d + 1
        <4>1. n \in 1 .. d /\ (m - d) + n \in 1 .. m
          BY <3>2, <1>3, <1>4, <1>5
        <4>2. kernels_ch_modes[n] = Mode(new_kernels[(m - d) + n])
          BY <4>1, <1>4
        <4> QED
          BY <4>1, <4>2, <2>2, <2>3, <2>5, <1>7
      <3> QED
        BY <3>1, <3>2
    <2>8. d + 1 <= m + 1
      BY <1>3, <1>4, <1>5
    <2>9. Rewritten'
      BY <2>2, <2>3, <2>4, <2>6, <2>7, <2>8, <1>3 DEF Rewritten
    <2> QED
      BY <2>9, <1>1 DEF OrderInv, Ordering
  <1> QED
    BY <1>9, <1>10

(* A set of triples of finitely many is finite.                            *)
LEMMA TriplesFinite ==
  ASSUME NEW A, IsFiniteSet(A), NEW B, IsFiniteSet(B), NEW C, IsFiniteSet(C),
         NEW E, \A e \in E : \E a \in A, b \in B, c \in C : e = <<a, b, c>>
  PROVE  IsFiniteSet(E)
  <1> DEFINE P == B \X C
  <1>1. IsFiniteSet(P) /\ \A b \in B, c \in C : <<b, c>> \in P
    BY FS_Product
  <1> HIDE DEF P
  <1> DEFINE T == A \X P
  <1>2. IsFiniteSet(T)
    BY <1>1, FS_Product
  <1>3. \A a \in A, b \in B, c \in C : <<a, <<b, c>>>> \in T
    BY <1>1
  <1> HIDE DEF T
  <1> DEFINE F == [e \in E |-> <<e[1], <<e[2], e[3]>>>>]
  <1>4. ASSUME NEW e \in E PROVE F[e] \in T
    <2>1. PICK a \in A, b \in B, c \in C : e = <<a, b, c>>
      OBVIOUS
    <2>2. F[e] = <<a, <<b, c>>>>
      BY <2>1
    <2> QED
      BY <2>2, <1>3
  <1>5. ASSUME NEW d \in E, NEW e \in E, F[d] = F[e] PROVE d = e
    <2>1. F[d] = <<d[1], <<d[2], d[3]>>>> /\ F[e] = <<e[1], <<e[2], e[3]>>>>
      OBVIOUS
    <2>2. d = <<d[1], d[2], d[3]>> /\ e = <<e[1], e[2], e[3]>>
      OBVIOUS
    <2> QED
      BY <2>1, <2>2, <1>5
  <1>6. F \in [E -> T]
    BY <1>4
  <1> HIDE DEF F
  <1>7. F \in Injection(E, T)
    BY <1>5, <1>6 DEF Injection, IsInjective
  <1> QED
    BY <1>2, <1>7, FS_Injection

(* There are finitely many dependencies, one for each channel and each two *)
(* kernels with their modes for it.                                        *)
LEMMA EdgeFacts ==
  ASSUME NEW globals \in SetToSeqs(Channels), NEW n \in Nat, NEW modes, DOMAIN modes = 1 .. n
  PROVE  /\ IsFiniteSet(Edges(globals, modes))
         /\ \A e \in Edges(globals, modes) :
              \E c \in Channels : \E f \in Uses(modes, c, "write") : \E t \in Uses(modes, c, "read") :
                e[2] = f /\ e[3] = t
         /\ \A c \in Channels : \A f \in Uses(modes, c, "write") : \A t \in Uses(modes, c, "read") :
              \E e \in Edges(globals, modes) : e[2] = f /\ e[3] = t
  <1> DEFINE E == Edges(globals, modes)
  <1>1. /\ globals \in Seq(Channels) /\ DOMAIN globals = 1 .. Len(globals) /\ Range(globals) = Channels
    BY ListingFacts, KernelsAssumption
  <1>2. \A e \in E : \E g \in DOMAIN globals :
          \E f \in Uses(modes, globals[g], "write") : \E t \in Uses(modes, globals[g], "read") : e = <<g, f, t>>
    BY DEF Edges
  <1>3. \A g \in DOMAIN globals :
          \A f \in Uses(modes, globals[g], "write") : \A t \in Uses(modes, globals[g], "read") : <<g, f, t>> \in E
    BY DEF Edges
  <1>4. \A c, mode : Uses(modes, c, mode) \subseteq 1 .. n
    BY DEF Uses
  <1> HIDE DEF E
  <1>5. IsFiniteSet(E)
    <2>1. IsFiniteSet(DOMAIN globals) /\ IsFiniteSet(1 .. n)
      BY <1>1, FS_Interval
    <2>2. \A e \in E : \E g \in DOMAIN globals, f \in 1 .. n, t \in 1 .. n : e = <<g, f, t>>
      BY <1>2, <1>4
    <2> DEFINE G == DOMAIN globals
               N == 1 .. n
    <2>3. IsFiniteSet(G) /\ IsFiniteSet(N) /\ \A e \in E : \E g \in G, f \in N, t \in N : e = <<g, f, t>>
      BY <2>1, <2>2
    <2> HIDE DEF G, N
    <2> QED
      BY <2>3, TriplesFinite
  <1>6. \A g \in DOMAIN globals : globals[g] \in Channels
    BY <1>1 DEF Range
  <1>7. \A c \in Channels : \E g \in DOMAIN globals : globals[g] = c
    BY <1>1 DEF Range
  <1>8. \A e \in E : \E c \in Channels : \E f \in Uses(modes, c, "write") : \E t \in Uses(modes, c, "read") :
           e[2] = f /\ e[3] = t
    <2> TAKE e \in E
    <2>1. PICK g \in DOMAIN globals : \E f \in Uses(modes, globals[g], "write") :
            \E t \in Uses(modes, globals[g], "read") : e = <<g, f, t>>
      BY <1>2
    <2> QED
      BY <2>1, <1>6
  <1>9. ASSUME NEW c \in Channels, NEW f \in Uses(modes, c, "write"), NEW t \in Uses(modes, c, "read")
         PROVE  \E e \in E : e[2] = f /\ e[3] = t
    <2>1. PICK g \in DOMAIN globals : globals[g] = c
      BY <1>7
    <2>2. <<g, f, t>> \in E
      BY <1>3, <2>1
    <2> QED
      BY <2>2
  <1> QED
    BY <1>5, <1>8, <1>9 DEF E

(* Where the kernels with modes are before they are reordered.             *)
LEMMA ModeKernels ==
  ASSUME IInv, Rewritten
  PROVE  \A n \in DOMAIN kernels_ch_modes :
           new_kernels[Single + n] \in Kernels /\ kernels_ch_modes[n] = Mode(new_kernels[Single + n])
  <1> DEFINE d == Len(kernels_ch_modes)
             m == Len(new_kernels)
  <1>1. d \in Nat /\ DOMAIN kernels_ch_modes = 1 .. d
    BY DEF IInv, TypeInv
  <1>2. new_kernels \in Seq(Kernels) /\ m \in Nat /\ d <= m /\ Single = m - d
    BY DEF Rewritten, Single
  <1>3. \A n \in 1 .. d : kernels_ch_modes[n] = Mode(new_kernels[Single + n])
    BY DEF Rewritten
  <1> HIDE DEF d
  <1>4. \A n \in 1 .. d : Single + n \in 1 .. m
    <2> HIDE DEF m
    <2> QED
      BY <1>1, <1>2
  <1> QED
    BY <1>1, <1>2, <1>3, <1>4

(* The dependencies are the channels between the kernels that have modes.  *)
LEMMA BuildTopOrders == IInv /\ OrderInv /\ BuildTop => OrderInv'
  <1> SUFFICES ASSUME IInv, OrderInv, BuildTop PROVE OrderInv'
    OBVIOUS
  <1> DEFINE d == Len(kernels_ch_modes)
             kernel(n) == new_kernels[Single + n]
  <1>1. /\ phase = "rewrite" /\ phase' = "resolve" /\ todo = << >> /\ resolved' = << >>
        /\ ops' = ops /\ todo' = todo /\ new_kernels' = new_kernels /\ kernels_ch_modes' = kernels_ch_modes
        /\ free_kernels' \in
             Ascending({k \in DOMAIN kernels_ch_modes : IsFree(dependencies', DOMAIN dependencies', k)})
        /\ marked' = DOMAIN dependencies'
    BY DEF BuildTop
  <1>2. PICK globals \in SetToSeqs(Channels) : \E s \in Looped(Edges(globals, kernels_ch_modes)) :
          dependencies' = [n \in DOMAIN s |-> <<s[n][2], s[n][3]>>]
    BY DEF BuildTop
  <1>3. PICK s \in Looped(Edges(globals, kernels_ch_modes)) :
          dependencies' = [n \in DOMAIN s |-> <<s[n][2], s[n][3]>>]
    BY <1>2
  <1>4. Rewritten /\ Rewritten' /\ Single' = Single
    <2>1. Rewritten
      BY <1>1 DEF OrderInv, Ordering
    <2>2. \A k : Mode(k)' = Mode(k) /\ IsSingle(k)' = IsSingle(k)
      BY <1>1, SameCode
    <2> QED
      BY <2>1, <2>2, <1>1 DEF Rewritten, Single
  <1>5. /\ d \in Nat /\ DOMAIN kernels_ch_modes = 1 .. d /\ DOMAIN kernels_ch_modes' = 1 .. d
        /\ \A n \in 1 .. d : kernel(n) \in Kernels /\ kernels_ch_modes[n] = Mode(kernel(n))
    BY <1>1, <1>4, ModeKernels DEF IInv, TypeInv
  <1>6. /\ IsFiniteSet(Edges(globals, kernels_ch_modes))
        /\ \A e \in Edges(globals, kernels_ch_modes) :
             \E c \in Channels : \E f \in Uses(kernels_ch_modes, c, "write") :
               \E t \in Uses(kernels_ch_modes, c, "read") : e[2] = f /\ e[3] = t
        /\ \A c \in Channels : \A f \in Uses(kernels_ch_modes, c, "write") :
             \A t \in Uses(kernels_ch_modes, c, "read") :
               \E e \in Edges(globals, kernels_ch_modes) : e[2] = f /\ e[3] = t
    <2> HIDE DEF d
    <2> QED
      BY <1>5, EdgeFacts
  <1>7. Range(s) = Edges(globals, kernels_ch_modes)
    <2>1. s \in SetToSeqs(Edges(globals, kernels_ch_modes))
      BY <1>3 DEF Looped
    <2> QED
      BY <2>1, <1>6, ListingFacts
  <1>8. \A f, t \in 1 .. d :
          (\E c \in Channels : f \in Uses(kernels_ch_modes, c, "write") /\ t \in Uses(kernels_ch_modes, c, "read"))
            <=> Feeds(kernel(f), kernel(t))
    <2> TAKE f, t \in 1 .. d
    <2>1. Feeds(kernel(f), kernel(t)) <=>
            \E c \in Channels : /\ c \in DOMAIN Mode(kernel(f)) /\ Mode(kernel(f))[c] = "write"
                                /\ c \in DOMAIN Mode(kernel(t)) /\ Mode(kernel(t))[c] = "read"
      BY <1>5, FeedsFacts DEF OrderInv
    <2> HIDE DEF kernel, d
    <2> QED
      BY <2>1, <1>5 DEF Uses
  <1> HIDE DEF kernel, d
  <1>9. \A i \in DOMAIN dependencies' : \E f, t \in 1 .. d :
          dependencies'[i] = <<f, t>> /\ Feeds(kernel(f), kernel(t))
    <2> TAKE i \in DOMAIN dependencies'
    <2>1. i \in DOMAIN s /\ dependencies'[i] = <<s[i][2], s[i][3]>> /\ s[i] \in Edges(globals, kernels_ch_modes)
      BY <1>3, <1>7 DEF Range
    <2>2. PICK c \in Channels : \E f \in Uses(kernels_ch_modes, c, "write") :
            \E t \in Uses(kernels_ch_modes, c, "read") : s[i][2] = f /\ s[i][3] = t
      BY <2>1, <1>6
    <2>3. s[i][2] \in 1 .. d /\ s[i][3] \in 1 .. d
      BY <2>2, <1>5 DEF Uses
    <2> QED
      BY <2>1, <2>2, <2>3, <1>8
  <1>10. ASSUME NEW f \in 1 .. d, NEW t \in 1 .. d, Feeds(kernel(f), kernel(t))
         PROVE  EdgeOf(f, t)'
    <2>1. PICK c \in Channels : f \in Uses(kernels_ch_modes, c, "write") /\ t \in Uses(kernels_ch_modes, c, "read")
      BY <1>8, <1>10
    <2>2. PICK e \in Edges(globals, kernels_ch_modes) : e[2] = f /\ e[3] = t
      BY <2>1, <1>6
    <2>3. PICK i \in DOMAIN s : s[i] = e
      BY <1>7 DEF Range
    <2>4. i \in DOMAIN dependencies' /\ dependencies'[i] = <<f, t>>
      BY <2>2, <2>3, <1>3
    <2> QED
      BY <2>4 DEF EdgeOf
  <1>11. DependenciesAreChannels'
    <2>1. \A k, l : Feeds(k, l)' = Feeds(k, l)
      BY <1>1, SameCode
    <2>2. \A f, t \in 1 .. d : EdgeOf(f, t)' => Feeds(kernel(f), kernel(t))
      <3> SUFFICES ASSUME NEW f \in 1 .. d, NEW t \in 1 .. d, EdgeOf(f, t)'
                   PROVE  Feeds(kernel(f), kernel(t))
        OBVIOUS
      <3>1. PICK i \in DOMAIN dependencies' : dependencies'[i] = <<f, t>>
        BY DEF EdgeOf
      <3>2. PICK u, v \in 1 .. d : dependencies'[i] = <<u, v>> /\ Feeds(kernel(u), kernel(v))
        BY <1>9
      <3>3. u = f /\ v = t
        BY <3>1, <3>2
      <3> QED
        BY <3>2, <3>3
    <2>3. \A f, t \in 1 .. d : EdgeOf(f, t)' <=> Feeds(new_kernels[Single + f], new_kernels[Single + t])'
      BY <2>1, <2>2, <1>1, <1>4, <1>10 DEF kernel
    <2>4. \A i \in DOMAIN dependencies' : \E f, t \in 1 .. d : dependencies'[i] = <<f, t>>
      BY <1>9
    <2>5. dependencies' \in Seq(Nat \X Nat)
      <3>1. s \in Seq(Edges(globals, kernels_ch_modes))
        <4>1. s \in SetToSeqs(Edges(globals, kernels_ch_modes))
          BY <1>3 DEF Looped
        <4> QED
          BY <4>1, <1>6, ListingFacts
      <3>2. Len(s) \in Nat /\ DOMAIN dependencies' = 1 .. Len(s)
        BY <3>1, <1>3
      <3>3. \A i \in 1 .. Len(s) : dependencies'[i] \in Nat \X Nat
        <4> TAKE i \in 1 .. Len(s)
        <4>1. PICK f, t \in 1 .. d : dependencies'[i] = <<f, t>>
          BY <3>2, <1>9
        <4> QED
          BY <4>1, <1>5
      <3>4. dependencies' = [i \in 1 .. Len(s) |-> dependencies'[i]]
        BY <3>2, <1>3
      <3> QED
        BY <3>2, <3>3, <3>4
    <2> QED
      BY <2>3, <2>4, <2>5, <1>5 DEF DependenciesAreChannels
  <1>12. FreeOnStack' /\ MarkedUntaken'
    <2>1. Range(free_kernels') = {k \in DOMAIN kernels_ch_modes : IsFree(dependencies', DOMAIN dependencies', k)}
      BY <1>1, AscendingFacts
    <2> QED
      BY <2>1, <1>1 DEF FreeOnStack, MarkedUntaken, Range
  <1> QED
    BY <1>1, <1>4, <1>11, <1>12 DEF OrderInv, Ordering

(* What was on the stack is taken or still there, and what waited for the  *)
(* kernel that is taken, and then for none, is on the stack.               *)
LEMMA TakenAndPushed ==
  ASSUME IInv, ResolveNext
  PROVE  LET free  == Last(free_kernels)
             gone  == {i \in marked : dependencies[i][1] = free}
             freed == {i \in gone : IsFree(dependencies, {j \in marked : j \in gone => i < j}, dependencies[i][2])}
         IN  /\ Range(resolved') = Range(resolved) \cup {free}
             /\ Range(free_kernels) \subseteq {free} \cup Range(free_kernels')
             /\ \A i \in freed : dependencies[i][2] \in Range(free_kernels')
  <1> DEFINE free  == Last(free_kernels)
             rest  == Front(free_kernels)
             gone  == {i \in marked : dependencies[i][1] = free}
             freed == {i \in gone : IsFree(dependencies, {j \in marked : j \in gone => i < j}, dependencies[i][2])}
  <1>1. free_kernels # << >> /\ resolved' = Append(resolved, free)
    BY DEF ResolveNext
  <1>2. PICK order \in Ascending(freed) : free_kernels' = rest \o [n \in DOMAIN order |-> dependencies[order[n]][2]]
    BY DEF ResolveNext
  <1> DEFINE pushed == [n \in DOMAIN order |-> dependencies[order[n]][2]]
  <1>3. freed \subseteq marked /\ marked \subseteq DOMAIN dependencies
    BY DEF IInv, TypeInv
  <1> HIDE DEF free, rest, gone, freed, pushed
  <1>4. /\ order \in Seq(freed) /\ Range(order) = freed
    BY <1>2, AscendingFacts
  <1>5. /\ rest \in Seq(Names) /\ free \in Names /\ Len(free_kernels) \in Nat \ {0}
        /\ Len(rest) = Len(free_kernels) - 1
        /\ \A n \in 1 .. Len(rest) : rest[n] = free_kernels[n]
        /\ free = free_kernels[Len(free_kernels)]
        /\ DOMAIN free_kernels = 1 .. Len(free_kernels)
    <2>1. free_kernels \in Seq(Names) /\ free_kernels # << >>
      BY <1>1 DEF IInv, TypeInv
    <2> QED
      BY <2>1, FrontFacts, SMTT(30) DEF free, rest
  <1>6. /\ pushed \in Seq(Names) /\ DOMAIN pushed = 1 .. Len(pushed) /\ DOMAIN order = DOMAIN pushed
        /\ \A n \in DOMAIN pushed : pushed[n] = dependencies[order[n]][2]
    <2>1. /\ Len(order) \in Nat /\ DOMAIN order = 1 .. Len(order)
          /\ \A n \in DOMAIN order : order[n] \in DOMAIN dependencies
      BY <1>3, <1>4
    <2>2. pushed \in [1 .. Len(order) -> Names]
      BY <2>1 DEF pushed, Names, Targets
    <2> QED
      BY <2>1, <2>2 DEF pushed
  <1>7. /\ free_kernels' \in Seq(Names) /\ DOMAIN free_kernels' = 1 .. Len(rest) + Len(pushed)
        /\ Len(rest) \in Nat /\ Len(pushed) \in Nat
        /\ \A n \in 1 .. Len(rest) : free_kernels'[n] = rest[n]
        /\ \A n \in 1 .. Len(pushed) : free_kernels'[Len(rest) + n] = pushed[n]
    <2>1. free_kernels' = rest \o pushed
      BY <1>2 DEF pushed
    <2>2. /\ Len(rest) \in Nat /\ Len(pushed) \in Nat
          /\ rest \o pushed \in Seq(Names) /\ Len(rest \o pushed) = Len(rest) + Len(pushed)
          /\ \A n \in 1 .. Len(rest) : (rest \o pushed)[n] = rest[n]
          /\ \A n \in 1 .. Len(pushed) : (rest \o pushed)[Len(rest) + n] = pushed[n]
      <3>1. rest \in Seq(Names) /\ pushed \in Seq(Names)
        BY <1>5, <1>6
      <3> QED
        BY <3>1, ConcatFacts
    <2>3. DOMAIN (rest \o pushed) = 1 .. Len(rest) + Len(pushed)
      BY <2>2
    <2> QED
      BY <2>1, <2>2, <2>3
  <1>8. Range(resolved') = Range(resolved) \cup {free}
    <2>1. /\ DOMAIN resolved' = DOMAIN resolved \cup {Len(resolved) + 1}
          /\ \A n \in DOMAIN resolved : resolved'[n] = resolved[n]
          /\ resolved'[Len(resolved) + 1] = free
      BY <1>1, <1>5 DEF IInv, TypeInv
    <2> QED
      BY <2>1 DEF Range
  <1>9. \A n \in DOMAIN free_kernels : free_kernels[n] \in {free} \cup Range(free_kernels')
    <2> TAKE n \in DOMAIN free_kernels
    <2>1. CASE n = Len(free_kernels)
      BY <2>1, <1>5
    <2>2. CASE n # Len(free_kernels)
      <3>1. n \in 1 .. Len(rest)
        BY <2>2, <1>5
      <3>2. n \in DOMAIN free_kernels' /\ free_kernels'[n] = free_kernels[n]
        BY <3>1, <1>5, <1>7
      <3> QED
        BY <3>2 DEF Range
    <2> QED
      BY <2>1, <2>2
  <1>10. ASSUME NEW i \in freed PROVE dependencies[i][2] \in Range(free_kernels')
    <2>1. PICK n \in DOMAIN pushed : order[n] = i
      BY <1>4, <1>6 DEF Range
    <2>2. n \in 1 .. Len(pushed) /\ pushed[n] = dependencies[i][2]
      BY <2>1, <1>6
    <2>3. Len(rest) + n \in DOMAIN free_kernels' /\ free_kernels'[Len(rest) + n] = pushed[n]
      BY <2>2, <1>7
    <2> QED
      BY <2>2, <2>3 DEF Range
  <1> QED
    BY <1>8, <1>9, <1>10 DEF free, gone, freed, Range

(* A kernel that waits for none any more is pushed with the last of the    *)
(* dependencies it waited for.                                             *)
LEMMA ResolveNextOrders == IInv /\ OrderInv /\ ResolveNext => OrderInv'
  <1> SUFFICES ASSUME IInv, OrderInv, ResolveNext PROVE OrderInv'
    OBVIOUS
  <1> DEFINE free  == Last(free_kernels)
             gone  == {i \in marked : dependencies[i][1] = free}
             left(i) == {j \in marked : j \in gone => i < j}
             freed == {i \in gone : IsFree(dependencies, left(i), dependencies[i][2])}
  <1>1. /\ phase = "resolve" /\ phase' = phase /\ marked' = marked \ gone
        /\ UNCHANGED <<ops, todo, new_kernels, kernels_ch_modes, dependencies>>
    BY DEF ResolveNext, built
  <1>2. /\ Range(resolved') = Range(resolved) \cup {free}
        /\ Range(free_kernels) \subseteq {free} \cup Range(free_kernels')
        /\ \A i \in freed : dependencies[i][2] \in Range(free_kernels')
    BY TakenAndPushed
  <1>3. Rewritten /\ todo = << >> /\ DependenciesAreChannels /\ FreeOnStack /\ MarkedUntaken
    BY <1>1 DEF OrderInv, Ordering
  <1>4. /\ \A k : Mode(k)' = Mode(k) /\ IsSingle(k)' = IsSingle(k)
        /\ \A k, l : Feeds(k, l)' = Feeds(k, l)
    BY <1>1, SameCode
  <1>5. Rewritten'
    BY <1>1, <1>3, <1>4 DEF Rewritten, Single
  <1>6. DependenciesAreChannels'
    BY <1>1, <1>3, <1>4 DEF DependenciesAreChannels, EdgeOf, Single
  <1>7. MarkedUntaken'
    BY <1>1, <1>2, <1>3 DEF MarkedUntaken
  <1>8. FreeOnStack'
    <2> SUFFICES ASSUME NEW k \in DOMAIN kernels_ch_modes, IsFree(dependencies, marked', k)
                 PROVE  k \in Range(resolved') \cup Range(free_kernels')
      BY <1>1 DEF FreeOnStack
    <2>1. CASE IsFree(dependencies, marked, k)
      BY <2>1, <1>2, <1>3 DEF FreeOnStack
    <2>2. CASE ~IsFree(dependencies, marked, k)
      <3> DEFINE I == {i \in marked : dependencies[i][2] = k}
      <3>1. I # {} /\ I \subseteq gone
        BY <2>2, <1>1 DEF IsFree
      <3>2. marked \subseteq 0 .. Len(dependencies) /\ Len(dependencies) \in Nat
        <4>1. dependencies \in Seq(Nat \X Nat) /\ marked \subseteq DOMAIN dependencies
          BY <1>3 DEF DependenciesAreChannels, IInv, TypeInv
        <4> QED
          BY <4>1
      <3>3. PICK i \in I : \A j \in I : j <= i
        <4>1. I \in SUBSET (0 .. Len(dependencies))
          BY <3>2
        <4> HIDE DEF I
        <4> QED
          BY <4>1, <3>1, <3>2, LargestExists
      <3>4. IsFree(dependencies, left(i), k)
        <4> SUFFICES ASSUME NEW j \in left(i), dependencies[j][2] = k PROVE FALSE
          BY DEF IsFree
        <4>1. j \in I /\ i < j
          BY <3>1
        <4>2. j <= i /\ i \in Nat /\ j \in Nat
          BY <4>1, <3>2, <3>3
        <4> QED
          BY <4>1, <4>2
      <3>5. i \in freed /\ dependencies[i][2] = k
        BY <3>1, <3>4
      <3> QED
        BY <3>5, <1>2
    <2> QED
      BY <2>1, <2>2
  <1> QED
    BY <1>1, <1>3, <1>5, <1>6, <1>7, <1>8 DEF OrderInv, Ordering

(* If kernels are left but none is free, each that is left waits for one   *)
(* that is: a circle.                                                      *)
LEMMA RejectOrders == IInv /\ OrderInv /\ Reject => OrderInv'
  <1> SUFFICES ASSUME IInv, OrderInv, Reject PROVE OrderInv'
    OBVIOUS
  <1> DEFINE left == {k \in DOMAIN kernels_ch_modes : k \notin Range(resolved)}
             kernel(k) == new_kernels[Single + k]
             S == {kernel(k) : k \in left}
  <1>1. /\ phase = "resolve" /\ phase' = "rejected" /\ free_kernels = << >> /\ marked # {}
        /\ UNCHANGED <<ops, todo, new_kernels, kernels_ch_modes>>
    BY DEF Reject, built
  <1>2. Rewritten /\ DependenciesAreChannels /\ FreeOnStack /\ MarkedUntaken
    BY <1>1 DEF OrderInv, Ordering
  <1>3. \A k \in DOMAIN kernels_ch_modes : kernel(k) \in Kernels
    BY <1>2, ModeKernels
  <1>4. \A i \in marked : \E f, t \in DOMAIN kernels_ch_modes :
          dependencies[i] = <<f, t>> /\ f \in left /\ Feeds(kernel(f), kernel(t))
    <2> TAKE i \in marked
    <2>1. i \in DOMAIN dependencies
      BY DEF IInv, TypeInv
    <2>2. PICK f, t \in DOMAIN kernels_ch_modes : dependencies[i] = <<f, t>>
      BY <2>1, <1>2 DEF DependenciesAreChannels
    <2>3. EdgeOf(f, t)
      BY <2>1, <2>2 DEF EdgeOf
    <2>4. Feeds(kernel(f), kernel(t))
      BY <2>3, <1>2 DEF DependenciesAreChannels
    <2>5. f \in left
      BY <2>2, <1>2 DEF MarkedUntaken
    <2> QED
      BY <2>2, <2>4, <2>5
  <1>5. ASSUME NEW t \in left PROVE \E f \in left : Feeds(kernel(f), kernel(t))
    <2>1. Range(free_kernels) = {}
      BY <1>1 DEF Range
    <2>2. PICK i \in marked : dependencies[i][2] = t
      BY <2>1, <1>2 DEF FreeOnStack, IsFree
    <2>3. PICK f, u \in DOMAIN kernels_ch_modes :
            dependencies[i] = <<f, u>> /\ f \in left /\ Feeds(kernel(f), kernel(u))
      BY <1>4
    <2>4. u = t
      BY <2>2, <2>3
    <2> QED
      BY <2>3, <2>4
  <1>6. S \in (SUBSET Kernels) \ {{}}
    <2>1. PICK f \in left : TRUE
      BY <1>1, <1>4
    <2>2. kernel(f) \in S
      BY <2>1
    <2>3. \A k \in left : kernel(k) \in Kernels
      BY <1>3
    <2> HIDE DEF kernel, left
    <2>4. S \subseteq Kernels
      BY <2>3
    <2> HIDE DEF S
    <2> QED
      BY <2>2, <2>4
  <1>7. \A l \in S : \E k \in S : Feeds(k, l)
    BY <1>5
  <1>8. Circular
    BY <1>6, <1>7 DEF Circular
  <1>9. Circular' /\ Rewritten'
    <2>1. \A k : Mode(k)' = Mode(k) /\ IsSingle(k)' = IsSingle(k)
      BY <1>1, SameCode
    <2>2. Circular' = Circular
      BY <1>1, SameCode
    <2> QED
      BY <2>1, <2>2, <1>1, <1>2, <1>8 DEF Rewritten, Single
  <1> QED
    BY <1>1, <1>9 DEF OrderInv, Ordering

(* A sequence without repetitions is as long as it has elements.           *)
LEMMA LengthFacts ==
  ASSUME NEW S, IsFiniteSet(S), NEW s \in Seq(S), Range(s) = S, IsInjective(s)
  PROVE  Len(s) = Cardinality(S)
  <1> DEFINE n == Len(s)
  <1>1. n \in Nat /\ s \in [1 .. n -> S]
    OBVIOUS
  <1> HIDE DEF n
  <1>2. s \in Surjection(1 .. n, S) /\ s \in Injection(1 .. n, S)
    BY <1>1 DEF Surjection, Injection, Range
  <1>3. IsFiniteSet(1 .. n) /\ Cardinality(1 .. n) = n
    BY <1>1, FS_Interval
  <1>4. Cardinality(S) = n
    BY <1>2, <1>3, FS_Surjection
  <1> QED
    BY <1>4 DEF n

(* When nothing is marked, all kernels with modes are resolved, each after *)
(* those that feed it.                                                     *)
LEMMA ReorderOrders == IInv /\ OrderInv /\ Reorder => OrderInv'
  <1> SUFFICES ASSUME IInv, OrderInv, Reorder PROVE OrderInv'
    OBVIOUS
  <1> DEFINE d == Len(kernels_ch_modes)
             kernel(k) == new_kernels[Single + k]
  <1>1. /\ phase = "resolve" /\ phase' = "annotate" /\ free_kernels = << >> /\ marked = {} /\ ops' = ops
        /\ new_kernels' = Calls(new_kernels, resolved)
    BY DEF Reorder
  <1>2. Rewritten /\ todo = << >> /\ DependenciesAreChannels /\ FreeOnStack
    BY <1>1 DEF OrderInv, Ordering
  <1>3. /\ d \in Nat /\ DOMAIN kernels_ch_modes = 1 .. d
        /\ resolved \in Seq(Names) /\ DOMAIN resolved = 1 .. Len(resolved) /\ IsInjective(resolved)
    BY DEF IInv, TypeInv, TakenOnce
  <1>4. /\ new_kernels \in Seq(Kernels) /\ Len(new_kernels) = NumKernels /\ Range(new_kernels) = Kernels
        /\ d <= NumKernels /\ Single = NumKernels - d /\ DOMAIN new_kernels = 1 .. NumKernels
    BY <1>2, <1>3, KernelsFinite DEF Rewritten, Single, Kernels
  <1>5. \A k \in 1 .. d : kernel(k) \in Kernels
    BY <1>2, <1>3, ModeKernels
  <1> HIDE DEF d, kernel
  <1>6. Range(resolved) = 1 .. d
    <2>1. Range(free_kernels) = {}
      BY <1>1 DEF Range
    <2>2. \A k \in 1 .. d : k \in Range(resolved)
      BY <2>1, <1>1, <1>2, <1>3 DEF FreeOnStack, IsFree
    <2>3. Names \subseteq 1 .. d
      <3>1. ASSUME NEW i \in DOMAIN dependencies PROVE dependencies[i][2] \in 1 .. d
        <4>1. PICK f, t \in DOMAIN kernels_ch_modes : dependencies[i] = <<f, t>>
          BY <1>2 DEF DependenciesAreChannels
        <4> QED
          BY <4>1, <1>3
      <3> QED
        BY <3>1, <1>3 DEF Names, Targets
    <2>4. \A n \in DOMAIN resolved : resolved[n] \in Names
      BY <1>3
    <2> QED
      BY <2>2, <2>3, <2>4 DEF Range
  <1>7. Len(resolved) = d
    <2>1. IsFiniteSet(1 .. d) /\ Cardinality(1 .. d) = d
      BY <1>3, FS_Interval
    <2>2. resolved \in Seq(1 .. d)
      <3>1. Len(resolved) \in Nat /\ \A n \in 1 .. Len(resolved) : resolved[n] \in 1 .. d
        BY <1>3, <1>6 DEF Range
      <3>2. resolved \in [1 .. Len(resolved) -> 1 .. d]
        BY <3>1, <1>3
      <3> DEFINE n == Len(resolved)
                 D == 1 .. d
      <3>3. n \in Nat /\ resolved \in [1 .. n -> D]
        BY <3>1, <3>2
      <3> HIDE DEF n, D
      <3>4. resolved \in Seq(D)
        BY <3>3
      <3> QED
        BY <3>4 DEF D
    <2> QED
      BY <2>1, <2>2, <1>3, <1>6, LengthFacts
  <1>8. /\ Single \in Nat /\ Single + d = NumKernels
        /\ \A n \in 1 .. NumKernels : n <= Single \/ (n - Single \in 1 .. d /\ n = Single + (n - Single))
        /\ \A k \in 1 .. d : Single + k \in 1 .. NumKernels /\ ~(Single + k <= Single) /\ (Single + k) - Single = k
    BY <1>3, <1>4, KernelsFinite
  <1>9. \A k \in 1 .. d : resolved[k] \in 1 .. d
    BY <1>3, <1>6, <1>7 DEF Range
  <1>10. new_kernels' =
           [n \in 1 .. NumKernels |-> IF n <= Single THEN new_kernels[n] ELSE kernel(resolved[n - Single])]
    <2>1. Single = Len(new_kernels) - Len(resolved)
      BY <1>4, <1>7
    <2> QED
      BY <2>1, <1>1, <1>4 DEF Calls, kernel
  <1>11. /\ \A n \in 1 .. Single : new_kernels'[n] = new_kernels[n] /\ n \in 1 .. NumKernels
         /\ \A k \in 1 .. d : new_kernels'[Single + k] = kernel(resolved[k])
    <2>1. \A n \in 1 .. Single : n <= Single /\ n \in 1 .. NumKernels
      BY <1>3, <1>4, <1>8
    <2>2. \A k \in 1 .. d : Single + k \in 1 .. NumKernels /\ ~(Single + k <= Single) /\ (Single + k) - Single = k
      BY <1>8
    <2> QED
      BY <2>1, <2>2, <1>10
  <1>12. \A n \in 1 .. NumKernels : n \in 1 .. Single \/ \E k \in 1 .. d : n = Single + k
    BY <1>8
  <1>13. /\ new_kernels' \in Seq(Kernels) /\ Len(new_kernels') = NumKernels
         /\ DOMAIN new_kernels' = 1 .. NumKernels
    <2>1. \A n \in 1 .. NumKernels : new_kernels[n] \in Kernels
      BY <1>4
    <2>2. \A n \in 1 .. NumKernels : new_kernels'[n] \in Kernels
      BY <2>1, <1>5, <1>9, <1>11, <1>12
    <2>3. new_kernels' \in [1 .. NumKernels -> Kernels]
      BY <2>2, <1>10
    <2> QED
      BY <2>3, KernelsFinite
  <1>14. Range(new_kernels') = Kernels
    <2>1. ASSUME NEW x \in Kernels PROVE \E n \in 1 .. NumKernels : new_kernels'[n] = x
      <3>1. PICK n \in 1 .. NumKernels : new_kernels[n] = x
        BY <1>4 DEF Range
      <3>2. CASE n \in 1 .. Single
        BY <3>1, <3>2, <1>11
      <3>3. CASE \E k \in 1 .. d : n = Single + k
        <4>1. PICK k \in 1 .. d : n = Single + k
          BY <3>3
        <4>2. PICK p \in 1 .. d : resolved[p] = k
          BY <1>3, <1>6, <1>7 DEF Range
        <4>3. new_kernels'[Single + p] = x
          BY <3>1, <4>1, <4>2, <1>11 DEF kernel
        <4> QED
          BY <4>3, <1>8
      <3> QED
        BY <3>2, <3>3, <1>12
    <2>2. \A n \in 1 .. NumKernels : new_kernels'[n] \in Kernels
      BY <1>13
    <2> QED
      BY <2>1, <2>2, <1>13 DEF Range
  <1>15. IsInjective(new_kernels')
    BY <1>13, <1>14, KernelsFinite, NoneTwice
  <1>16. ASSUME NEW m \in 1 .. NumKernels, NEW n \in 1 .. NumKernels, Feeds(new_kernels'[m], new_kernels'[n])
         PROVE  m < n
    <2>1. new_kernels'[m] \in Kernels /\ new_kernels'[n] \in Kernels /\ ops \in [Kernels -> Codes]
      BY <1>13 DEF OrderInv
    <2>2. ~IsSingle(new_kernels'[m]) /\ ~IsSingle(new_kernels'[n])
      BY <2>1, <1>16, FeedsFacts
    <2>3. \A k \in 1 .. Single : IsSingle(new_kernels'[k])
      BY <1>2, <1>11 DEF Rewritten
    <2>4. PICK u \in 1 .. d : m = Single + u
      BY <2>2, <2>3, <1>12
    <2>5. PICK v \in 1 .. d : n = Single + v
      BY <2>2, <2>3, <1>12
    <2>6. Feeds(kernel(resolved[u]), kernel(resolved[v]))
      BY <2>4, <2>5, <1>11, <1>16
    <2>7. EdgeOf(resolved[u], resolved[v])
      BY <2>6, <1>2, <1>3, <1>9 DEF DependenciesAreChannels, kernel
    <2>8. PICK i \in DOMAIN dependencies : dependencies[i] = <<resolved[u], resolved[v]>>
      BY <2>7 DEF EdgeOf
    <2>9. PICK p \in 1 .. v - 1 : resolved[p] = resolved[u]
      BY <2>8, <1>3, <1>7 DEF IInv, SourcesFirst
    <2>10. p = u
      <3>1. p \in DOMAIN resolved /\ u \in DOMAIN resolved
        BY <2>9, <1>3, <1>7
      <3> QED
        BY <3>1, <2>9, <1>3 DEF IsInjective
    <2> QED
      BY <2>4, <2>5, <2>9, <2>10, <1>8, <1>3
  <1>17. Called'
    <2>1. \A k, l : Feeds(k, l)' = Feeds(k, l)
      BY <1>1, SameCode
    <2>2. \A m, n \in 1 .. NumKernels : Feeds(new_kernels[m], new_kernels[n])' => m < n
      BY <2>1, <1>16
    <2> QED
      BY <2>2, <1>13, <1>14, <1>15 DEF Called
  <1> QED
    BY <1>1, <1>17 DEF OrderInv, Ordering

(* The other steps leave the kernels and their order as they are.          *)
LEMMA OthersOrder ==
  ASSUME OrderInv, UNCHANGED <<ops, built, solved>>, UNCHANGED new_kernels,
         phase' = phase \/ (phase \notin Ordering /\ phase' \notin Ordering)
  PROVE  OrderInv'
  <1>1. /\ UNCHANGED <<ops, todo, new_kernels, kernels_ch_modes>>
        /\ UNCHANGED <<dependencies, marked, free_kernels, resolved>>
    BY DEF built, solved
  <1>2. /\ \A k : Mode(k)' = Mode(k) /\ IsSingle(k)' = IsSingle(k)
        /\ \A k, l : Feeds(k, l)' = Feeds(k, l)
        /\ Circular' = Circular
    BY <1>1, SameCode
  <1>3. Rewritten => Rewritten'
    BY <1>1, <1>2 DEF Rewritten, Single
  <1>4. DependenciesAreChannels => DependenciesAreChannels'
    BY <1>1, <1>2 DEF DependenciesAreChannels, EdgeOf, Single
  <1>5. (FreeOnStack => FreeOnStack') /\ (MarkedUntaken => MarkedUntaken')
    BY <1>1 DEF FreeOnStack, MarkedUntaken, IsFree, Range
  <1>6. Called => Called'
    BY <1>1, <1>2 DEF Called, Range, IsInjective
  <1> QED
    BY <1>1, <1>2, <1>3, <1>4, <1>5, <1>6 DEF OrderInv, Ordering

(* Every step keeps what is known of the order.                            *)
LEMMA StepOrders == IInv /\ OrderInv /\ [Next]_vars => OrderInv'
  <1> SUFFICES ASSUME IInv, OrderInv, [Next]_vars PROVE OrderInv'
    OBVIOUS
  <1>1. CASE RewriteKernel
    BY <1>1, RewriteKernelOrders
  <1>2. CASE BuildTop
    BY <1>2, BuildTopOrders
  <1>3. CASE ResolveNext
    BY <1>3, ResolveNextOrders
  <1>4. CASE Reject
    BY <1>4, RejectOrders
  <1>5. CASE Reorder
    BY <1>5, ReorderOrders
  <1>6. CASE Annotate \/ RewriteBlock \/ Start \/ HostStep \/ KernelStep \/ KernelReturn
    <2>1. UNCHANGED <<ops, built, solved>> /\ phase \notin Ordering /\ phase' \notin Ordering
      BY <1>6 DEF Annotate, RewriteBlock, Start, HostStep, KernelStep, KernelReturn, Ordering
    <2> QED
      BY <2>1, OthersOrder DEF built
  <1>7. CASE UNCHANGED vars
    BY <1>7, OthersOrder DEF vars, built, solved
  <1> QED
    BY <1>1, <1>2, <1>3, <1>4, <1>5, <1>6, <1>7 DEF Next

(* The order of kernels, their modes and the dependencies in all states.   *)
THEOREM OrderInvariant == Spec => []OrderInv
  BY OrderInitially, StepOrders, ResolverInvariant, PTL DEF Spec

(* Programs are rejected for circles of channels between kernels only, and *)
(* for each such circle: dependency_resolver.                              *)
THEOREM OnlyCirclesRejected == Spec => []RejectsCircles
  <1>1. OrderInv => RejectsCircles
    <2> SUFFICES ASSUME OrderInv, phase = "annotate", Circular PROVE FALSE
      BY DEF OrderInv, RejectsCircles
    <2>1. Called
      BY DEF OrderInv, Ordering
    <2>2. PICK S \in (SUBSET Kernels) \ {{}} : \A l \in S : \E k \in S : Feeds(k, l)
      BY DEF Circular
    <2> DEFINE P == {n \in DOMAIN new_kernels : new_kernels[n] \in S}
    <2>3. P \subseteq Nat /\ P # {}
      <3>1. PICK l \in S : l \in Kernels
        <4>1. S \subseteq Kernels /\ S # {}
          OBVIOUS
        <4> QED
          BY <4>1
      <3>2. PICK n \in DOMAIN new_kernels : new_kernels[n] = l
        BY <2>1, <3>1 DEF Called, Range
      <3> QED
        BY <2>1, <3>1, <3>2 DEF Called
    <2>4. PICK n \in P : \A m \in P : n <= m
      BY <2>3, SmallestExists
    <2>5. PICK k \in S : Feeds(k, new_kernels[n])
      BY <2>2, <2>4
    <2>6. PICK m \in DOMAIN new_kernels : new_kernels[m] = k
      BY <2>1, <2>2, <2>5 DEF Called, Range
    <2>7. m < n /\ m \in P
      BY <2>1, <2>4, <2>5, <2>6 DEF Called
    <2> QED
      BY <2>3, <2>4, <2>7
  <1> QED
    BY <1>1, OrderInvariant, PTL

-----------------------------------------------------------------------------
(* The launch: top has every argument of the kernels once, and the host    *)
(* launches each kernel once.                                              *)
Launches ==
  /\ host \in Seq(Nat)
  /\ \A b \in DOMAIN host : host[b] \in Kernels \cup {Other}
  /\ \A k \in Kernels : \E b \in DOMAIN host : host[b] = k /\ \A c \in DOMAIN host : host[c] = k => c = b

AllParams ==
  /\ \A t \in DOMAIN top : \E k \in Kernels : \E i \in 1 .. NumArgs[k] : top[t] = <<k, i>>
  /\ \A k \in Kernels : \A i \in 1 .. NumArgs[k] : \E t \in DOMAIN top : top[t] = <<k, i>>
  /\ IsInjective(top)

ArgOf(t) == Arg(LaunchOf(top[t][1]), top[t][2])

SizesRight == DOMAIN param_sizes = DOMAIN top /\ \A t \in DOMAIN top : param_sizes[t] = ArgOf(t)

Values == {<< >>} \cup ({"arg"} \X Nat \X Nat)

ArgsRight(before) ==
  /\ opencl_args \in [DOMAIN top -> Values]
  /\ \A t \in DOMAIN top :
       opencl_args[t] = IF LaunchOf(top[t][1]) < before THEN ArgOf(t) ELSE << >>

ArgsInv ==
  /\ Launches
  /\ phase # "rewrite" => AllParams
  /\ phase \in {"launch", "host", "kernels"} => SizesRight
  /\ phase \notin {"launch", "host", "kernels", "crashed"} => at = 1
  /\ phase \in {"launch", "crashed"} => at \in Nat \ {0} /\ ArgsRight(at)
  /\ phase \in {"host", "kernels"} => ArgsRight(Len(host) + 1)

(* Each kernel is launched in one block.                                   *)
LEMMA LaunchFacts ==
  ASSUME Launches, NEW k \in Kernels
  PROVE  /\ LaunchOf(k) \in DOMAIN host /\ host[LaunchOf(k)] = k
         /\ \A b \in DOMAIN host : host[b] = k => b = LaunchOf(k)
         /\ k \in Nat /\ k # Other
  <1>1. \E b \in DOMAIN host : host[b] = k
    BY DEF Launches
  <1>2. LaunchOf(k) \in DOMAIN host /\ host[LaunchOf(k)] = k
    BY <1>1 DEF LaunchOf
  <1> QED
    BY <1>2, KernelsFinite DEF Launches, Kernels, Other

(* The host has a block that launches nothing after its first.             *)
LEMMA HostInitially == Init => Launches
  <1> SUFFICES ASSUME Init PROVE Launches
    OBVIOUS
  <1>1. PICK order \in SetToSeqs(Kernels) : host = <<Head(order), Other>> \o Tail(order)
    BY DEF Init
  <1> DEFINE N == NumKernels
  <1>2. N \in Nat \ {0} /\ Kernels \subseteq Nat /\ Other \in Nat /\ Other \notin Kernels
    BY KernelsFinite DEF Kernels, Other
  <1>3. /\ order \in Seq(Kernels) /\ Len(order) = N /\ DOMAIN order = 1 .. N
        /\ Range(order) = Kernels /\ IsInjective(order)
    BY KernelsFinite, ListingFacts
  <1> DEFINE pre == <<Head(order), Other>>
             post == Tail(order)
  <1>4. pre \in Seq(Nat) /\ Len(pre) = 2 /\ pre[1] = order[1] /\ pre[2] = Other
    <2>1. order # << >> /\ Head(order) = order[1] /\ order[1] \in Kernels
      BY <1>2, <1>3
    <2> DEFINE h == Head(order)
    <2>2. h \in Nat /\ h = order[1]
      BY <2>1, <1>2
    <2> HIDE DEF h
    <2>3. <<h, Other>> \in Seq(Nat) /\ Len(<<h, Other>>) = 2 /\ <<h, Other>>[1] = h /\ <<h, Other>>[2] = Other
      BY <2>2, <1>2
    <2> QED
      BY <2>2, <2>3 DEF h
  <1>5. post \in Seq(Nat) /\ Len(post) = N - 1 /\ \A i \in 1 .. N - 1 : post[i] = order[i + 1]
    <2>1. order # << >> /\ order \in Seq(Nat)
      <3>1. \A i \in 1 .. N : order[i] \in Nat
        <4>1. \A i \in 1 .. N : order[i] \in Range(order)
          BY <1>3 DEF Range
        <4> QED
          BY <4>1, <1>2, <1>3
      <3>2. order \in [1 .. N -> Nat]
        BY <3>1, <1>3
      <3> HIDE DEF N
      <3> QED
        BY <3>2, <1>2, <1>3
    <2> QED
      BY <2>1, <1>2, <1>3
  <1> HIDE DEF pre, post, N
  <1>6. /\ host \in Seq(Nat) /\ Len(host) = N + 1
        /\ \A n \in 1 .. 2 : host[n] = pre[n]
        /\ \A n \in 1 .. N - 1 : host[2 + n] = post[n]
    <2>1. host = pre \o post
      BY <1>1 DEF pre, post
    <2>2. /\ pre \o post \in Seq(Nat) /\ Len(pre \o post) = Len(pre) + Len(post)
          /\ \A n \in 1 .. Len(pre) : (pre \o post)[n] = pre[n]
          /\ \A n \in 1 .. Len(post) : (pre \o post)[Len(pre) + n] = post[n]
      <3>1. pre \in Seq(Nat) /\ post \in Seq(Nat)
        BY <1>4, <1>5
      <3> QED
        BY <3>1, ConcatFacts
    <2> QED
      BY <2>1, <2>2, <1>2, <1>4, <1>5, SMTT(30)
  <1>7. host[1] = order[1] /\ host[2] = Other
    BY <1>4, <1>6
  <1>8. \A n \in 3 .. N + 1 : n - 1 \in 2 .. N /\ host[n] = order[n - 1]
    <2> TAKE n \in 3 .. N + 1
    <2>1. n - 2 \in 1 .. N - 1 /\ n = 2 + (n - 2) /\ (n - 2) + 1 = n - 1 /\ n - 1 \in 2 .. N
      BY <1>2
    <2> QED
      BY <2>1, <1>5, <1>6
  <1>9. DOMAIN host = 1 .. N + 1 /\ \A n \in 1 .. N + 1 : n = 1 \/ n = 2 \/ n \in 3 .. N + 1
    BY <1>2, <1>6
  <1>10. \A n \in 1 .. N : order[n] \in Kernels
    BY <1>3
  <1>11. \A b \in DOMAIN host : host[b] \in Kernels \cup {Other}
    <2>1. 1 \in 1 .. N /\ \A n \in 2 .. N : n \in 1 .. N
      BY <1>2
    <2> QED
      BY <2>1, <1>7, <1>8, <1>9, <1>10
  <1>12. ASSUME NEW k \in Kernels
         PROVE  \E b \in DOMAIN host : host[b] = k /\ \A c \in DOMAIN host : host[c] = k => c = b
    <2>1. PICK n \in 1 .. N : order[n] = k
      BY <1>3 DEF Range
    <2>2. \A m \in 1 .. N : order[m] = k => m = n
      BY <2>1, <1>3 DEF IsInjective
    <2>3. CASE n = 1
      <3>1. \A c \in DOMAIN host : host[c] = k => c = 1
        <4> SUFFICES ASSUME NEW c \in 3 .. N + 1, host[c] = k PROVE FALSE
          BY <1>2, <1>7, <1>9
        <4>1. c - 1 \in 1 .. N /\ c - 1 # 1 /\ order[c - 1] = k
          BY <1>2, <1>8
        <4> QED
          BY <4>1, <2>2, <2>3
      <3>2. 1 \in DOMAIN host /\ host[1] = k
        BY <2>1, <2>3, <1>2, <1>7, <1>9
      <3> QED
        BY <3>1, <3>2
    <2>4. CASE n # 1
      <3>1. n + 1 \in 3 .. N + 1 /\ (n + 1) - 1 = n
        BY <2>4, <1>2
      <3>2. n + 1 \in DOMAIN host /\ host[n + 1] = k
        BY <3>1, <2>1, <1>2, <1>8, <1>9
      <3>3. ASSUME NEW c \in DOMAIN host, host[c] = k PROVE c = n + 1
        <4>1. c # 1
          BY <3>3, <2>2, <2>4, <1>2, <1>7
        <4>2. c \in 3 .. N + 1
          BY <4>1, <3>3, <1>2, <1>7, <1>9
        <4>3. c - 1 \in 1 .. N /\ order[c - 1] = k
          BY <4>2, <3>3, <1>2, <1>8
        <4> QED
          BY <4>2, <4>3, <2>2, <1>2
      <3> QED
        BY <3>2, <3>3
    <2> QED
      BY <2>3, <2>4
  <1> QED
    BY <1>6, <1>11, <1>12 DEF Launches

(* hls_top has finitely many parameters of its own.                        *)
LEMMA ParamsFinite ==
  ASSUME NEW m \in Nat, NEW kernels, DOMAIN kernels = 1 .. m, \A n \in 1 .. m : kernels[n] \in Kernels
  PROVE  IsFiniteSet(Params(kernels))
  <1> DEFINE Of(n) == {n} \X (1 .. NumArgs[kernels[n]])
             D == 1 .. m
             T == {Of(n) : n \in D}
             f == [n \in D |-> Of(n)]
  <1>1. ASSUME NEW n \in D PROVE IsFiniteSet(Of(n))
    <2> DEFINE A == {n}
               B == 1 .. NumArgs[kernels[n]]
    <2>1. IsFiniteSet(A) /\ IsFiniteSet(B)
      <3>1. kernels[n] \in Kernels
        OBVIOUS
      <3>2. NumArgs[kernels[n]] \in Nat
        BY <3>1, KernelsAssumption
      <3>3. IsFiniteSet({n})
        BY FS_Singleton
      <3>4. 1 \in Int /\ NumArgs[kernels[n]] \in Int
        BY <3>2
      <3>5. IsFiniteSet(1 .. NumArgs[kernels[n]])
        BY <3>4, FS_Interval
      <3> QED
        BY <3>3, <3>5
    <2> HIDE DEF A, B
    <2>2. IsFiniteSet(A \X B)
      BY <2>1, FS_Product
    <2> QED
      BY <2>2 DEF A, B
  <1> HIDE DEF Of
  <1>2. f \in Surjection(D, T)
    BY DEF Surjection
  <1>3. IsFiniteSet(D)
    BY FS_Interval
  <1>4. \A S \in T : IsFiniteSet(S)
    BY <1>1
  <1>5. Params(kernels) = UNION T
    BY DEF Params, Of
  <1> HIDE DEF f, T, D
  <1>6. IsFiniteSet(T)
    BY <1>2, <1>3, FS_Surjection
  <1> QED
    BY <1>4, <1>5, <1>6, FS_UNION

(* top has each argument of each kernel at one place.                      *)
LEMMA BuildTopArgs == IInv /\ OrderInv /\ BuildTop => AllParams'
  <1> SUFFICES ASSUME IInv, OrderInv, BuildTop PROVE AllParams'
    OBVIOUS
  <1> DEFINE N == NumKernels
  <1>1. phase = "rewrite" /\ todo = << >>
    BY DEF BuildTop
  <1>2. PICK s \in Looped(Params(new_kernels)) : top' = [t \in DOMAIN s |-> <<new_kernels[s[t][1]], s[t][2]>>]
    BY DEF BuildTop
  <1>3. Rewritten
    BY <1>1 DEF OrderInv, Ordering
  <1>4. /\ new_kernels \in Seq(Kernels) /\ Len(new_kernels) = N /\ Range(new_kernels) = Kernels
        /\ DOMAIN new_kernels = 1 .. N /\ N \in Nat
    BY <1>1, <1>3, KernelsFinite DEF Rewritten, Kernels
  <1>5. IsInjective(new_kernels) /\ \A n \in 1 .. N : new_kernels[n] \in Kernels
    BY <1>4, KernelsFinite, NoneTwice
  <1> HIDE DEF N
  <1>6. /\ DOMAIN s = 1 .. Len(s) /\ Range(s) = Params(new_kernels) /\ IsInjective(s)
    <2>1. IsFiniteSet(Params(new_kernels)) /\ s \in SetToSeqs(Params(new_kernels))
      BY <1>2, <1>4, <1>5, ParamsFinite DEF Looped
    <2> QED
      BY <2>1, ListingFacts
  <1>7. /\ \A p \in Params(new_kernels) : \E n \in 1 .. N : \E i \in 1 .. NumArgs[new_kernels[n]] : p = <<n, i>>
        /\ \A n \in 1 .. N : \A i \in 1 .. NumArgs[new_kernels[n]] : <<n, i>> \in Params(new_kernels)
    BY <1>4 DEF Params
  <1>8. \A t \in DOMAIN s : \E n \in 1 .. N : \E i \in 1 .. NumArgs[new_kernels[n]] :
          s[t] = <<n, i>> /\ top'[t] = <<new_kernels[n], i>>
    <2> TAKE t \in DOMAIN s
    <2>1. s[t] \in Params(new_kernels)
      BY <1>6 DEF Range
    <2>2. PICK n \in 1 .. N : \E i \in 1 .. NumArgs[new_kernels[n]] : s[t] = <<n, i>>
      BY <2>1, <1>7
    <2> QED
      BY <2>2, <1>2
  <1>9. ASSUME NEW k \in Kernels, NEW i \in 1 .. NumArgs[k] PROVE \E t \in DOMAIN s : top'[t] = <<k, i>>
    <2>1. PICK n \in 1 .. N : new_kernels[n] = k
      BY <1>4 DEF Range
    <2>2. PICK t \in DOMAIN s : s[t] = <<n, i>>
      BY <2>1, <1>6, <1>7 DEF Range
    <2> QED
      BY <2>1, <2>2, <1>2
  <1>10. DOMAIN top' = DOMAIN s
    BY <1>2
  <1>11. IsInjective(top')
    <2> SUFFICES ASSUME NEW t \in DOMAIN s, NEW u \in DOMAIN s, top'[t] = top'[u] PROVE t = u
      BY <1>10 DEF IsInjective
    <2>1. PICK m \in 1 .. N : \E i \in 1 .. NumArgs[new_kernels[m]] :
            s[t] = <<m, i>> /\ top'[t] = <<new_kernels[m], i>>
      BY <1>8
    <2>2. PICK n \in 1 .. N : \E i \in 1 .. NumArgs[new_kernels[n]] :
            s[u] = <<n, i>> /\ top'[u] = <<new_kernels[n], i>>
      BY <1>8
    <2>3. new_kernels[m] = new_kernels[n] /\ s[t][2] = s[u][2]
      <3>1. PICK i \in 1 .. NumArgs[new_kernels[m]] : s[t] = <<m, i>> /\ top'[t] = <<new_kernels[m], i>>
        BY <2>1
      <3>2. PICK j \in 1 .. NumArgs[new_kernels[n]] : s[u] = <<n, j>> /\ top'[u] = <<new_kernels[n], j>>
        BY <2>2
      <3>3. <<new_kernels[m], i>> = <<new_kernels[n], j>>
        BY <3>1, <3>2
      <3> QED
        BY <3>1, <3>2, <3>3
    <2>4. m = n
      BY <2>3, <1>4, <1>5 DEF IsInjective
    <2>5. s[t] = s[u]
      BY <2>1, <2>2, <2>3, <2>4
    <2> QED
      BY <2>5, <1>6 DEF IsInjective
  <1>12. \A t \in DOMAIN top' : \E k \in Kernels : \E i \in 1 .. NumArgs[k] : top'[t] = <<k, i>>
    BY <1>5, <1>8, <1>10
  <1> QED
    BY <1>9, <1>10, <1>11, <1>12 DEF AllParams

(* Initially the host has each launch once.                                *)
LEMMA ArgsInitially == Init => ArgsInv
  <1> SUFFICES ASSUME Init PROVE ArgsInv
    OBVIOUS
  <1>1. Launches /\ phase = "rewrite" /\ at = 1
    BY HostInitially DEF Init
  <1> QED
    BY <1>1 DEF ArgsInv

(* Each block fills in the arguments of the kernel that it launches.       *)
LEMMA RewriteBlockArgs == ArgsInv /\ RewriteBlock => ArgsInv'
  <1> SUFFICES ASSUME ArgsInv, RewriteBlock PROVE ArgsInv'
    OBVIOUS
  <1> DEFINE k == host[at]
             Here(t) == {i \in 1 .. NumArgs[k] : Position(k, i) = t}
  <1>1. /\ phase = "launch" /\ phase' \in {phase, "crashed"} /\ at <= Len(host) /\ at' = at + 1
        /\ UNCHANGED <<host, top, param_sizes>>
        /\ opencl_args' =
             IF k = Other THEN opencl_args
             ELSE [t \in DOMAIN opencl_args |->
                    IF Here(t) = {} THEN opencl_args[t] ELSE Arg(at, CHOOSE i \in Here(t) : TRUE)]
    BY DEF RewriteBlock, Collected, built
  <1>2. Launches /\ AllParams /\ SizesRight /\ at \in Nat \ {0} /\ ArgsRight(at)
    BY <1>1 DEF ArgsInv
  <1>3. Launches' /\ AllParams' /\ SizesRight' /\ \A t : ArgOf(t)' = ArgOf(t)
    <2>1. \A j : LaunchOf(j)' = LaunchOf(j)
      BY <1>1 DEF LaunchOf
    <2>2. \A t : ArgOf(t)' = ArgOf(t)
      BY <2>1, <1>1 DEF ArgOf
    <2>3. Launches' /\ AllParams'
      BY <1>1, <1>2 DEF Launches, AllParams, IsInjective
    <2>4. SizesRight'
      BY <2>2, <1>1, <1>2 DEF SizesRight
    <2> QED
      BY <2>2, <2>3, <2>4
  <1>4. \A t \in DOMAIN top : /\ top[t][1] \in Kernels /\ top[t][2] \in 1 .. NumArgs[top[t][1]]
                              /\ top[t] = <<top[t][1], top[t][2]>>
                              /\ LaunchOf(top[t][1]) \in Nat
    <2> TAKE t \in DOMAIN top
    <2>1. PICK l \in Kernels : \E i \in 1 .. NumArgs[l] : top[t] = <<l, i>>
      BY <1>2 DEF AllParams
    <2>2. LaunchOf(l) \in DOMAIN host /\ DOMAIN host \subseteq Nat
      BY <1>2, LaunchFacts DEF Launches
    <2> QED
      BY <2>1, <2>2
  <1>5. at \in DOMAIN host /\ k \in Kernels \cup {Other}
    <2>1. host \in Seq(Nat)
      BY <1>2 DEF Launches
    <2>2. at \in DOMAIN host
      BY <2>1, <1>1, <1>2
    <2> QED
      BY <2>2, <1>2 DEF Launches
  <1>6. opencl_args' \in [DOMAIN top -> Values] /\ DOMAIN opencl_args = DOMAIN top
    <2>1. opencl_args \in [DOMAIN top -> Values]
      BY <1>2 DEF ArgsRight
    <2>2. CASE k = Other
      BY <2>1, <2>2, <1>1
    <2>3. CASE k # Other
      <3>1. ASSUME NEW t \in DOMAIN top, Here(t) # {} PROVE Arg(at, CHOOSE i \in Here(t) : TRUE) \in Values
        <4>1. PICK i \in Here(t) : i = (CHOOSE j \in Here(t) : TRUE)
          BY <3>1
        <4>2. i \in Nat
          BY <1>5, <2>3, KernelsAssumption
        <4> HIDE DEF Here
        <4> QED
          BY <4>1, <4>2, <1>2 DEF Arg, Values
      <3> HIDE DEF Here, k
      <3> QED
        BY <3>1, <2>1, <2>3, <1>1
    <2> QED
      BY <2>1, <2>2, <2>3
  <1>7. ASSUME NEW t \in DOMAIN top
        PROVE  opencl_args'[t] = IF LaunchOf(top[t][1]) < at + 1 THEN ArgOf(t) ELSE << >>
    <2>1. CASE top[t][1] = k
      <3>1. k \in Kernels /\ k # Other /\ LaunchOf(k) = at
        <4>1. k \in Kernels
          BY <2>1, <1>4
        <4> QED
          BY <4>1, <1>2, <1>5, LaunchFacts
      <3>2. ASSUME NEW i \in 1 .. NumArgs[k] PROVE top[Position(k, i)] = <<k, i>> /\ Position(k, i) \in DOMAIN top
        <4>1. \E u \in DOMAIN top : top[u] = <<k, i>>
          BY <3>1, <1>2 DEF AllParams
        <4> QED
          BY <4>1 DEF Position
      <3> DEFINE i == top[t][2]
      <3>3. i \in 1 .. NumArgs[k] /\ top[t] = <<k, i>>
        BY <2>1, <1>4
      <3> HIDE DEF k, i
      <3>4. Position(k, i) = t
        BY <3>2, <3>3, <1>2 DEF AllParams, IsInjective
      <3>5. \A j \in Here(t) : j = i
        <4> TAKE j \in Here(t)
        <4>1. j \in 1 .. NumArgs[k] /\ Position(k, j) = t
          OBVIOUS
        <4>2. <<k, j>> = <<k, i>>
          BY <4>1, <3>2, <3>3
        <4> QED
          BY <4>2
      <3>6. i \in Here(t)
        BY <3>3, <3>4
      <3> HIDE DEF Here
      <3>7. (CHOOSE j \in Here(t) : TRUE) = i
        BY <3>5, <3>6
      <3>8. opencl_args'[t] = Arg(at, i)
        BY <3>1, <3>6, <3>7, <1>1, <1>6
      <3>9. LaunchOf(top[t][1]) = at
        BY <3>1, <2>1 DEF k
      <3>10. LaunchOf(top[t][1]) < at + 1
        BY <3>9, <1>2
      <3> QED
        BY <3>8, <3>9, <3>10 DEF ArgOf, i
    <2>2. CASE top[t][1] # k
      <3>1. LaunchOf(top[t][1]) < at + 1 <=> LaunchOf(top[t][1]) < at
        <4>1. LaunchOf(top[t][1]) # at
          BY <2>2, <1>2, <1>4, LaunchFacts
        <4> QED
          BY <4>1, <1>2, <1>4
      <3>2. opencl_args[t] = IF LaunchOf(top[t][1]) < at + 1 THEN ArgOf(t) ELSE << >>
        BY <3>1, <1>2 DEF ArgsRight
      <3>3. opencl_args'[t] = opencl_args[t]
        <4>1. CASE k = Other
          BY <4>1, <1>1
        <4>2. CASE k # Other
          <5>1. Here(t) = {}
            <6> SUFFICES ASSUME NEW i \in 1 .. NumArgs[k], Position(k, i) = t PROVE FALSE
              OBVIOUS
            <6>1. \E u \in DOMAIN top : top[u] = <<k, i>>
              BY <4>2, <1>2, <1>5 DEF AllParams
            <6>2. top[t] = <<k, i>>
              BY <6>1 DEF Position
            <6> QED
              BY <6>2, <2>2
          <5> HIDE DEF Here, k
          <5> QED
            BY <5>1, <4>2, <1>1, <1>6
        <4> QED
          BY <4>1, <4>2
      <3> QED
        BY <3>2, <3>3
    <2> QED
      BY <2>1, <2>2
  <1>8. ArgsRight(at)'
    <2>1. \A j : LaunchOf(j)' = LaunchOf(j)
      BY <1>1 DEF LaunchOf
    <2> QED
      BY <2>1, <1>1, <1>3, <1>6, <1>7 DEF ArgsRight
  <1>9. at' \in Nat \ {0}
    BY <1>1, <1>2
  <1> QED
    BY <1>1, <1>3, <1>8, <1>9 DEF ArgsInv

(* Every step keeps what is known of the arguments.                        *)
LEMMA StepArgs == IInv /\ OrderInv /\ ArgsInv /\ [Next]_vars => ArgsInv'
  <1> SUFFICES ASSUME IInv, OrderInv, ArgsInv, [Next]_vars PROVE ArgsInv'
    OBVIOUS
  <1> DEFINE Started == {"launch", "host", "kernels"}
  <1>1. ASSUME UNCHANGED <<host, top>>
        PROVE  /\ Launches' /\ (AllParams => AllParams')
               /\ \A j : LaunchOf(j)' = LaunchOf(j)
               /\ \A t : ArgOf(t)' = ArgOf(t)
               /\ (UNCHANGED param_sizes /\ SizesRight => SizesRight')
               /\ \A n : (UNCHANGED opencl_args /\ ArgsRight(n) => ArgsRight(n)')
    <2>1. \A j : LaunchOf(j)' = LaunchOf(j)
      BY <1>1 DEF LaunchOf
    <2>2. \A t : ArgOf(t)' = ArgOf(t)
      BY <2>1, <1>1 DEF ArgOf
    <2>3. Launches' /\ (AllParams => AllParams')
      BY <1>1 DEF ArgsInv, Launches, AllParams, IsInjective
    <2>4. UNCHANGED param_sizes /\ SizesRight => SizesRight'
      BY <2>2, <1>1 DEF SizesRight
    <2>5. \A n : (UNCHANGED opencl_args /\ ArgsRight(n) => ArgsRight(n)')
      BY <2>1, <2>2, <1>1 DEF ArgsRight
    <2> QED
      BY <2>1, <2>2, <2>3, <2>4, <2>5
  <1>2. CASE RewriteKernel
    <2>1. UNCHANGED <<host, top>> /\ phase = "rewrite" /\ phase' = phase /\ at' = at
      BY <1>2 DEF RewriteKernel, launch
    <2> QED
      BY <2>1, <1>1 DEF ArgsInv
  <1>3. CASE BuildTop
    <2>1. host' = host /\ phase = "rewrite" /\ phase' = "resolve" /\ at' = at
      BY <1>3 DEF BuildTop, launch
    <2>2. AllParams'
      BY <1>3, BuildTopArgs
    <2>3. Launches'
      BY <2>1 DEF ArgsInv, Launches
    <2> QED
      BY <2>1, <2>2, <2>3 DEF ArgsInv
  <1>4. CASE ResolveNext \/ Reject \/ Reorder
    <2>1. /\ UNCHANGED <<host, top>> /\ phase = "resolve" /\ at' = at
          /\ phase' \in {"resolve", "rejected", "annotate"}
      BY <1>4 DEF ResolveNext, Reject, Reorder, built, launch
    <2> QED
      BY <2>1, <1>1 DEF ArgsInv
  <1>5. CASE Annotate
    <2>1. /\ UNCHANGED <<host, top, at>> /\ phase = "annotate" /\ phase' = "launch"
          /\ param_sizes' = [t \in DOMAIN top |-> ArgOf(t)]
          /\ opencl_args' = [t \in DOMAIN top |-> << >>]
      BY <1>5 DEF Annotate, built, ArgOf
    <2>2. AllParams /\ Launches /\ at = 1
      BY <2>1 DEF ArgsInv
    <2>3. ASSUME NEW t \in DOMAIN top PROVE ~(LaunchOf(top[t][1]) < at)
      <3>1. PICK l \in Kernels : top[t][1] = l
        BY <2>2 DEF AllParams
      <3>2. LaunchOf(l) \in DOMAIN host /\ host \in Seq(Nat)
        BY <2>2, LaunchFacts DEF Launches
      <3> QED
        BY <3>1, <3>2, <2>2
    <2>4. SizesRight' /\ ArgsRight(at)'
      BY <2>1, <2>3, <1>1 DEF SizesRight, ArgsRight, Values
    <2> QED
      BY <2>1, <2>2, <2>4, <1>1 DEF ArgsInv
  <1>6. CASE RewriteBlock
    BY <1>6, RewriteBlockArgs
  <1>7. CASE Start
    <2>1. /\ UNCHANGED <<host, top, param_sizes, opencl_args>> /\ phase = "launch" /\ phase' = "host"
          /\ at > Len(host)
      BY <1>7 DEF Start, built
    <2>2. Launches /\ AllParams /\ SizesRight /\ at \in Nat \ {0} /\ ArgsRight(at)
      BY <2>1 DEF ArgsInv
    <2>3. Len(host) \in Nat
      BY <2>2 DEF Launches
    <2>4. ASSUME NEW t \in DOMAIN top PROVE LaunchOf(top[t][1]) < at
      <3>1. PICK l \in Kernels : top[t][1] = l
        BY <2>2 DEF AllParams
      <3>2. LaunchOf(l) \in DOMAIN host /\ host \in Seq(Nat)
        BY <2>2, LaunchFacts DEF Launches
      <3> QED
        BY <3>1, <3>2, <2>1, <2>2
    <2>5. ArgsRight(Len(host) + 1)
      <3>1. \A t \in DOMAIN top : LaunchOf(top[t][1]) < Len(host) + 1
        <4> TAKE t \in DOMAIN top
        <4>1. PICK l \in Kernels : top[t][1] = l
          BY <2>2 DEF AllParams
        <4>2. LaunchOf(l) \in DOMAIN host /\ host \in Seq(Nat)
          BY <2>2, LaunchFacts DEF Launches
        <4> QED
          BY <4>1, <4>2
      <3> QED
        BY <3>1, <2>2, <2>4 DEF ArgsRight
    <2>6. ArgsRight(Len(host) + 1)'
      <3>1. Len(host)' = Len(host)
        BY <2>1
      <3> QED
        BY <3>1, <2>1, <2>5, <1>1 DEF ArgsRight
    <2> QED
      BY <2>1, <2>2, <2>6, <1>1 DEF ArgsInv
  <1>8. CASE HostStep \/ KernelStep \/ KernelReturn
    <2>1. /\ UNCHANGED <<host, top, param_sizes, opencl_args>> /\ phase \in {"host", "kernels"}
          /\ phase' \in {"host", "kernels"}
      BY <1>8 DEF HostStep, KernelStep, KernelReturn, built, launch
    <2>2. ArgsRight(Len(host) + 1) /\ SizesRight /\ AllParams
      BY <2>1 DEF ArgsInv
    <2>3. ArgsRight(Len(host) + 1)'
      BY <2>1, <2>2, <1>1 DEF ArgsRight
    <2> QED
      BY <2>1, <2>2, <2>3, <1>1 DEF ArgsInv
  <1>9. CASE UNCHANGED vars
    <2>1. UNCHANGED <<host, top, param_sizes, opencl_args, phase, at>>
      BY <1>9 DEF vars, built, launch
    <2>2. /\ (ArgsRight(Len(host) + 1) => ArgsRight(Len(host) + 1)')
          /\ (ArgsRight(at) => ArgsRight(at)')
      BY <2>1, <1>1 DEF ArgsRight
    <2> QED
      BY <2>1, <2>2, <1>1 DEF ArgsInv
  <1> QED
    BY <1>2, <1>3, <1>4, <1>5, <1>6, <1>7, <1>8, <1>9 DEF Next

(* The parameters of hls_top and the arguments of the host in all states.  *)
THEOREM ArgsInvariant == Spec => []ArgsInv
  BY ArgsInitially, StepArgs, ResolverInvariant, OrderInvariant, PTL DEF Spec

-----------------------------------------------------------------------------
(* The run: a block that starts the kernels is a launch, and there may be  *)
(* any number of those; the kernels run one after the other.               *)
Jumped == {<<"next">>} \cup ({"opencl"} \X [DOMAIN top -> Values])

Starts(b) == jumps[b][1] = "opencl"

JumpsRight ==
  /\ jumps \in Seq(Jumped)
  /\ \A b \in 1 .. Len(jumps) : Starts(b) => host[b] # Other

Taken == \E b \in 1 .. Len(jumps) : Starts(b)

Length(n) == Len(ops[new_kernels[n]])

RanInOrder ==
  /\ ran \in Seq(Nat \X Nat) /\ Len(ran) <= NumKernels
  /\ \A n \in 1 .. Len(ran) : ran[n][1] = n /\ ran[n][2] <= Length(n)
  /\ \A n \in 1 .. Len(ran) - 1 : ran[n][2] = Length(n)

DonePlaces(op) ==
  {p \in Places(op) : \E n \in 1 .. Len(ran) : new_kernels[n] = p[1] /\ p[2] <= ran[n][2]}

FillCounts ==
  /\ fill \in [Channels -> Int]
  /\ \A c \in Channels : fill[c] = Cardinality(DonePlaces(Write(c))) - Cardinality(DonePlaces(Read(c)))

AllDone == ran \in Seq(Nat \X Nat) /\ Len(ran) = NumKernels /\ \A n \in 1 .. Len(ran) : ran[n][1] = n

RunInv ==
  /\ \A c \in Channels : Cardinality(Places(Read(c))) <= Cardinality(Places(Write(c)))
  /\ phase \notin {"host", "kernels"} => ran = << >> 
  /\ phase \notin {"launch", "host", "kernels", "crashed"} => at = 1 /\ jumps = << >>
  /\ JumpsRight
  /\ phase = "launch" => at \in 1 .. Len(host) + 1 /\ Len(jumps) = at - 1
  /\ phase \in {"host", "kernels"} => at \in 1 .. Len(host) + 1 /\ Len(jumps) = Len(host)
  /\ phase = "host" => \/ ran = << >> /\ \A b \in 1 .. at - 1 : ~Starts(b)
                       \/ AllDone /\ at > LastLaunch /\ Taken
  /\ phase = "kernels" => at > LastLaunch /\ Taken /\ ran # << >> /\ RanInOrder /\ FillCounts

(* The last block with a launch.                                           *)
LEMMA LastLaunchFacts ==
  ASSUME Launches
  PROVE  /\ Len(host) \in Nat /\ DOMAIN host = 1 .. Len(host)
         /\ LastLaunch \in 1 .. Len(host) /\ host[LastLaunch] # Other
         /\ \A c \in 1 .. Len(host) : host[c] # Other => c <= LastLaunch
  <1> DEFINE N == Len(host)
             S == {b \in 1 .. N : host[b] # Other}
  <1>1. N \in Nat /\ DOMAIN host = 1 .. N
    BY DEF Launches
  <1>2. S \in SUBSET (0 .. N) /\ S # {}
    <2>1. 1 \in Kernels
      BY KernelsFinite DEF Kernels
    <2>2. LaunchOf(1) \in 1 .. N /\ host[LaunchOf(1)] # Other
      BY <2>1, <1>1, LaunchFacts
    <2> QED
      BY <2>2
  <1> HIDE DEF S, N
  <1>3. PICK b \in S : \A c \in S : c <= b
    BY <1>1, <1>2, LargestExists
  <1>4. b \in DOMAIN host /\ host[b] # Other /\ \A c \in b + 1 .. N : host[c] = Other
    <2>1. b \in 1 .. N /\ host[b] # Other
      BY DEF S
    <2>2. \A c \in b + 1 .. N : c \in 1 .. N /\ ~(c <= b)
      BY <2>1, <1>1
    <2> QED
      BY <2>1, <2>2, <1>1, <1>3 DEF S
  <1>5. LastLaunch \in 1 .. N /\ host[LastLaunch] # Other /\ \A c \in LastLaunch + 1 .. N : host[c] = Other
    BY <1>1, <1>4 DEF LastLaunch, N
  <1>6. ASSUME NEW c \in 1 .. N, host[c] # Other PROVE c <= LastLaunch
    <2>1. ~(c \in LastLaunch + 1 .. N)
      BY <1>5, <1>6
    <2> QED
      BY <2>1, <1>1, <1>5
  <1> QED
    BY <1>1, <1>5, <1>6 DEF N

(* The operations of the kernels are finitely many.                        *)
LEMMA PlacesFinite ==
  /\ \A op : IsFiniteSet(Places(op)) /\ Places(op) \subseteq Kernels \X (1 .. MaxOps)
  /\ \A op : /\ IsFiniteSet(DonePlaces(op)) /\ DonePlaces(op) \subseteq Places(op)
             /\ Cardinality(DonePlaces(op)) \in Nat
  <1>1. IsFiniteSet(Kernels \X (1 .. MaxOps))
    <2>1. IsFiniteSet(Kernels) /\ IsFiniteSet(1 .. MaxOps)
      BY KernelsFinite, KernelsAssumption, FS_Interval
    <2> QED
      BY <2>1, FS_Product
  <1> DEFINE All == Kernels \X (1 .. MaxOps)
  <1>2. \A op : Places(op) \subseteq All /\ DonePlaces(op) \subseteq Places(op)
    BY DEF Places, DonePlaces
  <1> HIDE DEF All
  <1>3. \A op : IsFiniteSet(Places(op))
    BY <1>1, <1>2, FS_Subset DEF All
  <1>4. \A op : IsFiniteSet(DonePlaces(op))
    BY <1>2, <1>3, FS_Subset
  <1> QED
    BY <1>2, <1>3, <1>4, FS_CardinalityType DEF All

(* Initially nothing runs.                                                 *)
LEMMA RunInitially == Init => RunInv
  <1> SUFFICES ASSUME Init PROVE RunInv
    OBVIOUS
  <1>1. /\ phase = "rewrite" /\ ran = << >> /\ at = 1 /\ jumps = << >>
        /\ \A c \in Channels : Cardinality(Places(Read(c))) <= Cardinality(Places(Write(c)))
    BY DEF Init
  <1>2. JumpsRight
    BY <1>1 DEF JumpsRight
  <1> QED
    BY <1>1, <1>2 DEF RunInv

(* What is known of the blocks depends on the program and the jumps.       *)
LEMMA JumpsStay ==
  ASSUME UNCHANGED <<ops, host, top, jumps>>
  PROVE  /\ LastLaunch' = LastLaunch /\ \A op : Places(op)' = Places(op)
         /\ \A b : Starts(b)' <=> Starts(b)
         /\ (JumpsRight => JumpsRight') /\ (Taken => Taken')
  <1>1. LastLaunch' = LastLaunch /\ \A op : Places(op)' = Places(op)
    BY DEF LastLaunch, Places
  <1>2. Jumped' = Jumped /\ \A b : Starts(b)' <=> Starts(b)
    BY DEF Jumped, Values, Starts
  <1>3. JumpsRight => JumpsRight'
    BY <1>2 DEF JumpsRight
  <1>4. Taken => Taken'
    BY <1>2 DEF Taken
  <1> QED
    BY <1>1, <1>2, <1>3, <1>4

(* A block that is rewritten jumps on, or starts the kernels with what was *)
(* collected up to it, which is complete or not compiled.                  *)
LEMMA RewriteBlockAppends ==
  ASSUME ArgsInv, RunInv, RewriteBlock
  PROVE  \E jump \in Jumped :
           /\ jumps' = Append(jumps, jump)
           /\ jump[1] = "opencl" =>
                /\ host[at] # Other /\ jump[2] = opencl_args'
                /\ phase' # "crashed" => << >> \notin Range(opencl_args')
  <1>1. ArgsInv' /\ phase = "launch" /\ phase' \in {"launch", "crashed"} /\ top' = top
    BY RewriteBlockArgs DEF RewriteBlock, built
  <1>2. opencl_args' \in [DOMAIN top -> Values]
    BY <1>1 DEF ArgsInv, ArgsRight, Values
  <1>3. <<"next">> \in Jumped /\ <<"opencl", opencl_args'>> \in Jumped /\ <<"next">>[1] = "next"
    BY <1>2 DEF Jumped
  <1>4. CASE jumps' = Append(jumps, <<"next">>)
    BY <1>3, <1>4
  <1>5. CASE ~(jumps' = Append(jumps, <<"next">>))
    <2>1. /\ host[at] # Other /\ jumps' = Append(jumps, <<"opencl", opencl_args'>>)
          /\ phase' = IF << >> \in Range(opencl_args') THEN "crashed" ELSE phase
      BY <1>5 DEF RewriteBlock
    <2> QED
      BY <2>1, <1>3
  <1> QED
    BY <1>4, <1>5

(* Before the run, blocks are rewritten: those that start the kernels      *)
(* launch one.                                                             *)
LEMMA RewriteBlockRun == ArgsInv /\ RunInv /\ RewriteBlock => RunInv'
  <1> SUFFICES ASSUME ArgsInv, RunInv, RewriteBlock PROVE RunInv'
    OBVIOUS
  <1>1. /\ phase = "launch" /\ phase' \in {phase, "crashed"} /\ at <= Len(host) /\ at' = at + 1
        /\ UNCHANGED <<ops, host, top, ran>>
    BY DEF RewriteBlock, built, run
  <1>2. PICK jump \in Jumped : jumps' = Append(jumps, jump) /\ (jump[1] = "opencl" => host[at] # Other)
    BY RewriteBlockAppends
  <1>3. /\ Launches /\ ran = << >> /\ JumpsRight /\ jumps \in Seq(Jumped)
        /\ at \in 1 .. Len(host) + 1 /\ Len(jumps) = at - 1
        /\ \A c \in Channels : Cardinality(Places(Read(c))) <= Cardinality(Places(Write(c)))
    BY <1>1 DEF ArgsInv, RunInv, JumpsRight
  <1>4. Len(host) \in Nat /\ at \in Nat \ {0}
    BY <1>3 DEF Launches
  <1>5. /\ \A op : Places(op)' = Places(op)
        /\ Jumped' = Jumped
    BY <1>1 DEF Places, Jumped, Values
  <1>6. /\ jumps' \in Seq(Jumped) /\ Len(jumps') = at /\ jumps'[at] = jump
        /\ \A b \in 1 .. at - 1 : jumps'[b] = jumps[b]
    <2>1. Len(jumps) + 1 = at
      BY <1>3, <1>4
    <2> HIDE DEF Jumped
    <2> QED
      BY <2>1, <1>2, <1>3
  <1>7. \A b \in 1 .. at : b = at \/ b \in 1 .. at - 1
    BY <1>4
  <1>8. JumpsRight'
    <2>1. ASSUME NEW b \in 1 .. Len(jumps'), Starts(b)' PROVE host'[b] # Other
      BY <2>1, <1>1, <1>2, <1>3, <1>6, <1>7 DEF JumpsRight, Starts
    <2> QED
      BY <2>1, <1>5, <1>6 DEF JumpsRight
  <1>9. at' \in 1 .. Len(host') + 1 /\ Len(jumps') = at' - 1
    BY <1>1, <1>3, <1>4, <1>6
  <1> QED
    BY <1>1, <1>3, <1>5, <1>8, <1>9 DEF RunInv

(* The host goes on to the next block, or starts the kernels at a launch   *)
(* and then goes on behind the last one.                                   *)
LEMMA HostStepRun == OrderInv /\ ArgsInv /\ RunInv /\ HostStep => RunInv'
  <1> SUFFICES ASSUME OrderInv, ArgsInv, RunInv, HostStep PROVE RunInv'
    OBVIOUS
  <1>1. /\ phase = "host" /\ at <= Len(host)
        /\ UNCHANGED <<ops, host, top, jumps, new_kernels>>
    BY DEF HostStep, built
  <1>2. /\ JumpsRight /\ at \in 1 .. Len(host) + 1 /\ Len(jumps) = Len(host)
        /\ (ran = << >> /\ \A b \in 1 .. at - 1 : ~Starts(b)) \/ (AllDone /\ at > LastLaunch /\ Taken)
        /\ \A c \in Channels : Cardinality(Places(Read(c))) <= Cardinality(Places(Write(c)))
    BY <1>1 DEF RunInv
  <1>3. /\ Launches /\ Len(host) \in Nat
        /\ LastLaunch \in 1 .. Len(host) /\ host[LastLaunch] # Other
        /\ \A c \in 1 .. Len(host) : host[c] # Other => c <= LastLaunch
    BY LastLaunchFacts DEF ArgsInv
  <1>4. /\ LastLaunch' = LastLaunch /\ JumpsRight' /\ \A op : Places(op)' = Places(op)
        /\ (Taken => Taken') /\ \A b : Starts(b)' <=> Starts(b)
    BY <1>1, <1>2, JumpsStay
  <1>5. Called
    BY <1>1 DEF OrderInv, Ordering
  <1>6. at \in 1 .. Len(jumps) /\ at \in 1 .. Len(host)
    BY <1>1, <1>2, <1>3
  <1>7. CASE jumps[at][1] = "next" /\ at' = at + 1 /\ UNCHANGED <<phase, run>>
    <2>1. /\ at' \in 1 .. Len(host') + 1 /\ Len(jumps') = Len(host')
          /\ phase' = phase /\ ran' = ran
      BY <1>1, <1>2, <1>3, <1>6, <1>7 DEF run
    <2>2. CASE ran = << >> /\ \A b \in 1 .. at - 1 : ~Starts(b)
      <3>1. \A b \in 1 .. at' - 1 : b = at \/ b \in 1 .. at - 1
        BY <1>6, <1>7
      <3>2. ~Starts(at)
        BY <1>7 DEF Starts
      <3>3. \A b \in 1 .. at' - 1 : ~Starts(b)'
        BY <3>1, <3>2, <2>2, <1>4
      <3> QED
        BY <3>3, <2>1, <2>2, <1>1, <1>2, <1>4 DEF RunInv
    <2>3. CASE AllDone /\ at > LastLaunch /\ Taken
      <3>1. AllDone' /\ at' > LastLaunch
        BY <2>1, <2>3, <1>3, <1>6, <1>7 DEF AllDone
      <3> QED
        BY <3>1, <2>1, <2>3, <1>1, <1>2, <1>4 DEF RunInv
    <2> QED
      BY <2>2, <2>3, <1>2
  <1>8. CASE /\ jumps[at][1] = "opencl" /\ at' = LastLaunch + 1
             /\ phase' = IF new_kernels = << >> THEN "host" ELSE "kernels"
             /\ given' = jumps[at][2]
             /\ ran' = Append(ran, <<1, 0>>)
             /\ fill' = [c \in Channels |-> 0]
    <2>1. at <= LastLaunch /\ Taken
      <3>1. Starts(at)
        BY <1>8 DEF Starts
      <3> QED
        BY <3>1, <1>2, <1>3, <1>6 DEF JumpsRight, Taken
    <2>2. ran = << >>
      BY <2>1, <1>2, <1>3
    <2>3. /\ ran' = <<<<1, 0>>>> /\ ran' \in Seq(Nat \X Nat) /\ Len(ran') = 1 /\ ran'[1] = <<1, 0>>
          /\ ran' # << >>
      BY <2>2, <1>8
    <2>4. new_kernels # << >> /\ phase' = "kernels"
      BY <1>5, <1>8, KernelsFinite DEF Called
    <2>5. new_kernels[1] \in Kernels
      BY <1>5, KernelsFinite DEF Called
    <2>6. Length(1)' \in Nat
      <3>1. Len(ops[new_kernels[1]]) \in Nat
        BY <2>5, CodeFacts DEF OrderInv
      <3> QED
        BY <3>1, <1>1 DEF Length
    <2>7. RanInOrder'
      <3>1. \A n \in 1 .. Len(ran') : n = 1
        BY <2>3
      <3>2. \A n \in 1 .. Len(ran') - 1 : FALSE
        BY <2>3
      <3>3. Len(ran') <= NumKernels
        BY <2>3, KernelsFinite
      <3>4. ran'[1][1] = 1 /\ ran'[1][2] <= Length(1)'
        BY <2>3, <2>6
      <3> QED
        BY <3>1, <3>2, <3>3, <3>4, <2>3 DEF RanInOrder
    <2>8. FillCounts'
      <3>1. \A op : DonePlaces(op)' = {}
        <4> SUFFICES ASSUME NEW op, NEW p \in Places(op)',
                            \E n \in 1 .. Len(ran') : new_kernels'[n] = p[1] /\ p[2] <= ran'[n][2]
                     PROVE  FALSE
          BY DEF DonePlaces
        <4>1. p[2] \in 1 .. MaxOps
          BY <1>4, PlacesFinite
        <4>2. \A n \in 1 .. Len(ran') : ran'[n][2] = 0
          BY <2>3
        <4> QED
          BY <4>1, <4>2
      <3>2. fill' \in [Channels -> Int] /\ \A c \in Channels : fill'[c] = 0
        BY <1>8
      <3>3. \A op : Cardinality(DonePlaces(op))' = 0
        BY <3>1, FS_EmptySet
      <3> QED
        BY <3>2, <3>3 DEF FillCounts
    <2>9. at' \in 1 .. Len(host') + 1 /\ at' > LastLaunch' /\ Len(jumps') = Len(host')
      BY <1>1, <1>2, <1>3, <1>4, <1>8
    <2> QED
      BY <2>1, <2>3, <2>4, <2>7, <2>8, <2>9, <1>1, <1>2, <1>4 DEF RunInv
  <1> QED
    BY <1>7, <1>8 DEF HostStep

(* The kernel that runs is the last that was called.                       *)
LEMMA RunningFacts ==
  ASSUME OrderInv, RunInv, phase = "kernels"
  PROVE  /\ Called /\ RanInOrder /\ FillCounts /\ at > LastLaunch /\ Taken
         /\ Len(ran) \in 1 .. NumKernels /\ Last(ran) = ran[Len(ran)]
         /\ Last(ran)[1] = Len(ran) /\ Running = new_kernels[Len(ran)] /\ Done = ran[Len(ran)][2]
         /\ Running \in Kernels /\ Code = ops[Running] /\ Code \in Codes
         /\ Done \in Nat /\ Done <= Len(Code) /\ Length(Len(ran)) = Len(Code)
  <1>1. Called /\ RanInOrder /\ FillCounts /\ ran # << >> /\ at > LastLaunch /\ Taken /\ ops \in [Kernels -> Codes]
    BY DEF OrderInv, Ordering, RunInv
  <1>2. ran \in Seq(Nat \X Nat) /\ Len(ran) \in 1 .. NumKernels /\ Last(ran) = ran[Len(ran)]
    <2>1. ran \in Seq(Nat \X Nat) /\ Len(ran) <= NumKernels
      BY <1>1 DEF RanInOrder
    <2>2. Len(ran) \in Nat \ {0} /\ Last(ran) = ran[Len(ran)]
      BY <2>1, <1>1, FrontFacts
    <2> QED
      BY <2>1, <2>2, KernelsFinite
  <1>3. Len(ran) \in 1 .. Len(ran) /\ ran[Len(ran)] \in Nat \X Nat
    BY <1>2
  <1>4. ran[Len(ran)][1] = Len(ran) /\ ran[Len(ran)][2] <= Length(Len(ran)) /\ ran[Len(ran)][2] \in Nat
    BY <1>1, <1>3 DEF RanInOrder
  <1>5. new_kernels[Len(ran)] \in Kernels
    BY <1>1, <1>2 DEF Called
  <1> QED
    BY <1>1, <1>2, <1>4, <1>5 DEF Running, Code, Done, Length

(* The next operation of the kernel that runs is done, and no other.       *)
LEMMA DoneGrows ==
  ASSUME OrderInv, RunInv, KernelStep
  PROVE  /\ RanInOrder' /\ ran' # << >>
         /\ \A op : Cardinality(DonePlaces(op))' =
                      IF op = Code[Done + 1] THEN Cardinality(DonePlaces(op)) + 1 ELSE Cardinality(DonePlaces(op))
  <1> DEFINE L == Len(ran)
             x == <<Running, Done + 1>>
             new == <<L, Done + 1>>
  <1>1. /\ phase = "kernels" /\ Done < Len(Code) /\ ran' = Append(Front(ran), <<Last(ran)[1], Done + 1>>)
        /\ UNCHANGED <<ops, new_kernels>>
    BY DEF KernelStep, built
  <1>2. /\ Called /\ RanInOrder /\ L \in 1 .. NumKernels /\ Last(ran)[1] = L
        /\ Running = new_kernels[L] /\ Done = ran[L][2] /\ Running \in Kernels
        /\ Code = ops[Running] /\ Code \in Codes /\ Done \in Nat /\ Length(L) = Len(Code)
    BY <1>1, RunningFacts
  <1>3. /\ Len(Code) \in 0 .. MaxOps /\ DOMAIN Code = 1 .. Len(Code) /\ MaxOps \in Nat
    BY <1>2, CodeFacts, KernelsAssumption
  <1> DEFINE d == Done
             R == Running
             C == Code
             front == Front(ran)
  <1>4. /\ front \in Seq(Nat \X Nat) /\ Len(front) = L - 1 /\ \A n \in 1 .. L - 1 : front[n] = ran[n]
    <2>1. ran \in Seq(Nat \X Nat) /\ ran # << >>
      BY <1>2 DEF RanInOrder
    <2> QED
      BY <2>1, FrontFacts
  <1>5. new \in Nat \X Nat /\ ran' = Append(front, new) /\ new[1] = L /\ new[2] = d + 1 /\ L \in Nat
    BY <1>1, <1>2, KernelsFinite
  <1> HIDE DEF L, front, d, new
  <1>6. /\ ran' \in Seq(Nat \X Nat) /\ Len(ran') = L /\ ran'[L] = new
        /\ \A n \in 1 .. L - 1 : ran'[n] = ran[n]
    <2>1. /\ ran' \in Seq(Nat \X Nat) /\ Len(ran') = Len(front) + 1 /\ ran'[Len(front) + 1] = new
          /\ \A n \in 1 .. Len(front) : ran'[n] = front[n]
      BY <1>4, <1>5
    <2> QED
      BY <2>1, <1>4, <1>5
  <1>7. \A n \in 1 .. L : n = L \/ n \in 1 .. L - 1
    BY <1>5
  <1>8. /\ \A n \in 1 .. L : ran[n][1] = n /\ ran[n][2] <= Length(n)
        /\ \A n \in 1 .. L - 1 : ran[n][2] = Length(n)
    BY <1>2 DEF RanInOrder, L
  <1>9. \A n : Length(n)' = Length(n)
    BY <1>1 DEF Length
  <1>10. RanInOrder'
    <2>1. d + 1 <= Length(L)
      BY <1>1, <1>2, <1>3 DEF d
    <2>2. \A n \in 1 .. L - 1 : n \in 1 .. L
      BY <1>5
    <2>3. \A n \in 1 .. L : ran'[n][1] = n /\ ran'[n][2] <= Length(n)
      <3> TAKE n \in 1 .. L
      <3>1. CASE n = L
        BY <3>1, <2>1, <1>5, <1>6
      <3>2. CASE n \in 1 .. L - 1
        BY <3>2, <2>2, <1>6, <1>8
      <3> QED
        BY <3>1, <3>2, <1>7
    <2>4. \A n \in 1 .. L - 1 : ran'[n][2] = Length(n)
      BY <1>6, <1>8
    <2>5. L <= NumKernels
      BY <1>2, KernelsFinite
    <2> QED
      BY <2>3, <2>4, <2>5, <1>6, <1>9 DEF RanInOrder
  <1>11. ran' # << >>
    BY <1>2, <1>6, KernelsFinite
  <1>12. \A op : Places(op)' = Places(op)
    BY <1>1 DEF Places
  <1>13. \A op : \A p : p \in DonePlaces(op) <=>
           p \in Places(op) /\ \E n \in 1 .. L : new_kernels[n] = p[1] /\ p[2] <= ran[n][2]
    BY DEF DonePlaces, L
  <1>14. \A op : \A p : p \in DonePlaces(op)' <=>
           p \in Places(op) /\ \E n \in 1 .. L : new_kernels[n] = p[1] /\ p[2] <= ran'[n][2]
    BY <1>1, <1>6, <1>12 DEF DonePlaces
  <1>15. \A op : \A p \in Places(op) : p = <<p[1], p[2]>> /\ p[2] \in Nat /\ ops[p[1]][p[2]] = op
    <2> TAKE op
    <2> TAKE p \in Places(op)
    <2>1. p \in Kernels \X (1 .. MaxOps) /\ ops[p[1]][p[2]] = op
      BY DEF Places
    <2> QED
      BY <2>1
  <1>16. ran[L][2] = d /\ d \in Nat /\ ran'[L][2] = d + 1 /\ new_kernels[L] = R /\ L \in 1 .. L
    BY <1>2, <1>5, <1>6 DEF d, L
  <1>17. \A n \in 1 .. L : new_kernels[n] = R => n = L
    <2>1. 1 .. L \subseteq DOMAIN new_kernels /\ IsInjective(new_kernels)
      BY <1>2, KernelsFinite DEF Called
    <2> QED
      BY <2>1, <1>16 DEF IsInjective
  <1>18. x[1] = R /\ x[2] = d + 1 /\ x = <<R, d + 1>>
    BY DEF d
  <1>19. x \in Places(C[d + 1])
    <2>1. d + 1 \in 1 .. MaxOps /\ d + 1 \in DOMAIN C
      BY <1>1, <1>2, <1>3 DEF d
    <2>2. R \in Kernels /\ C = ops[R]
      BY <1>2
    <2> HIDE DEF R, C, x
    <2> QED
      BY <2>1, <2>2, <1>18 DEF Places
  <1> HIDE DEF R, C, x
  <1>20. ASSUME NEW op PROVE x \notin DonePlaces(op)
    <2> SUFFICES ASSUME NEW n \in 1 .. L, new_kernels[n] = R, d + 1 <= ran[n][2] PROVE FALSE
      BY <1>13, <1>18
    <2>1. n = L
      BY <1>17
    <2> QED
      BY <2>1, <1>16
  <1>21. ASSUME NEW op, NEW p \in DonePlaces(op) PROVE p \in DonePlaces(op)'
    <2>1. PICK n \in 1 .. L : new_kernels[n] = p[1] /\ p[2] <= ran[n][2]
      BY <1>13
    <2>2. p \in Places(op) /\ p[2] \in Nat
      BY <1>13, <1>15
    <2>3. p[2] <= ran'[n][2]
      <3>1. CASE n = L
        BY <3>1, <2>1, <2>2, <1>16
      <3>2. CASE n \in 1 .. L - 1
        BY <3>2, <2>1, <1>6
      <3> QED
        BY <3>1, <3>2, <1>7
    <2> QED
      BY <2>1, <2>2, <2>3, <1>14
  <1>22. ASSUME NEW op, NEW p \in DonePlaces(op)', p \notin DonePlaces(op)
         PROVE  p = x /\ op = C[d + 1]
    <2>1. p \in Places(op)
      BY <1>14
    <2>2. PICK n \in 1 .. L : new_kernels[n] = p[1] /\ p[2] <= ran'[n][2]
      BY <1>14
    <2>3. ~(p[2] <= ran[n][2])
      BY <2>1, <2>2, <1>13, <1>22
    <2>4. n = L
      BY <2>2, <2>3, <1>6, <1>7
    <2>5. p[1] = R /\ p[2] = d + 1
      BY <2>1, <2>2, <2>3, <2>4, <1>15, <1>16
    <2>6. C = ops[R]
      BY <1>2 DEF C, R
    <2> QED
      BY <2>1, <2>5, <2>6, <1>15, <1>18
  <1>23. ASSUME NEW op
         PROVE  Cardinality(DonePlaces(op))' =
                  IF op = C[d + 1] THEN Cardinality(DonePlaces(op)) + 1 ELSE Cardinality(DonePlaces(op))
    <2>1. CASE op = C[d + 1]
      <3>1. x \in DonePlaces(op)'
        <4>1. d + 1 <= ran'[L][2] /\ new_kernels[L] = x[1] /\ x[2] = d + 1
          BY <1>16, <1>18
        <4>2. x \in Places(op)
          BY <2>1, <1>19
        <4>3. \E n \in 1 .. L : new_kernels[n] = x[1] /\ x[2] <= ran'[n][2]
          BY <4>1, <1>16
        <4> QED
          BY <4>2, <4>3, <1>14
      <3>2. DonePlaces(op)' = DonePlaces(op) \cup {x}
        BY <3>1, <1>21, <1>22
      <3>3. IsFiniteSet(DonePlaces(op)) /\ x \notin DonePlaces(op)
        BY <1>20, PlacesFinite
      <3>4. Cardinality(DonePlaces(op) \cup {x}) = Cardinality(DonePlaces(op)) + 1
        BY <3>3, FS_AddElement
      <3> QED
        BY <3>2, <3>4, <2>1
    <2>2. CASE op # C[d + 1]
      <3>1. DonePlaces(op)' = DonePlaces(op)
        BY <2>2, <1>21, <1>22
      <3> QED
        BY <3>1, <2>2
    <2> QED
      BY <2>1, <2>2
  <1> QED
    BY <1>10, <1>11, <1>23 DEF C, d

(* The channels hold what was written and not yet read.                    *)
LEMMA KernelStepRun == OrderInv /\ RunInv /\ KernelStep => RunInv'
  <1> SUFFICES ASSUME OrderInv, RunInv, KernelStep PROVE RunInv'
    OBVIOUS
  <1> DEFINE op == Code[Done + 1]
             w(c) == Cardinality(DonePlaces(Write(c)))
             r(c) == Cardinality(DonePlaces(Read(c)))
  <1>1. /\ phase = "kernels" /\ phase' = phase /\ Done < Len(Code)
        /\ UNCHANGED <<ops, host, top, new_kernels, at, jumps>>
        /\ \/ op[1] = "write" /\ fill' = [fill EXCEPT ![op[2]] = @ + 1]
           \/ op[1] = "read" /\ fill[op[2]] > 0 /\ fill' = [fill EXCEPT ![op[2]] = @ - 1]
    BY DEF KernelStep, built, launch
  <1>2. /\ FillCounts /\ at > LastLaunch /\ Taken /\ Code \in Codes /\ Done \in Nat
    BY <1>1, RunningFacts
  <1>3. PICK c \in Channels : op = Write(c) \/ op = Read(c)
    BY <1>1, <1>2, CodeFacts
  <1>4. /\ RanInOrder' /\ ran' # << >>
        /\ \A o : Cardinality(DonePlaces(o))' =
                    IF o = op THEN Cardinality(DonePlaces(o)) + 1 ELSE Cardinality(DonePlaces(o))
    BY DoneGrows
  <1>5. \A e \in Channels : w(e) \in Nat /\ r(e) \in Nat /\ fill[e] = w(e) - r(e)
    BY <1>2, PlacesFinite DEF FillCounts
  <1>6. DOMAIN fill = Channels
    BY <1>2 DEF FillCounts
  <1> HIDE DEF op
  <1>7. \A e \in Channels : /\ w(e)' = IF Write(e) = op THEN w(e) + 1 ELSE w(e)
                            /\ r(e)' = IF Read(e) = op THEN r(e) + 1 ELSE r(e)
    BY <1>4
  <1> HIDE DEF w, r
  <1>8. FillCounts'
    <2>1. CASE op = Write(c)
      <3>1. op[1] = "write" /\ op[2] = c /\ \A e \in Channels : (Write(e) = op <=> e = c) /\ Read(e) # op
        BY <2>1 DEF Write, Read
      <3>2. fill' = [fill EXCEPT ![c] = @ + 1]
        BY <3>1, <1>1
      <3>3. \A e \in Channels : fill'[e] = w(e)' - r(e)' /\ fill'[e] \in Int
        BY <3>1, <3>2, <1>5, <1>6, <1>7
      <3>4. fill' \in [Channels -> Int]
        BY <3>2, <3>3, <1>6
      <3> QED
        BY <3>3, <3>4 DEF FillCounts, w, r
    <2>2. CASE op = Read(c)
      <3>1. op[1] = "read" /\ op[2] = c /\ \A e \in Channels : (Read(e) = op <=> e = c) /\ Write(e) # op
        BY <2>2 DEF Write, Read
      <3>2. fill' = [fill EXCEPT ![c] = @ - 1]
        BY <3>1, <1>1
      <3>3. \A e \in Channels : fill'[e] = w(e)' - r(e)' /\ fill'[e] \in Int
        BY <3>1, <3>2, <1>5, <1>6, <1>7
      <3>4. fill' \in [Channels -> Int]
        BY <3>2, <3>3, <1>6
      <3> QED
        BY <3>3, <3>4 DEF FillCounts, w, r
    <2> QED
      BY <2>1, <2>2, <1>3
  <1>9. LastLaunch' = LastLaunch /\ (JumpsRight => JumpsRight') /\ Taken' /\ \A o : Places(o)' = Places(o)
    BY <1>1, <1>2, JumpsStay
  <1> QED
    BY <1>1, <1>2, <1>4, <1>8, <1>9 DEF RunInv

(* The next kernel is called when one has done all that it does.           *)
LEMMA KernelReturnRun == OrderInv /\ RunInv /\ KernelReturn => RunInv'
  <1> SUFFICES ASSUME OrderInv, RunInv, KernelReturn PROVE RunInv'
    OBVIOUS
  <1> DEFINE L == Len(ran)
  <1>1. /\ phase = "kernels" /\ Done = Len(Code) /\ UNCHANGED <<ops, host, top, new_kernels, at, jumps, fill>>
        /\ IF Last(ran)[1] = Len(new_kernels) THEN phase' = "host" /\ UNCHANGED ran
           ELSE ran' = Append(ran, <<Last(ran)[1] + 1, 0>>) /\ UNCHANGED phase
    BY DEF KernelReturn, built, launch
  <1>2. /\ Called /\ RanInOrder /\ FillCounts /\ at > LastLaunch /\ Taken
        /\ L \in 1 .. NumKernels /\ Last(ran)[1] = L /\ Length(L) = Len(Code) /\ Done = ran[L][2]
    BY <1>1, RunningFacts
  <1>3. /\ LastLaunch' = LastLaunch /\ (JumpsRight => JumpsRight') /\ Taken'
        /\ (\A o : Places(o)' = Places(o)) /\ (\A n : Length(n)' = Length(n))
    BY <1>1, <1>2, JumpsStay DEF Length
  <1>4. NumKernels \in Nat /\ L \in Nat
    BY <1>2, KernelsFinite
  <1>5. CASE L = Len(new_kernels)
    <2>1. phase' = "host" /\ ran' = ran
      BY <1>1, <1>2, <1>5
    <2>2. AllDone
      BY <1>2, <1>5 DEF Called, AllDone, RanInOrder
    <2>3. AllDone'
      BY <2>1, <2>2 DEF AllDone
    <2> QED
      BY <2>1, <2>3, <1>1, <1>2, <1>3 DEF RunInv
  <1>6. CASE L # Len(new_kernels)
    <2>1. phase' = phase /\ ran' = Append(ran, <<L + 1, 0>>)
      BY <1>1, <1>2, <1>6
    <2>2. ran \in Seq(Nat \X Nat) /\ L + 1 <= NumKernels /\ <<L + 1, 0>> \in Nat \X Nat
      BY <1>2, <1>4, <1>6 DEF Called, RanInOrder
    <2> DEFINE new == <<L + 1, 0>>
    <2>3. new \in Nat \X Nat /\ new[1] = L + 1 /\ new[2] = 0
      BY <2>2
    <2> HIDE DEF new
    <2>4. /\ ran' \in Seq(Nat \X Nat) /\ Len(ran') = L + 1 /\ ran'[L + 1] = new
          /\ \A n \in 1 .. L : ran'[n] = ran[n]
      BY <2>1, <2>2, <2>3 DEF new
    <2>5. ran' # << >>
      BY <2>4, <1>4
    <2>6. new_kernels[L + 1] \in Kernels
      BY <2>2, <1>2, <1>4 DEF Called
    <2>7. Length(L + 1) \in Nat
      <3>1. ops[new_kernels[L + 1]] \in Codes
        BY <2>6 DEF OrderInv
      <3> QED
        BY <3>1, CodeFacts, KernelsAssumption DEF Length
    <2>8. /\ \A n \in 1 .. L : ran[n][1] = n /\ ran[n][2] <= Length(n)
          /\ \A n \in 1 .. L - 1 : ran[n][2] = Length(n)
          /\ ran[L][2] = Length(L)
      BY <1>1, <1>2 DEF RanInOrder
    <2> HIDE DEF L
    <2>9. \A n \in 1 .. L + 1 : n = L + 1 \/ n \in 1 .. L
      BY <1>4
    <2>10. \A n \in 1 .. L : n = L \/ n \in 1 .. L - 1
      BY <1>4
    <2>11. RanInOrder'
      <3>1. \A n \in 1 .. L + 1 : ran'[n][1] = n /\ ran'[n][2] <= Length(n)
        BY <2>3, <2>4, <2>7, <2>8, <2>9
      <3>2. \A n \in 1 .. L : ran'[n][2] = Length(n)
        BY <2>4, <2>8, <2>10
      <3>3. Len(ran') - 1 = L
        BY <2>4, <1>4
      <3> QED
        BY <3>1, <3>2, <3>3, <2>2, <2>4, <1>3 DEF RanInOrder
    <2>12. \A o : DonePlaces(o)' = DonePlaces(o)
      <3> TAKE o
      <3>1. \A p \in Places(o) : p[2] \in 1 .. MaxOps
        BY PlacesFinite
      <3>2. ASSUME NEW p \in Places(o)
            PROVE  (\E n \in 1 .. L + 1 : new_kernels[n] = p[1] /\ p[2] <= ran'[n][2])
                     <=> (\E n \in 1 .. L : new_kernels[n] = p[1] /\ p[2] <= ran[n][2])
        <4>1. ~(p[2] <= ran'[L + 1][2])
          BY <3>1, <2>3, <2>4, KernelsAssumption
        <4>2. \A n \in 1 .. L : n \in 1 .. L + 1
          BY <1>4
        <4> QED
          BY <4>1, <4>2, <2>4, <2>9
      <3>3. DonePlaces(o) = {p \in Places(o) : \E n \in 1 .. L : new_kernels[n] = p[1] /\ p[2] <= ran[n][2]}
        BY DEF DonePlaces, L
      <3>4. DonePlaces(o)' = {p \in Places(o) : \E n \in 1 .. L + 1 : new_kernels[n] = p[1] /\ p[2] <= ran'[n][2]}
        BY <2>4, <1>1, <1>3 DEF DonePlaces
      <3> QED
        BY <3>2, <3>3, <3>4
    <2>13. FillCounts'
      BY <2>12, <1>1, <1>2 DEF FillCounts
    <2> QED
      BY <2>1, <2>5, <2>11, <2>13, <1>1, <1>2, <1>3 DEF RunInv
  <1> QED
    BY <1>5, <1>6

(* Every step keeps what is known of the run.                              *)
LEMMA StepRuns == OrderInv /\ ArgsInv /\ RunInv /\ [Next]_vars => RunInv'
  <1> SUFFICES ASSUME OrderInv, ArgsInv, RunInv, [Next]_vars PROVE RunInv'
    OBVIOUS
  <1>1. ASSUME UNCHANGED <<ops, host, top, jumps>>
        PROVE  /\ LastLaunch' = LastLaunch /\ (JumpsRight => JumpsRight') /\ (Taken => Taken')
               /\ (\A o : Places(o)' = Places(o)) /\ \A b : Starts(b)' <=> Starts(b)
    BY <1>1, JumpsStay
  <1>2. CASE RewriteKernel \/ BuildTop \/ ResolveNext \/ Reject \/ Reorder \/ Annotate
    <2>1. /\ UNCHANGED <<ops, host, jumps, at, ran>>
          /\ phase \notin {"launch", "host", "kernels", "crashed"} /\ phase' \notin {"host", "kernels", "crashed"}
      BY <1>2 DEF RewriteKernel, BuildTop, ResolveNext, Reject, Reorder, Annotate, launch, run
    <2>2. at = 1 /\ jumps = << >> /\ ran = << >>
      BY <2>1 DEF RunInv
    <2>3. Len(host) \in Nat /\ Len(jumps) = 0 /\ at \in 1 .. Len(host) + 1
      BY <2>2 DEF ArgsInv, Launches
    <2>4. JumpsRight'
      BY <2>1, <2>2 DEF JumpsRight
    <2>5. \A o : Places(o)' = Places(o)
      BY <2>1 DEF Places
    <2> QED
      BY <2>1, <2>2, <2>3, <2>4, <2>5 DEF RunInv
  <1>3. CASE RewriteBlock
    BY <1>3, RewriteBlockRun
  <1>4. CASE Start
    <2>1. /\ UNCHANGED <<ops, host, top, jumps, ran>> /\ phase = "launch" /\ phase' = "host"
          /\ at > Len(host) /\ at' = 1
      BY <1>4 DEF Start, built, run
    <2>2. at \in 1 .. Len(host) + 1 /\ Len(jumps) = at - 1 /\ ran = << >>
      BY <2>1 DEF RunInv
    <2>3. Len(host) \in Nat
      BY DEF ArgsInv, Launches
    <2>4. /\ at' \in 1 .. Len(host') + 1 /\ Len(jumps') = Len(host')
          /\ \A b \in 1 .. at' - 1 : FALSE
      BY <2>1, <2>2, <2>3
    <2> QED
      BY <2>1, <2>2, <2>4, <1>1 DEF RunInv
  <1>5. CASE HostStep
    BY <1>5, HostStepRun
  <1>6. CASE KernelStep
    BY <1>6, KernelStepRun
  <1>7. CASE KernelReturn
    BY <1>7, KernelReturnRun
  <1>8. CASE UNCHANGED vars
    <2>1. UNCHANGED <<phase, ops, host, top, new_kernels, at, jumps, fill, ran>>
      BY <1>8 DEF vars, built, launch, run
    <2>2. /\ (RanInOrder => RanInOrder') /\ (AllDone => AllDone') /\ \A o : DonePlaces(o)' = DonePlaces(o)
      BY <2>1, <1>1 DEF RanInOrder, AllDone, Length, DonePlaces
    <2>3. FillCounts => FillCounts'
      BY <2>1, <2>2 DEF FillCounts
    <2> QED
      BY <2>1, <2>2, <2>3, <1>1 DEF RunInv
  <1> QED
    BY <1>2, <1>3, <1>4, <1>5, <1>6, <1>7, <1>8 DEF Next

(* What has run and what the channels hold in all states.                  *)
THEOREM RunInvariant == Spec => []RunInv
  BY RunInitially, StepRuns, ResolverInvariant, OrderInvariant, ArgsInvariant, PTL DEF Spec

(* A read finds its channel filled: all kernels that write it are done, and*)
(* what they wrote is more than what was read so far.                      *)
LEMMA ReadsFindWrites == OrderInv /\ RunInv => NeverStarves
  <1> SUFFICES ASSUME OrderInv, RunInv, phase = "kernels", Done < Len(Code), Code[Done + 1][1] # "write"
               PROVE  fill[Code[Done + 1][2]] > 0
    BY DEF NeverStarves
  <1> DEFINE L == Len(ran)
             R == Running
             x == <<R, Done + 1>>
  <1>1. /\ Called /\ RanInOrder /\ FillCounts /\ L \in 1 .. NumKernels
        /\ R = new_kernels[L] /\ Done = ran[L][2] /\ R \in Kernels
        /\ Code = ops[R] /\ Code \in Codes /\ Done \in Nat
    BY RunningFacts
  <1>2. Len(Code) \in 0 .. MaxOps /\ DOMAIN Code = 1 .. Len(Code) /\ MaxOps \in Nat
    BY <1>1, CodeFacts, KernelsAssumption
  <1>3. Done + 1 \in 1 .. MaxOps /\ Done + 1 \in DOMAIN Code
    BY <1>1, <1>2
  <1>4. PICK c \in Channels : Code[Done + 1] = Write(c) \/ Code[Done + 1] = Read(c)
    BY <1>1, <1>3, CodeFacts
  <1>5. Code[Done + 1] = Read(c) /\ Code[Done + 1][2] = c
    BY <1>4 DEF Write, Read
  <1> DEFINE d == Done
  <1>6. x \in Places(Read(c)) /\ x = <<R, d + 1>> /\ x[1] = R /\ x[2] = d + 1
    <2> DEFINE op == Read(c)
    <2>1. ops[R][d + 1] = op /\ d + 1 \in DOMAIN ops[R] /\ d + 1 \in 1 .. MaxOps /\ R \in Kernels
      BY <1>1, <1>3, <1>5
    <2> HIDE DEF R, op, d
    <2>2. <<R, d + 1>> \in Places(op)
      BY <2>1 DEF Places
    <2> QED
      BY <2>2 DEF op, d
  <1>7. /\ 1 .. L \subseteq DOMAIN new_kernels /\ IsInjective(new_kernels)
        /\ DOMAIN new_kernels = 1 .. NumKernels
    BY <1>1, KernelsFinite DEF Called
  <1>8. /\ L \in Nat /\ L \in 1 .. L /\ d \in Nat /\ ran[L][2] = d
        /\ \A n \in 1 .. L - 1 : n \in 1 .. L /\ ran[n][2] = Length(n)
    BY <1>1, KernelsFinite DEF RanInOrder
  <1>9. \A op : \A p : p \in DonePlaces(op) <=>
          p \in Places(op) /\ \E n \in 1 .. L : new_kernels[n] = p[1] /\ p[2] <= ran[n][2]
    BY DEF DonePlaces
  <1> HIDE DEF L, R, x, d
  <1>10. x \notin DonePlaces(Read(c))
    <2> SUFFICES ASSUME NEW n \in 1 .. L, new_kernels[n] = R, d + 1 <= ran[n][2] PROVE FALSE
      BY <1>6, <1>9
    <2>1. n = L
      BY <1>1, <1>7, <1>8 DEF IsInjective
    <2> QED
      BY <2>1, <1>8
  <1>11. DonePlaces(Write(c)) = Places(Write(c))
    <2> SUFFICES ASSUME NEW p \in Places(Write(c)) PROVE p \in DonePlaces(Write(c))
      BY PlacesFinite
    <2>1. p[1] \in Kernels /\ p[2] \in DOMAIN ops[p[1]] /\ ops[p[1]][p[2]] = Write(c)
      BY DEF Places
    <2>2. PICK n \in DOMAIN new_kernels : new_kernels[n] = p[1]
      BY <2>1, <1>1 DEF Called, Range
    <2>3. /\ DOMAIN ops[p[1]] = 1 .. Len(ops[p[1]]) /\ Len(ops[p[1]]) \in Nat
          /\ DOMAIN ops[R] = 1 .. Len(ops[R]) /\ Len(ops[R]) \in Nat
      <3>1. ops[p[1]] \in Codes /\ ops[R] \in Codes
        BY <2>1, <1>1 DEF OrderInv
      <3> QED
        BY <3>1, CodeFacts, KernelsAssumption
    <2>4. Feeds(p[1], R)
      <3>1. Count(Write(c), ops[p[1]]) > 0
        BY <2>1, <2>3, CountFacts
      <3>2. Count(Read(c), ops[R]) > 0
        <4>1. ops[R][d + 1] = Read(c) /\ d + 1 \in 1 .. Len(ops[R])
          BY <1>1, <1>3, <1>5, <2>3 DEF d
        <4> QED
          BY <4>1, <2>3, CountFacts
      <3> QED
        BY <3>1, <3>2 DEF Feeds
    <2>5. n < L
      <3>1. L \in DOMAIN new_kernels /\ new_kernels[L] = R
        BY <1>1, <1>7, <1>8
      <3> QED
        BY <3>1, <2>2, <2>4, <1>1 DEF Called
    <2>6. n \in 1 .. L - 1
      BY <2>2, <2>5, <1>7, <1>8, KernelsFinite
    <2>7. ran[n][2] = Len(ops[p[1]]) /\ p[2] <= ran[n][2]
      BY <2>1, <2>2, <2>3, <2>6, <1>8 DEF Length
    <2> QED
      BY <2>2, <2>6, <2>7, <1>8, <1>9
  <1>12. Cardinality(DonePlaces(Read(c))) < Cardinality(Places(Read(c)))
    <2>1. IsFiniteSet(Places(Read(c))) /\ DonePlaces(Read(c)) \subseteq Places(Read(c))
      BY PlacesFinite
    <2> DEFINE A == Places(Read(c))
               B == DonePlaces(Read(c))
    <2>2. A # B
      BY <1>6, <1>10
    <2>3. IsFiniteSet(A) /\ B \in SUBSET A
      BY <2>1
    <2> HIDE DEF A, B
    <2>4. Cardinality(B) <= Cardinality(A) /\ Cardinality(A) # Cardinality(B)
      BY <2>2, <2>3, FS_Subset
    <2>5. Cardinality(A) \in Nat /\ Cardinality(B) \in Nat
      BY <2>3, FS_Subset, FS_CardinalityType
    <2>6. Cardinality(B) < Cardinality(A)
      BY <2>4, <2>5
    <2> QED
      BY <2>6 DEF A, B
  <1>13. Cardinality(Places(Read(c))) <= Cardinality(Places(Write(c)))
    BY DEF RunInv
  <1>14. fill[c] = Cardinality(DonePlaces(Write(c))) - Cardinality(DonePlaces(Read(c)))
    BY <1>1 DEF FillCounts
  <1>15. /\ Cardinality(DonePlaces(Read(c))) \in Nat /\ Cardinality(DonePlaces(Write(c))) \in Nat
         /\ Cardinality(Places(Read(c))) \in Nat
    BY PlacesFinite, FS_CardinalityType
  <1>16. fill[c] > 0
    <2> DEFINE A == Cardinality(Places(Read(c)))
               B == Cardinality(DonePlaces(Read(c)))
               D == Cardinality(DonePlaces(Write(c)))
    <2>1. A \in Nat /\ B \in Nat /\ D \in Nat /\ B < A /\ A <= D /\ fill[c] = D - B
      BY <1>11, <1>12, <1>13, <1>14, <1>15
    <2> HIDE DEF A, B, D
    <2> QED
      BY <2>1
  <1> QED
    BY <1>5, <1>16

(* In whatever program is accepted no kernel ever waits for a channel that *)
(* only a later one fills: the order that hls_channels calls kernels in.   *)
THEOREM NoKernelStarves == Spec => []NeverStarves
  BY ReadsFindWrites, OrderInvariant, RunInvariant, PTL

-----------------------------------------------------------------------------
(* The arguments: those of an OpenCL call that compiles are complete, since*)
(* what is not yet collected is a null pointer, and are the host's.        *)
Complete(args) == \A t \in DOMAIN top : args[t] = ArgOf(t)

PassInv ==
  /\ phase \in {"launch", "host", "kernels"} =>
       \A b \in 1 .. Len(jumps) : Starts(b) => Complete(jumps[b][2])
  /\ phase = "kernels" => Complete(given)

(* What is complete stays so, and depends on the program only.             *)
LEMMA CompleteStays ==
  ASSUME UNCHANGED <<host, top>>
  PROVE  \A args : Complete(args)' <=> Complete(args)
  BY DEF Complete, ArgOf, LaunchOf

(* The block that is rewritten adds a call with complete arguments or none.*)
LEMMA RewriteBlockPasses == ArgsInv /\ RunInv /\ PassInv /\ RewriteBlock => PassInv'
  <1> SUFFICES ASSUME ArgsInv, RunInv, PassInv, RewriteBlock, phase' # "crashed" PROVE PassInv'
    BY DEF PassInv
  <1>1. /\ phase = "launch" /\ phase' = "launch" /\ at' = at + 1 /\ UNCHANGED <<host, top>>
    BY DEF RewriteBlock, built
  <1>2. PICK jump \in Jumped :
          /\ jumps' = Append(jumps, jump)
          /\ jump[1] = "opencl" => jump[2] = opencl_args' /\ << >> \notin Range(opencl_args')
    BY RewriteBlockAppends
  <1>3. /\ jumps \in Seq(Jumped) /\ Len(jumps) \in Nat
        /\ \A b \in 1 .. Len(jumps) : Starts(b) => Complete(jumps[b][2])
    BY <1>1 DEF RunInv, JumpsRight, PassInv
  <1>4. \A args : Complete(args)' <=> Complete(args)
    BY <1>1, CompleteStays
  <1>5. jump[1] = "opencl" => Complete(jump[2])
    <2> SUFFICES ASSUME jump[1] = "opencl", NEW t \in DOMAIN top PROVE opencl_args'[t] = ArgOf(t)
      BY <1>2 DEF Complete
    <2>1. ArgsRight(at)'
      BY <1>1, RewriteBlockArgs DEF ArgsInv
    <2>2. ArgOf(t)' = ArgOf(t)
      BY <1>1 DEF ArgOf, LaunchOf
    <2>3. t \in DOMAIN opencl_args' /\ (opencl_args'[t] = ArgOf(t) \/ opencl_args'[t] = << >>)
      BY <1>1, <2>1, <2>2 DEF ArgsRight
    <2> QED
      BY <2>3, <1>2 DEF Range
  <1>6. /\ Len(jumps') = Len(jumps) + 1 /\ jumps'[Len(jumps) + 1] = jump
        /\ \A b \in 1 .. Len(jumps) : jumps'[b] = jumps[b]
        /\ \A b \in 1 .. Len(jumps) + 1 : b = Len(jumps) + 1 \/ b \in 1 .. Len(jumps)
    <2> HIDE DEF Jumped
    <2> QED
      BY <1>2, <1>3
  <1>7. ASSUME NEW b \in 1 .. Len(jumps'), Starts(b)' PROVE Complete(jumps'[b][2])
    <2>1. CASE b = Len(jumps) + 1
      BY <2>1, <1>5, <1>6, <1>7 DEF Starts
    <2>2. CASE b \in 1 .. Len(jumps)
      BY <2>2, <1>3, <1>6, <1>7 DEF Starts
    <2> QED
      BY <2>1, <2>2, <1>6
  <1> QED
    BY <1>1, <1>4, <1>7 DEF PassInv, Starts, Complete

(* Every step keeps what is known of the arguments that are passed.        *)
LEMMA StepPasses == ArgsInv /\ RunInv /\ PassInv /\ [Next]_vars => PassInv'
  <1> SUFFICES ASSUME ArgsInv, RunInv, PassInv, [Next]_vars PROVE PassInv'
    OBVIOUS
  <1>1. CASE RewriteKernel \/ BuildTop \/ ResolveNext \/ Reject \/ Reorder \/ Annotate
    <2>1. UNCHANGED jumps /\ phase' # "kernels" /\ phase \notin {"launch", "host", "kernels", "crashed"}
      BY <1>1 DEF RewriteKernel, BuildTop, ResolveNext, Reject, Reorder, Annotate, launch
    <2>2. jumps' = << >> /\ Len(jumps') = 0
      BY <2>1 DEF RunInv
    <2> QED
      BY <2>1, <2>2 DEF PassInv
  <1>2. CASE RewriteBlock
    BY <1>2, RewriteBlockPasses
  <1>3. CASE Start \/ KernelStep \/ KernelReturn \/ UNCHANGED vars
    <2>1. /\ UNCHANGED <<host, top, jumps>>
          /\ phase' \in {"launch", "host", "kernels"} => phase \in {"launch", "host", "kernels"}
          /\ phase' = "kernels" => phase = "kernels" /\ UNCHANGED given
      BY <1>3 DEF Start, KernelStep, KernelReturn, vars, built, launch, run
    <2>2. \A args : Complete(args)' <=> Complete(args)
      BY <2>1, CompleteStays
    <2> QED
      BY <2>1, <2>2 DEF PassInv, Starts, Complete
  <1>4. CASE HostStep
    <2>1. /\ UNCHANGED <<host, top, jumps>> /\ phase = "host" /\ at <= Len(host)
          /\ phase' = "kernels" => jumps[at][1] = "opencl" /\ given' = jumps[at][2]
      BY <1>4 DEF HostStep, built, run
    <2>2. at \in 1 .. Len(jumps)
      BY <2>1 DEF RunInv, ArgsInv, Launches
    <2>3. \A args : Complete(args)' <=> Complete(args)
      BY <2>1, CompleteStays
    <2> QED
      BY <2>1, <2>2, <2>3 DEF PassInv, Starts, Complete
  <1> QED
    BY <1>1, <1>2, <1>3, <1>4 DEF Next

(* What is passed, in all states.                                          *)
THEOREM PassInvariant == Spec => []PassInv
  <1>1. Init => PassInv
    BY DEF Init, PassInv
  <1> QED
    BY <1>1, StepPasses, ArgsInvariant, RunInvariant, PTL DEF Spec

(* Whichever blocks the OpenCL call is put in: each parameter of hls_top,  *)
(* in the order that hls_channels made it in, is given the host's argument *)
(* for the kernel that it is handed on to, which is as large as annotated. *)
THEOREM ArgumentsArrive == Spec => []ArgsArrive
  <1>1. ArgsInv /\ PassInv => ArgsArrive
    BY DEF ArgsInv, PassInv, ArgsArrive, SizesRight, Complete, ArgOf
  <1> QED
    BY <1>1, ArgsInvariant, PassInvariant, PTL

(* Wherever the uninitialised last_hls_cont put the OpenCL call, and in    *)
(* however many blocks, the host comes by one: then every kernel has run   *)
(* once when it is done; and none has if the call was put nowhere.         *)
THEOREM AllKernelsOrNone == Spec => []AllOrNone
  <1>1. OrderInv /\ ArgsInv /\ RunInv => AllOrNone
    <2> SUFFICES ASSUME OrderInv, ArgsInv, RunInv, phase = "host", at > Len(host)
                 PROVE  IF \E b \in DOMAIN jumps : jumps[b][1] = "opencl" THEN EachOnce ELSE ran = << >>
      BY DEF AllOrNone, HostDone
    <2>1. /\ Len(host) \in Nat /\ at = Len(host) + 1 /\ Len(jumps) = Len(host)
          /\ DOMAIN jumps = 1 .. Len(jumps)
      <3>1. jumps \in Seq(Jumped) /\ Len(host) \in Nat
        BY DEF ArgsInv, Launches, RunInv, JumpsRight
      <3> QED
        BY <3>1 DEF RunInv
    <2>2. Taken <=> \E b \in DOMAIN jumps : jumps[b][1] = "opencl"
      BY <2>1 DEF Taken, Starts
    <2>3. CASE ran = << >> /\ \A b \in 1 .. at - 1 : ~Starts(b)
      <3>1. ~Taken
        BY <2>1, <2>3 DEF Taken
      <3> QED
        BY <3>1, <2>2, <2>3
    <2>4. CASE AllDone /\ Taken
      <3>1. Called
        BY DEF OrderInv, Ordering
      <3>2. DOMAIN ran = 1 .. NumKernels /\ Len(ran) = NumKernels
        BY <2>4 DEF AllDone
      <3>3. \A n \in 1 .. NumKernels : ran[n][1] = n
        BY <2>4 DEF AllDone
      <3>4. DOMAIN new_kernels = 1 .. NumKernels /\ Range(new_kernels) = Kernels
        BY <3>1, KernelsFinite DEF Called
      <3>5. {new_kernels[n] : n \in 1 .. NumKernels} = Kernels
        BY <3>4 DEF Range
      <3>6. {new_kernels[ran[n][1]] : n \in DOMAIN ran} = {new_kernels[n] : n \in 1 .. NumKernels}
        BY <3>2, <3>3
      <3> QED
        BY <3>2, <3>5, <3>6, <2>2, <2>4 DEF EachOnce
    <2> QED
      BY <2>3, <2>4 DEF RunInv
  <1> QED
    BY <1>1, OrderInvariant, ArgsInvariant, RunInvariant, PTL

=============================================================================
