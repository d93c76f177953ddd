------------------------------- MODULE Kernels -------------------------------
(***************************************************************************)
(* HLS kernels: hls_channels writes hls_top, which calls all kernels in an *)
(* order that fits their channels, hls_annotate_top tells the sizes of its *)
(* parameters, hls_kernel_launch makes one OpenCL launch of the host's     *)
(* launches, and then the program runs.  A kernel is the sequence of its   *)
(* channel operations; the host is a chain of blocks that launch a kernel  *)
(* or do something else.                                                   *)
(***************************************************************************)
EXTENDS Integers, FiniteSets, SequencesExt

CONSTANTS
  NumKernels, Channels,
  MaxOps,        (* bound: channel operations of a kernel                  *)
  NumArgs        (* arguments of each kernel besides channels              *)

Kernels == 1 .. NumKernels

(* There is a device program for HLS only when the host launches a kernel. *)
ASSUME KernelsAssumption ==
  /\ NumKernels \in Nat \ {0} /\ NumArgs \in [Kernels -> Nat]
  /\ IsFiniteSet(Channels) /\ MaxOps \in Nat

VARIABLES
  phase,
  ops, host,     (* the program: the kernels and the blocks of the host    *)
  todo,          (* scopes Scope::for_each has yet to visit                *)
  new_kernels, kernels_ch_modes, top, dependencies, marked, free_kernels, resolved,
  param_sizes,   (* what hls_annotate_top says of hls_top's parameters     *)
  at, opencl_args, jumps,     (* the host: rewritten up to a block         *)
  given,         (* the run: what hls_top's parameters are given,          *)
  fill, ran      (* elements in the channels, kernels called               *)

built == <<todo, new_kernels, kernels_ch_modes, top>>
solved == <<dependencies, marked, free_kernels, resolved>>
launch == <<param_sizes, at, opencl_args, jumps>>
run   == <<given, fill, ran>>
vars  == <<phase, ops, host, built, solved, launch, run>>

Other == 0       (* a block that launches nothing                          *)
Write(c) == <<"write", c>>
Read(c)  == <<"read", c>>

Count(op, s) == Cardinality({i \in DOMAIN s : s[i] = op})

(* Where the kernels have an operation: <<kernel, position in its code>>.  *)
Places(op) == {p \in Kernels \X (1 .. MaxOps) : p[2] \in DOMAIN ops[p[1]] /\ ops[p[1]][p[2]] = op}

(* No kernel both reads and writes a channel (the assertions in            *)
(* extract_kernel_channels), and no channel is read more often than it is  *)
(* written; the host launches each kernel once.                            *)
Codes ==
  {s \in UNION {[1 .. n -> {Write(c) : c \in Channels} \cup {Read(c) : c \in Channels}] : n \in 0 .. MaxOps} :
     \A c \in Channels : Count(Write(c), s) = 0 \/ Count(Read(c), s) = 0}

Init ==
  /\ ops \in [Kernels -> Codes]
  /\ \A c \in Channels : Cardinality(Places(Read(c))) <= Cardinality(Places(Write(c)))
  /\ \E order \in SetToSeqs(Kernels) : host = <<Head(order), Other>> \o Tail(order)
  /\ phase = "rewrite" /\ todo = [k \in Kernels |-> k]
  /\ new_kernels = << >> /\ kernels_ch_modes = << >> /\ top = << >>
  /\ dependencies = << >> /\ marked = {} /\ free_kernels = << >> /\ resolved = << >>
  /\ param_sizes = << >> /\ at = 1 /\ opencl_args = << >> /\ jumps = << >>
  /\ given = << >> /\ fill = [c \in Channels |-> 0] /\ ran = << >>

-----------------------------------------------------------------------------
(* hls_channels.                                                           *)
Mode(k) ==
  [c \in {d \in Channels : Count(Write(d), ops[k]) + Count(Read(d), ops[k]) > 0} |->
     IF Count(Write(c), ops[k]) > 0 THEN "write" ELSE "read"]
IsSingle(k) == DOMAIN Mode(k) = {}

RewriteKernel ==
  LET k == Head(todo)
  IN  /\ phase = "rewrite" /\ todo # << >>
      /\ todo' = Tail(todo)
      /\ new_kernels' = IF IsSingle(k) THEN <<k>> \o new_kernels ELSE Append(new_kernels, k)
      /\ kernels_ch_modes' = IF IsSingle(k) THEN kernels_ch_modes ELSE Append(kernels_ch_modes, Mode(k))
      /\ UNCHANGED <<phase, ops, host, top, solved, launch, run>>

(* Before(p, q): p comes first where nested loops count up, the outermost  *)
(* the first element of the tuples.                                        *)
Before(p, q) == \E i \in DOMAIN p : p[i] < q[i] /\ \A j \in 1 .. i - 1 : p[j] = q[j]
Looped(S) == {s \in SetToSeqs(S) : \A m, n \in DOMAIN s : m < n => Before(s[m], s[n])}

Uses(modes, c, mode) == {n \in DOMAIN modes : c \in DOMAIN modes[n] /\ modes[n][c] = mode}

(* Mutation: as if only the first kernels to use a channel counted.        *)
EdgesOfFirst(globals, modes) ==
  LET First(c, mode) == {m \in Uses(modes, c, mode) : \A n \in Uses(modes, c, mode) : m <= n}
  IN  UNION {{g} \X First(globals[g], "write") \X First(globals[g], "read") : g \in DOMAIN globals}

(* <<g, f, t>>: kernel f writes channel g and kernel t reads it, numbered  *)
(* by kernels_ch_modes.                                                    *)
Edges(globals, modes) ==
  UNION {{g} \X Uses(modes, globals[g], "write") \X Uses(modes, globals[g], "read") : g \in DOMAIN globals}

(* Mutation: as if it were enough that one of the dependencies is gone.    *)
IsFreeSoon(deps, left, k) == Cardinality({i \in left : deps[i][2] = k}) < 2

IsFree(deps, left, k) == \A i \in left : deps[i][2] # k

(* The numbers of S in their order, as the sequence of them.               *)
Ascending(S) ==
  {s \in UNION {[1 .. n -> S] : n \in {m \in 0 .. NumKernels : m = Cardinality(S)}} :
     Range(s) = S /\ \A m, n \in DOMAIN s : m < n => s[m] < s[n]}

(* hls_top's own parameters, <<n, i>> for argument i of the nth kernel.    *)
Params(kernels) == UNION {{n} \X (1 .. NumArgs[kernels[n]]) : n \in DOMAIN kernels}

(* They are in the order that the kernels are in now; the channels are in  *)
(* that of world.defs(), which may be any; then get_free_kernels.          *)
BuildTop ==
  /\ phase = "rewrite" /\ todo = << >>
  /\ \E s \in Looped(Params(new_kernels)) :
       top' = [t \in DOMAIN s |-> <<new_kernels[s[t][1]], s[t][2]>>]
  /\ \E globals \in SetToSeqs(Channels) : \E s \in Looped(Edges(globals, kernels_ch_modes)) :
       dependencies' = [n \in DOMAIN s |-> <<s[n][2], s[n][3]>>]
  /\ marked' = DOMAIN dependencies' /\ resolved' = << >>
  /\ free_kernels' \in
       Ascending({k \in DOMAIN kernels_ch_modes : IsFree(dependencies', DOMAIN dependencies', k)})
  /\ phase' = "resolve"
  /\ UNCHANGED <<ops, host, todo, new_kernels, kernels_ch_modes, launch, run>>

(* dependency_resolver: the kernel on top of the stack is next; what waited*)
(* for it only is pushed when the last dependency of its is gone.          *)
ResolveNext ==
  LET free == Last(free_kernels)
      gone == {i \in marked : dependencies[i][1] = free}
      freed == {i \in gone : IsFree(dependencies, {j \in marked : j \in gone => i < j}, dependencies[i][2])}
  IN  /\ phase = "resolve" /\ free_kernels # << >>
      /\ resolved' = Append(resolved, free)
      /\ marked' = marked \ gone
      /\ \E order \in Ascending(freed) :
           free_kernels' = Front(free_kernels) \o [n \in DOMAIN order |-> dependencies[order[n]][2]]
      /\ UNCHANGED <<phase, ops, host, built, dependencies, launch, run>>

Reject ==
  /\ phase = "resolve" /\ free_kernels = << >> /\ marked # {}
  /\ phase' = "rejected"
  /\ UNCHANGED <<ops, host, built, solved, launch, run>>

(* Mutation: as if the kernels without channels were not counted.          *)
CallsUnshifted(kernels, order) ==
  LET single == Len(kernels) - Len(order)
  IN  [n \in DOMAIN kernels |-> IF n <= single THEN kernels[n] ELSE kernels[order[n - single]]]

(* The kernels without channels stay in front, where they are; then follow *)
(* the others as resolved.                                                 *)
Calls(kernels, order) ==
  LET single == Len(kernels) - Len(order)
  IN  [n \in DOMAIN kernels |-> IF n <= single THEN kernels[n] ELSE kernels[single + order[n - single]]]

Reorder ==
  /\ phase = "resolve" /\ free_kernels = << >> /\ marked = {}
  /\ new_kernels' = Calls(new_kernels, resolved)
  /\ phase' = "annotate"
  /\ UNCHANGED <<ops, host, todo, kernels_ch_modes, top, solved, launch, run>>

-----------------------------------------------------------------------------
(* The host's argument i of the launch in a block.                         *)
Arg(block, i) == <<"arg", block, i>>
LaunchOf(k) == CHOOSE b \in DOMAIN host : host[b] = k

(* get_kernel_configs and hls_annotate_top: an array of the host is known  *)
(* by its argument.                                                        *)
Annotate ==
  /\ phase = "annotate"
  /\ param_sizes' = [t \in DOMAIN top |-> Arg(LaunchOf(top[t][1]), top[t][2])]
  /\ opencl_args' = [t \in DOMAIN top |-> << >>]
  /\ phase' = "launch"
  /\ UNCHANGED <<ops, host, built, solved, at, jumps, run>>

(* Mutation: as if a kernel's parameters were counted from the last one.   *)
PositionFromLast(k, i) == CHOOSE t \in DOMAIN top : top[t] = <<k, NumArgs[k] + 1 - i>>

(* Where device_params has the kernel's parameter.                         *)
Position(k, i) == CHOOSE t \in DOMAIN top : top[t] = <<k, i>>

LastLaunch == CHOOSE b \in DOMAIN host : host[b] # Other /\ \A c \in b + 1 .. Len(host) : host[c] = Other
FirstLaunch == CHOOSE b \in DOMAIN host : host[b] # Other /\ \A c \in 1 .. b - 1 : host[c] = Other

(* last_hls_cont is set in the round of the first launch only, and is not  *)
(* initialised in the others: any value may be read.                       *)
LastHlsCont(block) == IF block = FirstLaunch THEN {LastLaunch} ELSE DOMAIN host

(* opencl_args after the launch of a block: those of others stay.          *)
Collected(block) ==
  LET k == host[block]
      Here(t) == {i \in 1 .. NumArgs[k] : Position(k, i) = t}
  IN  [t \in DOMAIN opencl_args |->
        IF Here(t) = {} THEN opencl_args[t] ELSE Arg(block, CHOOSE i \in Here(t) : TRUE)]

(* hls_kernel_launch, block by block in the order of the schedule.  The    *)
(* OpenCL call takes what was collected by then; an argument that was not  *)
(* is a null pointer, which set_op refuses ("setting null pointer").       *)
RewriteBlock ==
  /\ phase = "launch" /\ at <= Len(host)
  /\ IF host[at] = Other THEN UNCHANGED <<phase, opencl_args>> /\ jumps' = Append(jumps, <<"next">>)
     ELSE /\ opencl_args' = Collected(at)
          /\ \E last_hls_cont \in LastHlsCont(at) :
               IF at # last_hls_cont THEN jumps' = Append(jumps, <<"next">>) /\ UNCHANGED phase
               ELSE /\ jumps' = Append(jumps, <<"opencl", opencl_args'>>)
                    /\ phase' = IF << >> \in Range(opencl_args') THEN "crashed" ELSE phase
  /\ at' = at + 1
  /\ UNCHANGED <<ops, host, built, solved, param_sizes, run>>

Start ==
  /\ phase = "launch" /\ at > Len(host)
  /\ phase' = "host" /\ at' = 1
  /\ UNCHANGED <<ops, host, built, solved, param_sizes, opencl_args, jumps, run>>

-----------------------------------------------------------------------------
(* The run.  The launch calls hls_top and continues after the last launch. *)
HostStep ==
  /\ phase = "host" /\ at <= Len(host)
  /\ \/ jumps[at][1] = "next" /\ at' = at + 1 /\ UNCHANGED <<phase, run>>
     \/ /\ jumps[at][1] = "opencl" /\ at' = LastLaunch + 1
        /\ phase' = IF new_kernels = << >> THEN "host" ELSE "kernels"
        /\ given' = jumps[at][2]
        /\ ran' = Append(ran, <<1, 0>>)
        /\ fill' = [c \in Channels |-> 0]
  /\ UNCHANGED <<ops, host, built, solved, param_sizes, opencl_args, jumps>>

(* hls_top calls a kernel when the one before it has returned; a read of   *)
(* an empty channel waits.  The last of ran is the call that runs and the  *)
(* operations it has done.                                                 *)
Running == new_kernels[Last(ran)[1]]
Code    == ops[Running]
Done    == Last(ran)[2]

KernelStep ==
  /\ phase = "kernels" /\ Done < Len(Code)
  /\ LET op == Code[Done + 1]
     IN  \/ op[1] = "write" /\ fill' = [fill EXCEPT ![op[2]] = @ + 1]
         \/ op[1] = "read" /\ fill[op[2]] > 0 /\ fill' = [fill EXCEPT ![op[2]] = @ - 1]
  /\ ran' = Append(Front(ran), <<Last(ran)[1], Done + 1>>)
  /\ UNCHANGED <<phase, ops, host, built, solved, launch, given>>

KernelReturn ==
  /\ phase = "kernels" /\ Done = Len(Code)
  /\ IF Last(ran)[1] = Len(new_kernels) THEN phase' = "host" /\ UNCHANGED ran
     ELSE ran' = Append(ran, <<Last(ran)[1] + 1, 0>>) /\ UNCHANGED phase
  /\ UNCHANGED <<ops, host, built, solved, launch, given, fill>>

HostDone == phase = "host" /\ at > Len(host)
Stopped  == phase \in {"rejected", "crashed"} \/ HostDone

Next ==
  \/ RewriteKernel \/ BuildTop \/ ResolveNext \/ Reject \/ Reorder
  \/ Annotate \/ RewriteBlock \/ Start
  \/ HostStep \/ KernelStep \/ KernelReturn

Spec == Init /\ [][Next]_vars /\ WF_vars(Next)

-----------------------------------------------------------------------------
(* A kernel is resolved or waits to be at most once, and only after those  *)
(* that write what it reads.                                               *)
ResolvedInOrder ==
  LET order == resolved \o Reverse(free_kernels)
  IN  /\ IsInjective(order)
      /\ \A d \in Range(dependencies), n \in DOMAIN resolved :
           resolved[n] = d[2] => \E m \in 1 .. n - 1 : resolved[m] = d[1]

(* Programs are rejected for circles only ("Kernels have circular          *)
(* dependency"), and all circles are rejected: there are kernels each of   *)
(* which waits for one of them.                                            *)
Feeds(k, l) == \E c \in Channels : Count(Write(c), ops[k]) > 0 /\ Count(Read(c), ops[l]) > 0
Circular == \E S \in (SUBSET Kernels) \ {{}} : \A l \in S : \E k \in S : Feeds(k, l)

RejectsCircles ==
  /\ phase = "rejected" => Circular
  /\ phase = "annotate" => ~Circular

(* No kernel ever waits for a channel that only a later one fills.         *)
NeverStarves ==
  phase = "kernels" /\ Done < Len(Code) => Code[Done + 1][1] = "write" \/ fill[Code[Done + 1][2]] > 0

(* Every parameter of hls_top is given the argument that the host passed   *)
(* to the kernel it is handed on to, and is as large as it is annotated.   *)
ArgsArrive ==
  phase = "kernels" => \A t \in DOMAIN top :
    given[t] = Arg(LaunchOf(top[t][1]), top[t][2]) /\ param_sizes[t] = given[t]

EachOnce == Len(ran) = NumKernels /\ {new_kernels[ran[n][1]] : n \in DOMAIN ran} = Kernels

(* Wherever the OpenCL call was put, even in several blocks, the host      *)
(* comes by it once, and then every kernel runs once; nothing runs if it   *)
(* was put nowhere.                                                        *)
AllOrNone ==
  HostDone => IF \E b \in DOMAIN jumps : jumps[b][1] = "opencl" THEN EachOnce ELSE ran = << >>

(* "jump over all hls basic blocks until the last one / Replace the last   *)
(* one with the specialized basic block with Opencl intrinsic": then every *)
(* kernel has run when the host is done.                                   *)
AllRanOnce == HostDone => EachOnce

(* What is accepted and compiled runs to its end: no step waits for ever.  *)
RunsToTheEnd == <>Stopped

=============================================================================
