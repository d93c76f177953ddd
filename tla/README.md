# A verification project for thorin

Thorin is a higher-order intermediate representation: programs are graphs of
hash-consed definitions (the *sea of nodes*), control flow is continuations that
call continuations, and a compiler pipeline (`World::opt`, world.cpp:1281)
rewrites the graph until a back end prints it. This directory holds TLA+
modules that model the parts of it where a mistake is easy and a test unlikely,
TLC configurations that check them, and proofs that hold for every bound.

Paths below are relative to `src/src/thorin/`.

## Inventory

| Component | State it keeps | Operations | What makes it correct |
|---|---|---|---|
| Sea of nodes: `def.*`, `world.*`, `continuation.*` | operands, use lists, gids, dependence bits, cached hashes of each `Def`; the table `data_.defs_` | `cse`, `continuation`, `append_param`, `jump`, `set_filter`, `destroy`, `replace_uses`; `can_be_inlined` | uses and operands mirror each other, gids are unique, equal nodes are one node, dependence bits never understate, an inlinable body is not shared |
| Gid counter: `Def::gid_counter_` | one static counter | taken by constructors, given back by `cse_base` | unique numbers within a world, whatever other worlds do |
| Hash table: `util/hash.h` | inline array or Robin Hood table with sentinels | `emplace`, range `insert`, `erase`, `find`, `clear`, `rehash` | acts as a set; probing ends |
| Scopes: `analyses/scope.*`, `free_defs.*`, `verify.*` | a set of definitions per entry | `run`, `free`, `free_params`, `for_each` | the set is what depends on the entry's parameters |
| Mangler and importer: `transform/mangle.*`, `transform/importer.*` | maps from old to new definitions | `drop`, `clone`, `lift`; `import` | the copy means what the original meant with those arguments |
| Cleanup: `transform/cleanup_world.*` | `todo_`, the world | `eliminate_tail_rec`, `eta_conversion`, `eliminate_params`, `rebuild`, `clean_pe_infos`, the fix points | preserves meaning, ends |
| Partial evaluation: `transform/partial_evaluation.*` | worklist, `done_`, cache of specialisations, memo of top-levelness | `run`, `eat_pe_info`, `CondEval::eval` | preserves meaning, ends; lower2cff leaves no bad parameter |
| `World::opt`: `inliner.*`, `lift_builtins.*`, `codegen_prepare.*`, `clone_bodies.*` | the world; the scopes the inliner keeps | the passes in their order | preserves meaning, hands the back ends what they ask for |
| Loads and slots: `resolve_loads.*`, `hoist_enters.*`, `dead_load_opt.*`, `split_slots.*` | caches about pointers | the passes | a function returns what it did and leaves the globals as it did |
| Folding: `world.cpp`, `util/types.h` | none | `arithop`, `cmp`, `cast`, `bitcast`, `select`, `extract`, `insert`, ... | the folded definition has the value of the operation, and folding it again changes nothing |
| Analyses: `analyses/cfg.*`, `domtree.*`, `domfrontier.*`, `looptree.*`, `schedule.*`, `be/emitter.h` | CFG, idoms, frontier, loop tree, early/late/smart placement | constructors | agree with definitions by paths; placement is safe |
| HLS kernels: `hls_channels.*`, `hls_kernel_launch.*`, `be/codegen.cpp` | dependency graph of kernels and channels, order of calls, parameter map | rewriting kernels, `DeviceParams`, the resolver, the top function, the host's launches | no kernel waits for one called later, arguments reach their kernel |
| Back ends: `be/*` | maps from definitions to text or LLVM values | `emit_*` | statements compute what the definitions mean, each before it is used |
| Type table: `type.*` | hash-consed types | `insert`, `struct_type`, ... | as the sea, without rewriting |
| `closure_conversion`, `flatten_tuples`, `lift_pipeline` | maps of types and continuations | the passes | preserve meaning |
| Containers, streams, casts, debug information: `util/*`, `debug.*` | their elements | | |

How they interact: everything goes through `World`, whose `cse` looks nodes up
in the hash table by operands; passes change the graph with `jump`,
`replace_uses` and `destroy` *in place*, under hashes cached before, and find
work by walking use lists. `World::opt` runs the passes in a fixed order:
cleanup, which alternates several of them with `rebuild` (a new world with what
the externals reach) until nothing changes; lower2cff; lifting of kernels and
inlining with another cleanup each; preparation for code generation. The back
ends then read scopes through the analyses. Worlds share no state but the gid
counter.

What is hard here: sequences of rewrites (stale hashes, dependence bits, memoised
analyses), sharing through hash-consing (an `App` may be the body of several
continuations), the order of passes over hash tables, termination of the fix
points, memory operations moved or merged, and tables at their growth limits.
Nothing is persisted and no message is sent, so there is no crash recovery;
threads occur only as several worlds built in parallel, which world.h:43-44
advertises, and as HLS kernels that wait for each other's channels.
`PROJECT.json` lists the hazards at their lines.

## Modules

| Module | Models | State and actions |
|---|---|---|
| `SeaOfNodes` | one `World` | variables `gidCounter, tag, ops, uses, dep, hash, sea, dead` are the fields of the same names; one action per client operation: `NewPrimOp` (`cse`), `NewContinuation`, `AppendParam`, `Jump`, `SetFilter`, `Destroy`, `ReplaceUses`. `mutated` is a history of the structural nodes `replace_uses` changed. A lookup surely finds an equal node whose cached hash is current and may or may not find one whose hash is stale. |
| `GidCounter` | `gid_counter_` shared by worlds and threads | each `gid_counter_++` and `--gid_counter_` is a load and a later store; `Begin/Construct/Discard/Insert/GiveBack` are the steps of a thread inside `cse` |
| `RobinHood` | `HashTable` as a value | operators `Emplace, EmplaceRange, Erase, Rehash, FindSlot, ...` on an array of slots |
| `AbstractSet`, `HashTable` | the promise of a set, and the table that implements it | `HashTable` has one action per public operation and `ImplementsSet` is the refinement |
| `SeaTable` | `cse_base` over the real table | nodes cache their hash, `Rewrite` (`replace_uses`) changes what a node is equal to |
| `Programs` | programs as the transformations see them; `Scope`, `FreeConts`, `FreeParams`, `WellFormed` (verify) and a reference semantics `Meaning` | operators |
| `Mangle`, `PartialEvaluation`, `Inlining` | `Mangler` and `Importer`; one run of `PartialEvaluator`; inliner, `force_inline`, `lift_builtins`, `codegen_prepare` on one scope | operators on programs; a run of partial evaluation is a fold over its worklist |
| `Cleanup` | both fix points of `cleanup_world` | `StartIteration`, `EliminateTailRec`, `LeaveScope`, `EndTailRec` (one scope at a time), `Eat`, `Subsume`, `Permute`, `EndEta`, `Rebuild`, partial evaluation and the end of it; the order within a pass is open |
| `Optimize` | `World::opt` | `stage` says which pass runs; `Lower2CFF`, `LiftBuiltin`, `Inline`, `Prepare` visit one continuation or scope each, in any order, between the steps of `Cleanup`, which it extends |
| `ControlFlow`, `Dominance`, `Loops`, `Placement`, `Analyses` | CFA and CFG; `DomTree` and `DomFrontier`; `LoopTree`; `Scheduler` and the emitter's choice of a block; all of them on one scope | `Analyses` has one action per structure built: `BuildCFA`, `BuildCFG`, `BuildDomTree`, `BuildDomFrontier`, `BuildLoopTree`, `Schedule` |
| `Kernels` | HLS kernels, from their rewriting to their run | `RewriteKernel`, `BuildTop`, `ResolveNext`, `Reject`, `Reorder`, `Annotate`, `RewriteBlock`, `Start`, then the run: `HostStep`, `KernelStep`, `KernelReturn` |
| `Aggregates`, `Memory`, `LoadStore` | `extract` and `insert`; functions with memory and their reference run; `resolve_loads`, `hoist_enters`, `dead_load_opt` | operators on functions |
| `Emission`, `PhiEmission`, `Lowering` | the emitter, the blocks of statements be/c emits and their run; the phis and instructions of be/llvm; the passes in their order | `Resolve`, `Hoist_Enters`, `Dead_Load_Opt`, then `Emit_C` or `Emit_LLVM` |
| `Folding` | `arithop`, `cmp`, `cast`, `bitcast`, `select` on integer types and booleans; `SInt`, `UInt` | `client` is one of the `Clients`, `defs` what it has built; `Build` asks for one more operation. `Machine`, `MachineCast` and `MachineSelect` are what be/llvm emits; `Undefined` (poison) may become anything |
| `MC*` | instances for TLC | |
| `SeaOfNodes_proofs`, `GidCounter_proofs`, `RobinHood_proofs`, `HashTable_proofs`, `SeaTable_proofs`, `Kernels_proofs`, `Dominance_proofs`, `Analyses_proofs` | | theorems |

Abstractions. A definition's payload (type, literal, location) is left out of
`SeaOfNodes`: nodes differ by tag and operands. `Params` are not in the code's
sea and are not in the model's.

In `Programs` a continuation body is one `App` of atoms: parameters,
continuations, literals, Globals of continuations, branch, `pe_info` and the
accelerator intrinsics. There are no primitive operations and no memory, so
`resolve_loads`, `hoist_enters`, `dead_load_opt`, closure conversion and
flattening have nothing to do; the memory passes are checked in `Lowering`.
A filter's condition speaks of its own parameter: never, always, or if it is
known; `Run` and `Hlt` nodes are left out. Only continuations have gids (what
that leaves open, see `Limits`). A run of partial evaluation, a `force_inline` and the lifting of
one kernel are one step each, as no other code runs meanwhile. `Meaning` runs
the external continuation with every answer to its opaque conditions: calls of
unknown continuations are visible and the run continues in every closure
passed, so programs are compared by what they do and not by their text.

The hash table's loops are recursive functions over the slots left to probe;
its `i & (capacity_ - 1)` is `i % cap`, which is the same as the capacities are
powers of two. That they are is part of `TypeOK` and proved.

In `Kernels` the channels of a kernel's dependencies come in any order, as
`world.defs()` is a hash table; everything else in `hls_top` has the order of
the code's loops (`Looped`).

In `Memory` every block of a function has its parameters and a body, and a
memory operation continues from the memory it takes. A definition that a pass
replaces still counts among the uses of its operands until the next rebuild, as
in the code; what is put in its place is set in its users as it is, and folded when
the next rebuild (`Rebuilt`) makes them again. The answers about pointers and values
that `ResolveLoads` keeps (`CACHED`) are state of the pass, keyed by question and
definition.

## Runs

| Run | Question | Bounds |
|---|---|---|
| `sea_of_nodes` | Do use lists, gids, dependence bits and unification survive every order of client operations? | `MaxGid = 11`: four definitions of the client's own next to the seven every world starts with; a continuation, a parameter or node and a user is what the properties relate. |
| `gid_counter_two_threads` | Are worlds independent, as world.h says? **No**: see findings. | one world per thread |
| `hash_table` | Does the table implement a set, and does every probe end? | five elements chosen to collide and wrap around at capacities 1, 4, 8 and 16, so that growth and shrinking both occur |
| `sea_table` | Which nodes can `cse` miss or duplicate once nodes are rewritten in place, and does insertion succeed while none is? | five values; up to two nodes are rewritten, as often as one likes |
| `optimize` | Does `World::opt` preserve what a program does, keep it well formed, end, and hand the back ends the form they ask for? | all well-formed programs of nine kinds (`MCOptimize`, `MCCleanup`), each with as many continuations as the pass it is for needs: filters that specialise a call or a recursion, chains of `pe_info`, functions within functions, functions that take functions, kernels; loops and branches, recursive calls that keep, exchange or repeat values, functions passed on, called and returned from. `Visible = 2` and `Silent = 12` bound the runs that are compared: two visible calls tell the orders and arguments of calls apart, and no such program makes twelve silent steps without repeating itself. `MaxConts = 20` is reached only by programs that lower2cff does not end on (below), for which no end is claimed. |
| `optimize_shared` | Do the calls that partial evaluation makes fit their callees where continuations share a call? **No**: see findings. | as `optimize`, one kind |
| `cleanup_bottom` | The fix point with bottom as an argument: it is **not** reached. | |
| `analyses` | Do numbering, dominators, frontiers and loop nesting agree with definitions by paths, and are definitions emitted safely and in as few loops as possible? | all flows of four continuations with two jumps each, forwards and backwards: enough for irreducible loops, endless loops and joins. Two definitions that use each other, with up to three parameters and using blocks, placed on flows numbered in reverse post-order, as names do not matter. |
| `kernels` | Are kernels called in an order in which none waits for ever, are only circles rejected, do the host's arguments arrive, and does a call of all kernels run each once, whichever block becomes it? | three kernels in every order of launching, two channels, two operations each, none to two parameters |
| `kernels_last` | Has every kernel run when the host is done? **No**: see findings. | the same |
| `lowering` | Do the memory passes and each of the two back ends keep what functions return and leave in globals? | a thousand functions (`MCLowering`) of up to four blocks: a slot, an array with known and unknown indices, an immutable and a mutable global; one block, a branch or match, a loop, a call. `MaxSteps = 10` is more than any of them takes. |
| `folding` | Does what is given for an operation compute the operation, and does rebuilding it change nothing? | ten clients (`MCFolding`): three bits, so that the literal 2 and both limits are different numbers; parameters alike or not; two nodes built before where a rule looks at the operands of both (chains, joins, comparisons); quick types on literals of four bits; conversions among five integer types; selects on booleans and their negations |

Deadlock is checked in every run whose configuration does not say otherwise; the
configurations with `CHECK_DEADLOCK FALSE` are those where a client may have used up
its bound of definitions, all structures are built, the passes are through or
the host is done.

Inputs that are left out of passing runs, because the code is known to treat
them differently from what the properties say:

* `folding`: clients do not join and/or nodes that have an operand in common
  (`Shares`): absorption gives the wrong one, see below. Quick clients have no signed subtraction (`MIN - MIN`
  folds to bottom, since `SInt` negates its operand first) and no parameters:
  `arithop` reassociates quick additions and multiplications too, `(1 + x) + y`
  becomes `1 + (x + y)`, which overflows for `x = MIN`, `y = -1` where the
  operation asked for does not. An integer is not cast to a boolean: a literal
  becomes whether it is not zero, be/llvm takes the lowest bit. Nothing selects
  a bottom: `select` is bottom if either operand is.
* `sea_table`: the assertion after the insertion in `cse_base` is only claimed
  while no node was rewritten in place, see below for what happens after.
* `optimize`: calls that share one `App` where filters differ in what they know
  (`shared = FALSE`), which is what `optimize_shared` is about.
  `pe_info`s in a circle, on which partial evaluation does not end, and filters
  that specialise a recursion for ever new arguments.
  Kernels that return by a continuation of another function, as the free
  definitions that `lift_builtins` collects then are not its parameters.
* `lowering`: pointers are not cast, and an array is not stored to as a whole
  once the pointer to one of its elements was given away (`Careful`), as
  `find_slot` does not track such a store but answers a load of another element.
  Functions that still insert into an array go to be/c only (a few,
  `InsertsElement`): be/llvm loads the changed array as a pointer
  (`CreateLoad(p.first->getType(), ...)`, llvm.cpp:845).
* `kernels`: the host launches every kernel once, as codegen.cpp:36 asks.

A program that needs more continuations than `MaxConts` is followed no further and
stops in "outgrown": lower2cff copies nested functions that call each other not in
tail position for ever, each copy with a continuation of its own to specialise for.
"Outgrown" does not count as an end. `OptTerminates` claims one for the programs in
which no nested function pushes a continuation in a recursive call
(`RecursesInTail`, a condition on the program as it is given to `World::opt`), and
TLC finds that none of these outgrows the bound. Of the others some end and some do
not; nothing in the code or its documentation says that they do. Safety is checked
on all of them, up to the bound.

A program the code refuses by an assertion stops in "rejected", which is an end
(`codegen_prepare` wants every top-level scope to have one return parameter,
which an endless loop does not have; `App::verify` wants as many arguments as
parameters).

Which copies partial evaluation still enters into its queue depends on gids below
twice `boundary_`. Gids count all definitions, of which the model has only
continuations: it takes both ends of the range (`Limits`), none more than the
continuations account for, and no limit at all.

Fairness is assumed in `Cleanup`, `Optimize` and `Kernels`. A pipeline is a
sequential program in one thread, so it keeps taking steps until it is
finished (`Fairness`, `OptFairness`: "infinitely many changes, or ended", with weak
fairness of one step spelled out). That is weak fairness of `Next`, since a step is
enabled in every other state, which the deadlock check confirms; which step is
taken, and which definition a pass visits next, is never assumed. In `Kernels`
it is weak fairness of `Next`: host and device run as long as anything can.

## Findings

* `gid_counter_two_threads`: worlds advertised as independent share an
  unsynchronised counter; two threads can number two definitions of one world alike.
* `cleanup_bottom`: `eliminate_tail_rec` treats `bottom` as passed on, the mangler
  does not, and `eta_conversion` undoes the copy: cleanup does not return.
* `kernels_last`: the host's block that is to become the OpenCL call is found by a
  pointer that is initialised for the first launch only (hls_kernel_launch.cpp:90).
  For the others it may be anything: no block may become the call, and no kernel
  runs.
* `optimize_shared`: of two continuations that go on with the same `App`, the first is
  specialised for the parameters its filter asks for; then the callee has one use
  left, counts as inlinable, and the second is specialised for all of them, but
  takes the copy of the first from the cache and calls it with too few arguments,
  against `App::verify` (continuation.cpp:34).

Two more disagreements are known and kept out of the runs by what their clients do
or claim:

* `x & (x | y)` becomes `y`, against "absorption: a and (a or b) = a"
  (world.cpp:332-335, and likewise to line 352). The rules for `(a or b) or (a or c)`
  and its dual (world.cpp:356-371) drop the common operand, too. `Absorption` and
  `SharedOperand` are modelled as they are in the code.
* After `replace_uses` rewrote a node under its old hash, `find` can miss it, `insert`
  grow the table, which moves it onto the probe path, and so fail, against
  "hash/equal broken" (world.cpp:1271). `Cse` records this in `refused`;
  `PureInsertSucceeds` says when it cannot happen.

## Proofs

`SeaOfNodes_proofs` proves, for every `MaxGid`, `MaxArgs` and `MaxParams`, that
`IInv` is an inductive invariant (`WorldInvariant`) and from it `TypeCorrect`,
`UseListsSound`, `UseListsComplete`, `GidsNeverShared`, `DepBitsCover` and
`ValuesUnified`. None of the checked properties is inductive alone: that use
lists are sound after a discarded `cse` needs that no definition with a number
from the counter on is used; that a dependence bit covers needs complete use
lists, as `replace_uses` updates users through them; and unification needs that
nodes not rewritten carry their current hash. `IInv` adds these: the shape of
each kind of definition (a continuation has a body and a filter, a parameter its
continuation), that nodes of the sea are live, and that hashes are current
outside `mutated`. The proof has one lemma per operation, on top of lemmas about
registering, unregistering and resetting uses.

`InlinableBodyUnshared` is proved from it. Two more facts are
needed and inductive with `IInv`: the body of a continuation is a call or bottom
(`replace_uses` puts a call only where one was), and a call has a callee. Then the
body is a use of its callee, each use of the body counts as a potential call of
the callee, and fewer than two of those leave one use. That needs the counted set
to be finite, which follows from use lists that point back.

`GidCounter_proofs` proves that if one thread owns all worlds, no two
definitions share a gid and none is lost, for every set of worlds and contents.
TLC checks the other case: the run has two threads.
The invariant says where in `cse` the thread is and that between its load and
its store nobody else has moved the counter. `TypeOK` is stated for one thread
too: with several, a thread may give back what another has, and the counter can
fall to 0.

`RobinHood_proofs` is about the operators of the hash table, for every set of
elements, hash function and inline capacity. `WellFormed` says what the loops of
hash.h rely on: `size_` counts the used slots; no element is in two of them; a
table on the heap has a free slot and keeps the Robin Hood order (before an
element that is away from its desired slot there is one at most one slot nearer
to its own); an inline array is packed. From that follow, one on top of the other:

* `displace` puts the new element in and loses none (`DisplaceInserts`). The loop
  carries an element from slot to slot, so the argument is about the array with
  the carried element (`HandInvariantHolds`): what is carried on is at the
  distance it was carried to, and what was passed keeps the order.
* `find` misses no equal element with the hash looked up: it stops at the first
  free slot, and by the order no slot on the way from an element's desired slot
  to the element is free (`FindIsComplete`).
* A rehash to any power of two with room keeps the elements (`RehashKeeps`), so
  `emplace` keeps the table well formed, and so does the insertion of a range of
  any length (`EmplaceRangePuts`).
* `erase` shifts back what follows up to a free slot or an element in its bucket,
  shrinks, or packs the inline array, and takes out one element (`ErasePuts`).

The loops are recursive functions, whose equations the prover knows only once
such a function is known to exist. `IterationExists` shows that for all of them,
by induction over an interval (`InductionTo`, as the library's theorems for it
take operators).

`HashTable_proofs` concludes that `WellFormed` is an invariant of the table under
every sequence of public operations (`AlwaysWellFormed`), from it `TypeOK`,
`ProbingEnds` and `RobinHoodOrder`, and that the table implements the abstract
set step by step (`HashTableImplementsSet`): what an operation answers and what
is in the table afterwards are what `AbstractSet` says.

`SeaTable_proofs` is about the same table when elements are nodes that cache their
hash and `replace_uses` changes what a node is equal to without a rehash. The
table stays well formed under the cached hashes, which do not change, and the
hash of a node that was not rewritten is that of its value (`SInv`). So a current
node is found (`CurrentIsFound`), equal nodes come from rewriting
(`TwinsWereRewritten`), and the assertion after the insertion in `cse_base` holds
as long as nothing was rewritten (`PureInsertSucceeds`). `CurrentIsFound` is what
`SeaOfNodes` assumes of its lookup.

`Kernels_proofs` proves `ResolvedInOrder` for every number of kernels and
channels: a kernel is called at most once, and after every kernel whose channels
it reads. That property is about the order taken so far and what is on the stack,
and a step moves kernels from one to the other, so `IInv` relates both to the
marked dependencies: a dependency loses its mark only when the kernel it starts
from is taken; nothing taken or on the stack has a marked dependency left; the
sources of what is taken were taken earlier; and no kernel is in either twice or
in both.

What the resolver leaves out needs the other direction (`OrderInv`): the
dependencies are exactly the pairs of kernels one of which feeds the other;
marked ones start from kernels not yet taken; and every kernel without a marked
dependency is taken or on the stack. When the stack is empty, the kernels that
are not taken each have one that feeds them among themselves, which is a circle.
When no dependency is left marked, the calls that `Reorder` computes are all
kernels, each once, and none feeds an earlier one, which no circle allows. So
programs are rejected exactly for circles (`OnlyCirclesRejected`).

`ArgsInv` follows `hls_top`'s parameters: they are all the arguments of all
kernels, each once, in the order the kernels had *before* they were reordered,
and what the host's blocks up to `at` have put is at its place, while the places of
later ones are empty. `RunInv` is about the run: calls are made one by one, all but
the last are done, and a channel holds what was written less what was read. A
kernel reads only when all that feed it are done, the code writes each channel at
least as often as it reads it, and the read that comes next is not among those
done, so the channel is not empty (`NoKernelStarves`).

`last_hls_cont` is uninitialised but in the round of the first launch
(hls_kernel_launch.cpp:90), so the invariants hold whichever blocks become the OpenCL
call: none, one or several. A call takes what was collected when its block was
rewritten; what was not collected by then is a null pointer, which the assertion in
`Def::set_op` ends the compiler for ("crashed"), so a call that compiles has all
arguments, each at its place (`PassInv`), and that is what the kernels are given
(`ArgumentsArrive`). The host comes by the first such call, which makes it continue
after the last launch, so it comes by no other: every kernel has run once when it is
done, or none if there is no call (`AllKernelsOrNone`). That there is one cannot be
proved: `kernels_last` shows that there may be none.

`Dominance_proofs` and `Analyses_proofs` are about the control flow analyses, for
every number of continuations and definitions, and for all jumps between them. The
loops of the code are recursive functions here too: `RecursionExists` shows that a
function exists whose values are computed from those of lower rank, `IteratedFacts`
and `FoldedFacts` that a loop passes from value to value of a set that its step
does not leave; so what is said of a loop is an invariant of its values
(`Dfs`, `Linking`, ...), and that it ends a number that each step lowers. `Closure`
is shown to be the least closed set (`ClosureFacts`), which is what all definitions
by paths rest on. Then, each on top of the one before:

* `link_to_exit` leaves every node leading to the exit (`LinkFacts`), so both
  directions of the graph are connected, so the post-order numbers every node, each
  but the entry after one of its predecessors (`VisitFacts`, `Numbered`). That is
  `NodesNumbered`, and all that is used of the numbering below.
* The two fingers of `least_common_ancestor` meet in a node that is above both,
  but not above what dominates both (`FingersMeet`). So what the fix point has for
  a node stays below all that strictly dominate it, and after `k` rounds no path
  of `k` edges to the node avoids it (`DomWithin`, `RoundFacts`). There is only one
  such tree once `k` is the number of nodes (`OneIdomTree`), so the rounds stop,
  and what they stop at is that tree (`IdomsFacts`): `DomTreeCorrect`.
* The nodes between a predecessor and the idom are the ones whose frontier the node is
  in (`FrontierFacts`): `DomFrontierCorrect`.
* A walk of `walk_scc` is followed call by call (`Walking`): the running calls are a
  path, every node on the stack leads to a call, a low link is the number of a
  node on the stack that its node leads to, and what was taken are whole components that lead
  only to what was taken. So when a call returns with a low link that is its own number, the
  nodes above it on the stack are its component (`SccFacts`), and when the walk ends it
  has found the component of each node it reached (`WalkFacts`). It ends because
  edges still to be looked at, nodes not numbered and running calls get fewer.
  The walks from further heads find what the ones before have not reached, as a
  node outside that leads into what was reached enters a component there, whose
  node is then marked (`HeadsFacts`).
* The tree is a loop over the Heads still to be looked into (`Nested`). The nodes below
  different Heads are disjoint, the nodes below one are what its nodes lead to by
  edges to unmarked nodes, and every other node is a leaf with its depth. Looking into a Head
  leaves the others as they are (`OthersStay`); a component with a loop becomes a
  Head below which are again just its nodes, reached from where it is entered
  (`LoopBelow`), and inside are the edges that `Nesting` keeps (`UnderFacts`). A
  node is marked or left behind by each step, so it ends: `LoopTreeCorrect`.
* The dominators of a node are a chain. What a definition needs (its parameters'
  blocks, and those of its operands) dominates all its uses and so `late`, so the
  deepest of them is dominated by the others: `early` dominates `late`
  (`EarlyFacts`, `LateFacts`). `schedule_smart` returns the lowest of the
  blocks between them that are in the fewest loops (`HoistFacts`). An operand's
  early and late dominate those of its user, and as both take the best of their
  blocks, the operand's place dominates the user's: `PlacementSafe`, and
  `HoistingComplete`, with the depths that `LoopTreeCorrect` gives.

`AInv` says how the variables of `Analyses` come from each other, and is all that
is needed of its steps (`AnalysesConsistent`).

All of them rest only on the named assumptions on constants, which TLC evaluates,
and on the single thread where a theorem says so. Each inductive
invariant was checked by TLC before it was proved.

Only model-checked:

* Liveness and fairness, which the prover does not handle: that `Kernels`, `Cleanup`
  and `Optimize` end.
* What is computed by RECURSIVE operators, which take the prover's SMT back end
  away from every module that reaches them: the programs and their passes
  (`Programs`, `Mangle`, `PartialEvaluation`, `Inlining`, and so `Cleanup` and
  `Optimize`), memory and emission (`Aggregates`, `Memory`, `LoadStore`, `Emission`,
  `PhiEmission`, `Lowering`) and `Folding`. Their properties compare a recursion
  over a program with a recursive semantics of it, which is induction over data
  and would stay out of reach if the operators were written as functions; what
  could be gained is the type invariants.

## Not modelled, and why

* `eliminate_params` changes nothing: it wants every use of the continuation to be
  by a nominal continuation at operand 0 (cleanup_world.cpp:191), which no use is
  since bodies became `App` nodes.
* `split_slots` and `clone_bodies` do nothing (their bodies are `#if 0`).
* `closure_conversion` and `flatten_tuples` rewrite types, which `Programs` does not
  have; `lift_pipeline` rewrites one intrinsic.
* In one `eliminate_tail_rec` pass, `App` nodes that an earlier scope left without
  use still count as uses in the code; the model looks at bodies only.
* Mutable Globals in the importer, caches inside a `Scope`, and what `free_defs`
  does about memory and address spaces.
* Floats, vectors and pointers in folding, and `mathop`: TLA+ has no numbers for floats.
* The type table: the scheme of the sea of nodes without rewriting.
* In be/c: types, names, the dialects and the emission of kernels; in be/llvm
  intrinsics, closures, variants, vectors and floats; streams and debug information: text, checked by
  other compilers.
* In be/c, calls inside of HLS kernels and their channels (c.cpp:820-885).

## Plan

What is left, in order of what it would add:

1. `closure_conversion` and `flatten_tuples`, with tuples in `Programs`.
2. Primitive operations in `Programs`, so that folding and mangling meet.
3. Vectors in `Folding`; `Types`.
