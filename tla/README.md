# Squirt: a TLA+ model of the Squirrel interpreter core

Squirt is a fork of the Squirrel 3 scripting language (`src/SQUIRREL3`) with a
syntax tree, reflection and an LLVM back end added to it, and an editor
(`src/IDE`). This directory models the interpreter: its tables, strings, arrays
and objects, its memory management, its call machinery, the way of a program
through lexer, compiler, stream and interpreter loop, and the regular
expressions of its standard library. Line numbers below are those of
`src/SQUIRREL3/squirrel/` unless a path is given. Asserts are compiled out of release builds;
the model never uses one as a guard and states those that matter as properties.

## Inventory

| part | state | operations | interacts with |
|---|---|---|---|
| host reference table (`RefTable`, sqstate.cpp) | nodes, bucket chains, free list, slot count | sq_addref, sq_release, sq_getrefcount, growth, Finalize | its objects are roots of the collector |
| hash table (`SQTable`, sqtable.cpp) | node array with chains in it, `_firstfree`, `_usednodes` | NewSlot, Set, Get, Remove, Clear, Clone, Next, Rehash | tables, class members, registry, compiler tables; foreach keeps an index into the array |
| memory management (sqobject.h, sqobject.cpp, sqstate.cpp) | `_uiRef`, weak references, `_gc_chain`, marks | assignment of `SQObjectPtr`, Release cascades, CollectGarbage, ResurrectUnreachable, ~SQSharedState | every object; outers point into stacks |
| outers (sqclosure.h, sqvm.cpp) | `_openouters` of a VM, `_valptr`, `_value` | FindOuter, CloseOuters, get and set through an outer | stack slots of a VM, closures, the collector |
| call machinery (sqvm.cpp) | `_callsstack`, `_stackbase`, `_etraps`, `_nnativecalls`, C++ activations of Execute | StartCall, Return, LeaveFrame, throw, catch, CallNative | native functions and the host re-enter it |
| generators (sqobject.cpp) | saved stack, CallInfo and traps, state | Yield, Resume, Kill | frames of the VM that resumes them |
| suspension (sqvm.cpp, sqapi.cpp) | `_suspended`, `_suspended_root`, `_suspended_traps` | sq_suspendvm, sq_wakeupvm | leaves frames behind without an activation |
| value stack (sqvm.cpp, squtils.h) | `_stack`, `_top` | growth in EnterFrame and sq_reservestack, RelocateOuters | outers hold addresses of slots |
| string table (sqstate.cpp) | bucket chains of strings, count | Add, Remove, Resize | strings remove themselves at their last release |
| arrays (sqarray.h, squtils.h, sqbaselib.cpp) | vector with length and capacity | append, insert, remove, resize, slice, map, reduce, filter, sort | callbacks run scripts that change the array |
| classes and instances (sqclass.cpp) | member map, defaults, methods, lock | NewSlot, inherit, CreateInstance, attributes, handles | instances copy the layout of their class |
| delegation, metamethods (sqobject.cpp, sqvm.cpp) | `_delegate`, metamethod slots | SetDelegate, Get, Set, NewSlot, DeleteSlot with fallbacks | re-enter Execute |
| lexer (sqlexer.cpp) | current character, line, current and previous token | Lex | the compiler reads the line and whether a newline came before |
| compiler, SQFuncState | prefixed expression, target stack, registers, scopes, jump lists, instructions | code generation, peephole optimiser | produces the instructions the loop runs unchecked |
| interpreter loop (sqvm.cpp) | value stack, frames, open outers, traps | one case per instruction | all of the above |
| serialization (sqobject.cpp) | a stream | Save, Load | what it loads is run unchecked |
| regular expressions (sqstdlib/sqstdrex.cpp) | nodes, captures | compile, match, search | |
| static analyser, reflection, LLVM back end, debug support, rest of base and standard library, editor | | | clients of the above |

What is hard in this code: nothing runs in parallel, but almost every operation
can re-enter the VM or set off a cascade of releases, so that state read before
a call is stale after it; sequences of legal calls reach rarely tested corners
(a full hash table, an object that dies in the middle of a sweep, a generator
resumed from another depth, a VM called while it is suspended). The compiler
keeps values in registers that a later expression may change, patches jumps
after the fact and merges instructions behind the back of the code that asked
for them, and the loop trusts every register and jump it is given. `PROJECT.json`
lists these hazards with the lines where they bite and the properties aimed at
them.

What makes each part correct:

* reference table: exact counts, no root lost through growth, no stale node;
* hash table: it is a map, its chains never break, one rehash is enough;
* foreach: it ends, and visits each slot once as long as the table stays put;
* memory: counts equal references, nothing freed is touched, a collection frees
  exactly the unreachable objects, captured variables keep their values,
  shutdown frees everything;
* calls: every activation gives its caller back the frame it had, traps lead to
  the frame that pushed them, a generator runs in one frame;
* compiler and loop: a compiled program does what the source means, whatever the
  registers, captures, traps and merged instructions; nothing leaves its function;
* stream: what is read back is what was written, or nothing;
* lexer: a token does not depend on its neighbours, no newline is missed;
* objects: delegation ends, instances fit their class, handles stay good, every
  call leaves the stack and the last error as its caller may expect;
* arrays: callbacks may change the array at any moment; a sort ends and permutes;
* strings: equal texts are one string;
* regular expressions: what is accepted is in the language, capture 0 is the match,
  and a capture is a string of its group.

## Modules

| module | models |
|---|---|
| `HostRefs` | abstract: a reference count per object, as the host sees it |
| `RefTable` | `struct RefTable` down to nodes, chains and free list |
| `RefTableProofs` | theorems about `RefTable`, and that it implements `HostRefs` |
| `SqMap` | abstract: a finite map |
| `SqTable` | `struct SQTable` down to the node array |
| `SqTableProofs` | theorems about `SqTable`, and that it implements `SqMap` |
| `TableForeach` | `SqTable` composed with `_OP_FOREACH` and a loop body that changes the table |
| `TableForeachProofs` | the same with loops running, and what a loop visits |
| `StringTable` | `struct SQStringTable`: interning, growth, removal at the last release |
| `StringTableProofs` | theorem: equal texts are one string |
| `Heap` | reference counts, chain, mark and sweep, weak references, outers, threads, shutdown |
| `Exec` | frames, traps, activations, generators, suspension of one VM |
| `ExecInvariant` | the inductive invariant of `Exec`, and what each part of it needs of a step |
| `ExecProofs` | theorems about `Exec`, one lemma per action |
| `Objects` | delegation, metamethods, classes, instances and handles through the host interface |
| `ObjectsProofs` | theorems: the invariants of `Objects` |
| `Arrays` | the vector of an array and the functions that change, walk and sort it |
| `ArraysProofs` | theorems: each element is visited once, a sort permutes and sorts |
| `Lexer` | `SQLexer::Lex` |
| `Syntax` | abstract: programs as trees |
| `FuncState` | `SQFuncState`: registers, targets, scopes, literals, instructions, the peephole optimiser |
| `Compiler` | the code generator of `SQCompiler` over `FuncState` |
| `Bytecode` | Save and Load of compiled functions |
| `Machine` | the interpreter loop over the instructions the compiler generates |
| `Meaning` | abstract: what a program means, from its tree, without registers or instructions |
| `CompileRun` | the host that compiles, writes, reads and runs: a compiler, `Bytecode` and `Machine` composed and compared with a meaning; its instance `MCCompileRun` gives it those of `Compiler` and `Meaning` |
| `Regex` | the compiler and the matcher of sqstdrex.cpp |
| `MC...` | instances for TLC |

**RefTable.** A table is one record; a node is its index in `_nodes`, a bucket
chain and the free list are sets of nodes (which node a free list hands out
first is not observable). `Resize` runs only on a full table, so each node
keeps its index. Counters wrap at `MaxUInt`. The host releases only what it
holds, which is the contract behind the `assert(0)` of `Release`; it may ask for
the count of anything. `held` is a ghost variable: references taken minus
references given back. `MaxRefs` bounds it.

**SqTable.** The node array is three functions (`key`, `val`, `next`).
`NewSlotOnce` is NewSlot up to the point where it calls Rehash; Rehash adds the
nodes back with `NewSlotOnce` and records in `spilled` if one of those insertions
would have needed a further Rehash, which `RehashFits` excludes, so that the
mutual recursion of the code is one level deep. Null keys reach `Set` as in the code.
`Clone` is the build without `_FAST_CLONE`. `InitSizes` are the sizes that the
constructor reaches by doubling.

**TableForeach.** `cursor` is the hidden third variable of a foreach. The ghost
variables `seen`, `twice`, `intact` remember which keys the body ran for and
whether the array was reallocated or received a new slot.

**Heap.** Objects come from finite pools and may be reused once freed. Each has
a sequence of slots: fields of a table, elements of an array, outers of a
closure, value of an outer, stack of a VM. `Release`, `Destroy`, `Assign` and
`Sweep` follow the order of the code: what is referenced before what is
released, what leaves the chain before or after dropping its slots. `bad` records any touch of
an object that is gone. `Delegate` stands for the default delegates, the roots
after the root VM. The actions are what running code does with the slots it can
name: create, move, clear, read and write fields, capture a local, read and
write through an outer, end a block, leave a call, take and read a weak
reference, collect, resurrect, close. A thread is a VM with one slot.

**Exec.** `frames` is `_callsstack`; `ctl` the C++ activations of Execute and of
native functions, which exist only on the C++ stack. A stack position is a
number; a callee's frame starts one slot above its caller's, a resumed
generator's at `_top`, two above. Scripts are any sequence of the instructions
modelled. What the compiler guarantees is a guard: a function pops only traps it
has pushed, and pops them before it returns (sqcompiler.cpp 345-352,
1761-1771); tail calls occur only outside try blocks and change nothing modelled.
The `features` of a mode select what programs do, because some combinations break the
code (see Findings). `stray` marks that Execute went on with a frame that is not its own
(sq_resume of a generator that is not suspended; a wake-up from within the
suspended VM); the model stops there.

An exception is unwound step by step: `Throw` or a failed native call sets
`raising`, and as long as it is set nothing happens but the rounds of
`exception_trap`, which catch in the frame on top or abandon it. A frame also
remembers the base and the depth it was entered with (`base`, `below`), and an
activation the depth and base its caller has; the code keeps neither, and only
the properties read them.

**StringTable.** A chain is the set of the addresses in it: the order of `_next`
shows nowhere, as a text is in a chain once. A new string gets any free address.
Adding takes the reference that the caller of `SQString::Create` takes.

**Objects.** A machine is one record: objects by number, the value stack of the
calling host function, `_lasterror`. A closure that runs as a metamethod is its
outcome: it returns an integer or a boolean, throws, or throws null, which
`_get` and `_set` use to decline. Get and Set and their fallbacks are operators
that return the machine, so a call along several delegates is one action, as it
is for the host: `GetFrom` is one level of `SQVM::Get`, given what the call for the
delegate returns, and `Get` is the function over the tables that these levels
define; likewise `SetFrom` and `Set`. `ret` holds what the host is left with: how many values too many
(`extra`), success, and whether the error it reads comes from this call (`fresh`).

**Arrays.** `run` is the native function in progress with its loop variables.
Every compare or visit of an element is an action of its own, and between two of
them the script may do any operation on the array; callbacks may throw. `_hsort` is
modelled with its sift loop, root by root. The loop of `sq_arrayreverse`, which
nothing can interrupt, is the reversed sequence.

**Lexer.** One action is one call of `Lex`. A class of characters is represented
by two or three members.

**Compiler, FuncState.** An operator per method, applied to the tree the parser
would walk; instructions carry their four arguments with their widths
(`arg0`, `arg2` and `arg3` unsigned chars). AddInstruction applies the merges of
`SQFuncState::AddInstruction` in the order of the code, so that what a method
patches afterwards is what the optimiser left.

**Machine.** One action is one instruction. Constructors, default and variable parameters,
tail calls, open and closed outers, traps with the frames they unwind follow the
code. The only native function is `out`, whose log is what the world sees of a program.

**Meaning.** A big-step meaning: variables are locations of a store, so that a
closure keeps the variables it captured; exceptions, break, continue and return
are ways to end. It shares the primitive operations on values with `Machine` and
nothing with the compiler.

**Bytecode.** A stream is the sequence of what the write function gets: tags,
sizes of the build, counts and items. Loading follows the checks of the code and
fails at the first item that does not fit.

**Regex.** Patterns become nodes linked as in the code, with the node numbers of
the code; the matcher is the recursive descent of `sqstd_rex_matchnode`, with its
look-ahead and with `_matches` and `_currsubexp` as state that failed attempts
leave behind. Each capture remembers the text it points into, because captures
outlive the call that took them: `(ab)a|a` searched in `abb` matches [0, 1) and still
reports the capture `ab` of the branch that failed. `CapturesSound` therefore says that capture
0 is the complete match of the last successful call; that every other capture,
whatever left it, is a string its group describes in the text it was taken from; and,
of patterns without branches and repetitions only, that all captures are taken
anew inside the match. It does not say that a group which took part in the match is
captured, or at its last round: a look-ahead prevents that.

## Runs

Passing runs:

| run | question | bounds |
|---|---|---|
| `ref_table` | Are the counts exact and the chains sound through growth and recycling? Does the table implement `HostRefs`? | 4 objects, 2 initial slots, 2 references each: three objects share a chain and one of them leaves it when the table doubles |
| `table` | Do the chains survive every sequence of operations? Is the table a map? Does foreach end and visit each slot once? | 5 keys and 2 values without loops, 4 keys with a loop: created with 4 or 8 nodes, 4 to 8 and back, collisions in main positions and in chains |
| `heap` | Counts, chain, weak references, collection, resurrection, captured variables and shutdown on arbitrary graphs | per behaviour: 3 tables, an array and a weak reference; or 1 table, 1 closure, 2 outers; or 1 closure, 2 outers, 1 thread; each with 2 locals |
| `exec` | Do calls, exceptions, native functions, generators and suspension nest? | 4 frames, 4 activations, 2 traps per frame, 2 generators with foreach, sq_resume and calls into a suspended VM; or 3 frames, 3 activations, 1 trap, 1 generator that yields inside try |
| `compile` | Does a compiled program, written and read back or not, do what it means? | two families of programs, below; 40 stack slots, streams broken off at 2 places and of two builds, with and without line information |
| `lexer` | Do tokens depend on their neighbours, is every newline seen? | all texts of up to 4 (comments: 5) characters over four alphabets: punctuation, words and numbers, comments, strings; and escapes and hexadecimal numbers at their limits |
| `objects` | Do delegates, metamethods, class changes and handles keep the objects and the stack sound? | one ordinary key and one metamethod at a time, with the outcomes its callers tell apart; tables that delegate to each other, or a class and one derived from it, to start with; 4 objects, 1 handle, 3 calls |
| `arrays` | What if a callback changes the array, throws or contradicts itself? | arrays of up to 3 elements over {1, 2}, of 4 different ones, and one about to shrink; 2 calls of the script, lengths up to 8, walks up to 4 |
| `strings` | Is each text one string through growth and release? | 6 texts, 6 interchangeable addresses, 2 references: beyond the 4 initial slots, with collisions that growth resolves and others it does not |
| `regex` | Is what the matcher accepts in the language, and what do the captures of any sequence of calls still mean? | all patterns of up to 4 symbols out of 9, used once; 39 longer ones with classes, counted repetitions, nested groups, numbers of up to 10 digits and captures left behind by failed branches, look-aheads and earlier calls, used twice; all texts of up to 3 of two letters and three others; 7 stands for 0xFFFF, and numbers are cut to its 3 bits |

The programs of `compile` are of two families: every control structure nested in
every other around every statement that leaves, changes or captures; and every
kind of expression as operand of every other, in every place where a value can
go. Both are what a peephole optimiser or a register allocator can tell apart.
They end by themselves, so that the interpreter needs no bound on steps.

`BaseBound` in `exec` cuts off the drift of `_stackbase` described under Findings.

Deadlock checking is off where the system may stop: `RefTable` and `Heap` after
shutdown, `Exec` after `stray`, `Objects` and `Arrays` when the bound on calls is
reached (a script need not do anything more).

Collection properties (`CollectExact`, `ResurrectRestores`) are invariants: in
every reachable state they compute what a collection started there would do.
`ReadYourWrites` likewise tries every assignment in every state.

Fairness is assumed twice. Weak fairness of `ForeachStep` says that a loop whose
body ends goes on to the next iteration, which is how Execute runs it. Weak
fairness of `SortNext` and of `CallbackReturns` says that a native loop runs and
that a callback that is not interrupted by further operations for ever comes
back. Nothing is assumed of what bodies and callbacks do meanwhile.

Every property of a passing run has a mutant in `PROJECT.json`: a version of a
modelled definition with a plausible bug (marked "wrong on purpose" in the
modules) that the property catches.

## Findings

Two runs are expected to end in a violation; each states what the source says of itself.

* `heap_theory`: `SQVM::Mark` does not visit `_openouters`. An open outer whose
  closure has been dropped survives a collection outside the new chain; closing it
  then sets `_gc_chain` to NULL and the collector loses every object. The assert
  at sqstate.cpp:209 fails at shutdown.
* `exec_catch_base`: a generator's traps keep the absolute `_stackbase` of the
  frame that yielded; an exception caught after a resume from another depth goes
  on at the wrong base, against the assert at sqvm.cpp:1638.

Because of these and of what follows, some properties name their exceptions:
`ChainComplete`, `CollectExact` and `CloseFreesAll` leave out what an abandoned
open outer or an unreachable thread has spoiled; `TrapCountExact` leaves out foreach over
generators that yield inside try; `TrapsLeadHome` and `CallRestoresBase` yields
inside try; all properties of `Exec` a generator resumed by both sq_resume and a script; `EndsCleanly` a `_set` that declines and metamethods that are not
callable; `MatchSound` for searches, and `CapturesSound` for what groups describe,
nodes that accept the NUL behind the text.

Other properties claim less than one might read into them. `ForeachVisitsEachSlot`
says nothing once the table or array of the loop is reallocated: then only
`ForeachEnds` remains. `HandlesSound` covers the class of the handle and those derived
since, not one derived before the member was added. `ReadYourWrites` asks the object and
its delegates, not the root table behind them. The sort properties exclude compare
functions that shorten the array, and `NoUseAfterFree` accepts a value that was
emptied but not freed.

Met while modelling, and not kept as runs. Memory and tables:

* `sq_getrefcount` adds a node with no references (sqstate.cpp:449), which
  Resize then meets against `assert(t->refs != 0)` (sqstate.cpp:493) and which keeps its object a root.
* `SQTable::Set` with a null key matches an empty node and reports success
  (sqtable.cpp:197), where NewSlot says "null cannot be used as index".
* `SQTable::NewSlot` returns false when it had to rehash, although the slot was
  created (sqtable.cpp:172-173, against the comment at sqtable.h:79);
  `CollectDefinedTypes` (sqstaticanalyser.cpp:109) treats false as a failure.
* `SQOuter::Mark` skips open outers (sqobject.cpp:653-654): if the stack belongs to
  an unreachable thread, the collection empties the captured value and hands it to a
  closure that is reachable.
* SQGenerator::Yield clears its stack slots before LeaveFrame closes the outers over
  them (sqobject.cpp 143-146): a closure over a local of a generator reads null after a yield.

Calls and generators:

* FOREACH_OP resumes a generator without adding its traps to the count of Execute
  (sqvm.cpp:573): the asserts at sqvm.cpp:917 and 1074 fail then.
* The `_root` flag set by sq_resume is saved by Yield and restored by a script's
  resume (sqobject.cpp:174): with `"mixedResume"` in `Exec`, `CallRestoresBase` fails.
* Execute ignores the result of Resume (sqvm.cpp:719): `stray` is reachable.

Compiler. These programs are outside the instance of `compile`; the model
follows the code, and on them its results differ from `Meaning`:

* break and continue close the captured variables of the innermost scope only,
  and catch (sqvm.cpp 1142-1151) closes none of the try block's.
* `case` with a local as its value compares into the register of that local and
  so overwrites it (sqcompiler.cpp 1616-1617).
* a local is not copied when it becomes an operand, so `a + a++` reads it after the change;
  `y = x += 1` retargets the ADD and x keeps its value.
* the step of a `for` is added again through AddInstruction and may be merged once more;
  a `for` whose condition fails at instruction 0 keeps its jump unpatched.
* a compound assignment to a captured variable leaves two targets; a JZ on
  register 0 falls through to the merge with arg0 = 0xFF (sqfuncstate.cpp 468-479).

Objects and arrays:

* `sq_newslot` ignores the failure of NewSlot; `sq_newmember` and
  `sq_rawnewmember` never pop their arguments; `sq_set` leaves key and value when
  it fails; `sq_deleteslot` fails on a slot that is missing; `sq_cmp` returns an
  uninitialized number when the comparison fails (sqapi.cpp:787).
* `IsEqual` inverts the result of `_eq`. A `_set` that throws null leaves its three
  arguments on the stack (sqvm.cpp 1438-1444). A metamethod that is not callable
  fails with whatever `_lasterror` held.
* a method redefined as a field leaves `_constructoridx` and handles behind; a handle
  of a base class is out of range for a class derived before the member was added.
* a compare function that shortens the array makes `_hsort` index past its end
  (sqbaselib.cpp 711-723); the guard of the script operations during a sort
  excludes it. `array_resize` accepts negative sizes, `slice` a start below
  minus the length (sqbaselib.cpp 786-798), and `slice()` reads above its arguments.
* a string indexed with a negative number uses length minus the index (sqvm.cpp:1297).
* Get asks the default delegate before the root table (sqvm.cpp 1311-1317), Set does not:
  where `this` is a table without it, `len = 1` changes the slot `len` of the root
  table, and `len` then reads the delegate's function.

Lexer, stream and regular expressions:

* `define` is lexed as `return` (sqlexer.cpp:42); `08` is a decimal number, `018` an error.
* Load reads nested functions through the pointer of the previous object
  (sqobject.cpp:523); closures with free variables cannot be written.
* `.`, negated classes and their like accept the NUL behind the text, so a search
  may run past its end; the matcher does not backtrack, so matches are missed, which
  `MatchSound` allows.
* Captures that are not part of the match stay in `_matches`: those of a branch that
  failed (`(ab)a|a` in `abb`), of an attempt further to the left (`^(a)a|b` in `ab`), of
  a look-ahead (`a{2}(a)` in `aaa` reports the second letter) and of an earlier call;
  and a look-ahead, as in `a*(b)`, advances `_currsubexp`, so that the match
  itself is not recorded.

## Proofs

`RefTableProofs` proves, for every set of objects, every hash function, every
initial number of slots and every bound on references not above `MaxUInt`:

* `TypeCorrect`, `TableWellFormed`, `CountsCorrect`: the invariants of run `ref_table`;
* `RootsKept`: only a release of the object itself or the shutdown takes a root away;
* `RefTableImplementsHostRefs`: `Spec => Host!HSpec`, with `count` mapped to the
  count found by the chain search.

Assumptions, all in `RefTable` and evaluated by TLC: null is no object, hashes
are naturals, at least one initial slot, `MaxRefs <= MaxUInt`.

The inductive invariant `IInv` is the type of the table together with: the free
list is exactly the empty nodes; a node is in chain m exactly when it is occupied
and its object hashes to m; no object has two nodes; the slot count is the
number of occupied nodes; and the count of each object's node is `held`, an
object without a node being held zero times. None of the properties is
inductive alone: exact counts need the chain search to find the one node of an
object, which needs the chains, and growth needs the slot count to know that a
table with no empty node is exactly one that is full, which needs finiteness of
the node set. The lemmas follow the operators: what Lookup
finds in a good table, that Resize and Add give good tables and keep the counts,
that Unlink removes one object and nothing else. After `Finalize` the chains are
stale and the properties claim nothing.

`StringTableProofs` proves `AlwaysInternedOnce` for every set of texts and
addresses, every hash and every bound on references: a text is interned once, in
the chain of its slot, and the count of strings is exact. The invariant adds that
chains hold exactly the strings in use, each in the slot of its hash under the
current size, which Resize recomputes. Assumptions: hashes are naturals, and
there is a bound on references.

`SqTableProofs` and `TableForeachProofs` prove, for every set of keys, every
hash, every smallest size of at least 4, every initial size reached from it by
doubling and every use of the table:

* `LoopsFindEveryKey`, `LoopsRehashFits`: the invariants of run `table`;
* `LoopsUseMap`: `FSpec => AsMap!MSpec`, with `map` what `_Get` reads;
* `LoopsVisitEachSlot`: the action property of foreach.

The inductive invariant of a table is `Good`. A node is linked from one node at
most and chains end, so that `_Get` and the search for a predecessor are walks
that stop; the chain from the main position of a stored key leads to it; a key is
stored once; a node whose key belongs elsewhere is nobody's main position, so
moving it away breaks no other chain. What makes the move safe is the part about
`_firstfree`: the node there is empty and unlinked, nothing links to it or below
it, and every key at or below it is in its own main position. `EveryKeyFound`
alone says none of this: a removed node keeps its link, so an empty node may be in
the middle of a chain, and only the free place is known not to be. For
`RehashFits` the tables that Rehash fills are also compact (no empty node above
the free place or with a link), so that they are full only when all nodes are
used; and the size is the smallest one doubled some number of times, without
which halving an odd size could leave too little room. `Holds` states what a table
maps without a search, and each operation is described by its effect on it; the
refinement follows.

What recursive functions compute is proved here by least counterexamples: a set of
naturals has a least element (`LeastElement`), and in a set of nodes some node
links out of the set. From this come the existence of the functions that `_Get`
and the loops of Rehash and Clone define (`LinkRecursion`, `RoundsRun`), and the
invariants of those loops (`RoundsFill`). For foreach, `LoopInv` says that a loop over an
intact array has seen exactly the stored keys below its index.

`ExecInvariant` and `ExecProofs` prove, for every set of generators, all modes and
all bounds on frames, activations and traps:

* `AlwaysTrapsLeadHome`, `AlwaysTrapCountExact`, `AlwaysRootsBound`,
  `AlwaysExclusive`: the invariants of run `exec`;
* `AlwaysRestoresBase`: its action property, a call that ends leaves its caller
  the base and the frames it had.

Assumptions: generators are not the value for none, and a mode is a record of
bounds and features. The invariant has these parts: traps are in
the order of the frames that pushed them; each frame's base is what its caller's
frame continues at; the activations on the C++ stack remember frames that still
exist, in their order; the frames flagged as roots, and only they, belong to an
activation of Execute; a suspended VM keeps the root and the traps it was
suspended with; the trap count of an activation is the number of traps of the
frames above its root; and a generator that runs has one frame. Each is needed by the
next: a base is restored from a trap only if the trap leads to the frame that
pushed it, the count of traps decides which traps an activation may pop, and
roots decide where its unwinding stops. `ExecInvariant` shows what each part needs of a step
(push a frame, pop one, push or pop a trap, change the activations);
`ExecProofs` shows that every action is one of these. The findings limit the
statements: where programs mix sq_resume with a script's resume the invariant
claims nothing (`RootsStay`), and where generators yield inside try the
properties name that exception, as in the run.

`ArraysProofs` proves, for arrays of every length and capacity, all elements and any
number of operations of the script:

* `AlwaysEachElementOnce`, `AlwaysSortSorts`: the invariants of run `arrays`. The second
  is the correctness of the heap sort of the base library.

Assumptions: elements are positive numbers, the bounds are naturals, and an array the
program starts with lies in allocated places. In the heap sort of the code
the children of place p are 2p and 2p + 1, so that place 0 is its own child and has one
other. The invariant says of a sort: root, child and bottom lie in the array that was there
at the start, also when a callback has made it longer; as long as no callback
has touched it, the array has the elements it had, each as often (`Counts`, kept by every
`Exchanged` pair). With ObjCmp, from the place sifted last on, no element is larger than
the one above it, except at the root being sifted (`HeapBut`); what is above that root is
not smaller than what is below it (`Bridged`), without which exchanging the root with
its child could break the order above; the child chosen is the largest
(`Largest`); and the places above bottom hold their final elements, none smaller
than any before it (`TopSorted`). The largest element is then the first, by the least
counterexample (`HeapTop`), and the exchange with the last place of the heap
extends the sorted end. Of a walk it says that in the callback the arguments lie on the
array and the closure, that what was passed so far is as long as the loop index says and, in an
untouched array, the beginning of it. The guard that keeps compare functions from
shortening the array (see the findings) is a hypothesis of the sort theorem, as it is
of the run.

`ObjectsProofs` proves, for every set of keys, every starting heap that could have been
built, all outcomes of closures and all bounds on objects, handles and calls:

* `DelegatesNeverCycle`, `InstancesAlwaysFit`, `HandlesStaySound`, `CallsEndCleanly`,
  `WritesReadBack`: the five invariants of run `objects`.

Assumption: the heaps a behaviour may start from are well formed (`SettingsAssumption`, with
`Linked` and `Fits`), as the one of a machine that was just opened is (`FreshHeap`).
The inductive invariant `IInv` has four parts. `Linked`: objects have the parts of their
type and refer to objects of the right type; the base of a class is older than the class;
any set of tables that is not empty holds one whose delegate is outside it. `Fits`: an instance has as many
values, and as much user data, as its class says, its class is locked, and so is the base
of every locked class. `HandlesKept`: in each class it serves, a handle of a field names that
field and one of a method is in range. The fourth part is `EndsCleanly` itself: it is about
the last call only. `InstancesFit` alone is not inductive, as a new class copies its base,
and a new instance locks a class whose base could stay open; the lock must close under bases.

A call changes at most the objects it names and adds at most one: `Steps` says
how an object may change (`Grows`: methods are never lost, fields keep
their places, a locked class gets no fields) and what a new one looks like (`Made`).
`StepsLinked` and `StepsFits` show once that such a step keeps the invariant, `KeptStep` that
it keeps handles, and there is one lemma for each function of the host interface that it
takes such a step and leaves the stack and the error as it must. Only
sq_setdelegate does something else; `SetDelegateLinked` shows for it that the new chain
still ends. That the recursive functions behind Get, Set, the bases of a
class and the search in SetDelegate exist at all is proved from chains that end
(`Recursion`), and what they compute by the same argument (`DelegateInduction`): the
tables of which a claim holds are all of them, since those of which it fails would
include one whose delegate is not among them. In this way Get is shown to change
only the stack, the error and what metamethods entered; Set to leave the stack as it was unless
some `_set` along the chain declined; and `TableReadsBack` follows an assignment and the
reading after it to the same table of the chain, because no table on the way gained or lost a slot.

Only model-checked: by nature the liveness of foreach and sort; and all of `Heap`,
`Compiler`, `Machine`, `Meaning`, `Bytecode`, `Lexer` and `Regex`.
These use RECURSIVE operators for cascades, trees, scanning and matches,
which the prover cannot reason about, and a meaning of programs that is itself recursive;
what they claim is by induction over the text, the program or the cascade.

## Not modelled

`PROJECT.json` lists every part with its status. Left out:

* compiler: yield, class attributes and static members, enum, using, namespaces,
  typed declarations, the tree it builds beside the code, floats, bitwise
  operators, functions that run out of registers;
* interpreter loop: floats, division, bitwise operators, wrap-around, user data;
  metamethods are in `Objects`, generators in `Exec`;
* heap: classes, instances, user data, native closures, prototypes and generators
  as objects; their marking and finalizing follow the pattern of tables. Release
  hooks and allocation failure;
* calls: error handlers and debug hooks, which return to where they were called;
* the value stack's place in memory: its growth, RelocateOuters, and
  `sq_reservestack`, which reallocates it without relocating open outers
  (sqapi.cpp:1068); in every model the stack is indexed, so its place does not show;
* streams and blobs of the standard library and the wrappers of the C library;
* static analyser, reflection, debug support, memory allocation, editor and test driver: views,
  conversions and user interface; the LLVM back end, whose meaning lies in LLVM.

## Plan

1. Proofs: reference counts of `Heap`, with cascades written as steps.
2. Model: generators and classes as objects of `Heap`, with Yield clearing captured
   slots; a module for the value stack and `RelocateOuters`; yield in `Compiler`
   and `Machine`; metamethods in `Machine`; blob streams.
