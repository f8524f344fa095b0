# Verification of stricc

TLA+ models of `stricc`, a compiler for a safe subset of C, and of the run-time library every
program it compiles is linked with (`libstricc_rt`). Paths below are relative to the repository;
`lib.rs` is `runtime/src/lib.rs`, `codegen.rs` and `typechecker.rs` are in `stricc/src/`.

## 1. Inventory

| Component | State it keeps | Operations | Interacts with |
|---|---|---|---|
| Runtime tables and allocator wrappers (`lib.rs`) | `NEXT_KEY`, `KEY_TABLE`, `SHADOW_TABLE`, one mutex each | `malloc` `calloc` `aligned_alloc` `realloc` `free`, `__stricc_rt_check_bounds`, `__stricc_rt_shadow_store/load`, `__stricc_rt_get_next_key`, `__stricc_rt_register/deregister_stack_key` | called from every thread of the compiled program and of the libraries it links; calls the system allocator |
| Pointer metadata (`codegen.rs`: `get_expr_pointer_metadata_with_val`, `store_pointer_metadata`) | a `(base, size, key)` triple per local pointer, `SHADOW_TABLE` for pointers in memory | declare, assign, load, store, `&x`, member and dereference stores | reads and writes the runtime tables |
| Scope instrumentation (`codegen.rs`: `gen_stmt`, `gen_function`) | `variables` (one flat map per function), `variable_keys`, `block_locals`, `function_locals`, `stack_allocations` | block entry and exit, declaration, return, fall-through return | emits `register/deregister_stack_key`, `shadow_store` |
| Escape analysis (`typechecker.rs`, `symbol_table.rs`) | scope stack, `local_vars`, `scope_depth` | `Compound`, `For`, `Decl`, `Assign`, `Return` | first line of defence before the stack keys |
| FFI sandbox (`lib.rs`, `codegen.rs` `Call`) | one guarded copy per pointer argument, canary, `IN_FFI_CALL` | `sandbox_in`, `ffi_enter`, call, `ffi_leave`, `sandbox_out`, SIGSEGV handler | external libraries |
| Bounds and library checks (`check_bounds`, `find_metadata`, `memcpy`, `strlen`, `strcpy`, `strcmp`, `memset`, `memmove`, ctype) | none of their own | range checks over `SHADOW_TABLE` | runtime tables |
| printf validation (`__stricc_rt_validate_printf`, `typechecker::validate_format_string`) | argument cursor | walk of the specifiers | codegen supplies the type ids |
| CFI (`__stricc_rt_cfi_register/check`, `gen_function` of `main`) | `CFI_TABLE` | register at start of `main`, check before an indirect call | codegen's signature hashes |
| Runtime guard and bootstrap allocator | thread-local `in_runtime` flag, `BOOTSTRAP_INDEX`, `INITIALIZING` | `RuntimeGuard::enter/drop`, `bootstrap_malloc/realloc`, `init_real_functions` | `dlsym`, the allocator wrappers |
| Type checker (types, definite return, sequence points, static bounds) | symbol tables, error list | `check_stmt`, `check_expr`, `check_definite_return`, `check_conflicts` | driver |
| Parser and lexer | token cursor, error list | recursive descent, `synchronize` | driver |
| Driver and CLI | pipeline stage, temporary files | forbidden-construct check, preprocess, parse, typecheck, codegen, emit, link | `clang` |
| Arithmetic lowering (`codegen.rs`) | none | overflow traps, division guard, shift mask, float-to-int guard | LLVM |

What is hard in each, and what makes it correct:

* **Runtime tables.** Three mutexes taken one at a time by every thread, in different orders;
  addresses that the system allocator hands out again; a `realloc` in eight separate sections,
  one of which can fail. Correct: a key is the key of one object for ever; a block has one
  keeper, so the system allocator never gets it twice; an access that passed the check is over
  before the object goes; nothing legal is reported; no deadlock; every call ends.
* **Pointer metadata.** One shadow entry per address for two purposes (the block that starts
  there and the pointer stored there); metadata stored after the pointer itself. Correct: the
  metadata found for a pointer is that of the object it was made for.
* **Scope instrumentation.** Calls are emitted in text order and run in control-flow order; a
  variable has one address in all iterations and calls. Correct: a variable has its key exactly
  while it is alive, on every path, and a name means what C says.
* **Escape analysis.** Correct: it rejects what the run-time keys would have to catch.
* **FFI sandbox.** A global flag and per-argument copies around code nobody controls. Correct:
  the flag is set while some thread is inside a library; what the library wrote arrives.
* **Bounds checks.** Machine arithmetic, and a table searched in an unspecified order. Correct:
  an access is let through exactly if it lies in the object.
* **Arithmetic lowering.** Signedness taken from one operand, one guard per operator. Correct:
  the code computes what C computes, in whatever order C allows, and aborts where C is undefined.
* **printf validation.** Two walks, one static and one dynamic. Correct: they agree, and consume
  as many arguments as the C library will.
* **CFI.** Registration only in the translation unit of `main`. Correct: an indirect call goes to
  a function of the signature of the call.
* **Guard and bootstrap.** Re-entrant allocation while `dlsym` runs, on several threads.
  Correct: no two callers are given the same bytes; the guard is down when nobody is inside.
* **Type checker, parser, driver.** Correct: scopes are balanced, a function accepted by
  `check_definite_return` returns, a tree is what was written, error recovery makes progress.

## 2. Modules

| Component | Modules | Run |
|---|---|---|
| Runtime tables and allocator wrappers | `RuntimeHeap`, abstract `TemporalKeys`, proofs in `RuntimeHeapProofs`, `RuntimeHeapDiscipline` | `heap_*` |
| Scope instrumentation, escape analysis | `StackScopes`, proofs in `StackScopesProofs` | `scopes_*` |
| Pointer metadata, bounds check | `PointerMetadata`, `BoundsCheck`, proofs in `PointerMetadataProofs` | `pointers` |
| FFI sandbox | `FfiSandbox`, abstract `DirectCalls`, proofs in `FfiSandboxProofs` | `ffi_calls` |
| Runtime guard and bootstrap allocator | `RuntimeEntry`, proofs in `RuntimeEntryProofs` | `runtime_entry` |
| Parser | `Parser` against the grammar in `Syntax` | `compile_unit` |
| Type checker | `TypeChecker`, proofs in `TypeCheckerProofs` | `compile_unit` |
| Driver | `CompileUnit` composes `Parser` and `TypeChecker` | `compile_unit` |
| Sequence points, arithmetic | `Expressions`; `Arithmetic`, proofs in `ArithmeticProofs` | `expressions` |

The `MC` modules add symmetry sets and the sources `compile_unit` is run on. `PointerMetadata`
extends `BoundsCheck`, whose `check_bounds` is the same function `RuntimeHeap` splits into its
mutex sections; `RuntimeEntry` has the tables of `RuntimeHeap` as one set under one mutex, since
what it asks is who gets there.

Left to do: the library checks that search `SHADOW_TABLE` by range (`find_metadata`).

## 3. RuntimeHeap

### State and steps

| Model | Code |
|---|---|
| `nextKey`, `keyTable`, `shadowTable` | `NEXT_KEY`, `KEY_TABLE`, `SHADOW_TABLE` (`lib.rs:179-197`); no entry is `NoKey` / `Absent` |
| `lock` | the holder of each mutex, where a guard is kept over several steps |
| `heap`, `fault` | the system allocator: its blocks, and whether it was given one that is not its own |
| `ptrs`, `owned`, `frame` | the program: every pointer it has ever had, those it has yet to free, the stack variables of its threads |
| `pc`, `ctx` | where a thread is inside a call and the locals of that call |

A step is what a thread does from one `lock()` to the next. `malloc` keeps its guards to the end
of the function (`lib.rs:580-594`), so `MallocDrawKey`, `MallocRegister` and `MallocShadow` take
one mutex each and the last gives all back. `free` drops `KEY_TABLE` at the end of the lookup
(629-632) and keeps `SHADOW_TABLE` while it calls the system allocator. `realloc` (704-755) is
`ReallocLookup`, `ReallocOldSize`, `ReallocRevoke` (each its own section), `ReallocShadow`
(`SHADOW_TABLE` from here on), `SysRealloc` or `SysReallocFails`, then `ReallocDrawKey` and
`ReallocRegister`, or `ReallocRestore`. `check_bounds` is `BeginAccess` (what it decides without
the table), `CheckKey`; the access itself and, for the store of a pointer, `StoreShadow` are
later steps, as in the emitted code (`codegen.rs:1351-1407`, 2368-2386). A stack variable is
declared by `CallDecl`, `GetNextKey`, `RegisterStackKey` and ends with `DeregisterStackKey`.
After a failed check the thread is at a label of `Aborting` until `Abort` ends the process;
meanwhile the other threads go on, as they do while a diagnostic is printed.

`calloc` and `realloc(NULL, n)` are `malloc` with another name, `realloc(p, 0)` is `free`. A
wrapper that returns before it reaches a table is left out. `SysReallocFault` stands for what the
system's `realloc` does with a block that is not its own, which is undefined: the process stops
there with `fault` set.

`Disciplined` programs have no data race on an object and release only what they own, at most
once: what is promised to a correct program is checked on them. The others release and access
any pointer they ever had: what is promised against them is checked there.

### Properties and runs

| Run | Program | Shows |
|---|---|---|
| `heap_disciplined` | 2 threads, malloc, free, dereference, stack variables | `TypeOK`; `NoFalseAlarm`: no legal release or access is reported; `NoCircularWait`: of any threads that are blocked, one waits for none of the others; `CallsComplete`: every call ends. Deadlock is checked. |
| `heap_realloc` | the same with realloc, two sizes | `AccessLive`, `ReleasesNamedBlock`, `RestoresSize`, `AllocationMetadata`; the tables implement `TemporalKeys`; `NoFalseAlarm`: a legal use of a block is never reported, also after a failed `realloc` has left it where it was |
| `heap_racy` | 2 threads, any pointer, no realloc | `OneKeeper`, `SystemHeapSafe`: of two racing frees one aborts; `KeysNameOneObject` |

Bounds: two threads are enough for every race of the code, which has no more than two parties
(the counter examples below need at most two); two blocks let an address be handed out again
while the other block is live; one size suffices unless a size is compared with another (realloc:
two); 3 calls per thread (`MaxCalls`; 2 in `heap_lock_order`) allow allocate, release, allocate again at the same
address and use of the stale pointer. Alignments 0, 3 and 8 are a zero, one that is not a power
of two, and a valid one.

`heap_realloc` and `heap_lock_order` do not check for deadlock: the lock
order of `realloc` really makes one possible (`heap_lock_order`). In `heap_realloc` all safety
properties hold up to that point.

**Fairness.** `FairSpec` assumes weak fairness of each thread's next step inside the library: a
thread that could go on is scheduled. It does not assume that a mutex is handed over fairly
(`std::sync::Mutex` is not), and needs not: the number of calls is bounded, so a waiting thread
cannot be overtaken for ever. Nothing is assumed of a thread between calls.

**Refinement.** `Keys == INSTANCE TemporalKeys`: the live key of a place is its entry of
`KEY_TABLE`, except that between the revocation in `realloc` and the moment the system has moved
the block (or failed to) the key still counts as live: a failed `realloc` registers it again. A
key is drawn from the counter until it is registered; a thread accesses under a key from the
passed check to the end of the access. `TemporalKeys` forbids to retire a key that is being
accessed under, so the refinement holds for disciplined programs only.

### Where code and documents disagree

`heap_lock_order` is a run that TLC finds violated: `malloc` holds `NEXT_KEY` and `KEY_TABLE` and
waits for `SHADOW_TABLE`, `realloc` holds `SHADOW_TABLE` and waits for `NEXT_KEY`. The finding
quotes the document. The following have no run of their own; each is met by changing one constant
of a run.

* A second free of a pointer whose address has been handed out again releases the new block
  (`ReleasesNamedBlock`, one undisciplined thread): `free` sees the address and not the key
  (`lib.rs:631`; `README.md:115` says frees compare the keys).
* `free` racing `realloc` of one block: both reach the system allocator (`SystemHeapSafe`, two
  undisciplined threads with `realloc`), because `lib.rs:729` does not look whether the key it
  removes was still there (`docs/memory_model.md:63`).
* With `store` among the `Ops` of `heap_realloc`, `RestoresSize` does not hold: a pointer stored
  in the first word of a block replaces the block's shadow entry, and a failed `realloc` restores
  the size of that pointer's target.
* With `decl` and `free` in an undisciplined program, `SystemHeapSafe` does not hold: `free(&x)`
  finds the key of the stack variable, and `&x` goes to the system allocator.

### Proofs

For every set of threads and addresses, every size and alignment, every schedule and any number of
calls. The assumptions on constants are `AddrAssumption` and `DataAssumption`: the kinds of
addresses are disjoint, sizes are natural numbers less than `SizeMax`.

`RuntimeHeapProofs`, for any program, racy ones included:

* `TypeCorrect`: `TypeOK` is inductive: `LocalsSet` ties what a call reads to where it is.
* `KeysAreUnique`: `KeysNameOneObject`, by `TypeOK` and one lemma per kind of step on the set
  `Claims` of pairs (key, address) found anywhere: a step copies claims or adds one with a fresh
  key.
* `BlocksHaveOneKeeper`, `DoubleFreeStopped`: `OneKeeper` and `SystemHeapSafe` for programs that
  use neither `realloc` nor stack variables; with them both are false (the race with `realloc` and
  `free(&x)` above). The inductive invariant `HeapInv` adds to `TypeOK` and the two goals that
  calls are on heap addresses (`HeapOnly`): a free reaches the system allocator only as the keeper
  of the block, and only an allocated block has a keeper.
* `NoDeadlock`: `NoCircularWait`, circles of any number of threads, for programs without `realloc`,
  which alone takes the mutexes in another order (`heap_lock_order`). `LocksFollow` says which
  labels hold which mutex; with it a thread that holds one waits only for a later one of
  `NEXT_KEY`, `KEY_TABLE`, `SHADOW_TABLE`, so that of the threads of a circle the one that waits
  for the last of them is blocked by none.

`RuntimeHeapDiscipline`, for programs with `Disciplined = TRUE` that use anything, `realloc` and
stack variables included; without discipline each of these is false (section above):

* `AccessesAreLive`, `ReleaseIsOfNamedBlock`, `NoFalseAlarms`, `DisciplinedHeap` (`OneKeeper` and
  `SystemHeapSafe` once more, now with `realloc`). The inductive invariant `Inv` joins the goals
  with `Discipline`: no two pointers of the program have one key; what it owns has its key in
  `KEY_TABLE`; what each label may rely on (`LocalOK`, for instance that `KEY_TABLE` still has the
  key which the call looked up a section earlier); and that no other thread holds the pointer a
  call releases, nor a key that has been drawn (`Exclusive`). `LocalOK` is what a thread that gives
  a mutex back and takes the next one must not lose; `Exclusive` is why the others cannot take it.
* `MetadataIsRecorded`, `SizeIsRestored`: `AllocationMetadata` and `RestoresSize`, with the further
  assumption `"store" \notin Ops`: the store of a pointer into the first word of a block replaces
  the block's shadow entry, and then both are false. `ShadowInv` adds that shadow entries have the
  sizes of the system's blocks but while `malloc` is between the two tables (`Recorded`), that the
  sizes in locals are those of the blocks (`SizesKnown`), and `LocksFollow`, because the gap
  between the tables is visible to nobody who holds `KEY_TABLE`.

* `ImplementsKeys`: `Spec => ImplementsTemporalKeys`. Each step of the library is one of
  `TemporalKeys` (`Draws`, `Activates`, `Retires`, `Enters`, `Leaves`) or leaves its variables
  alone. The step that needs `Inv` is the retirement: no thread may be accessing under the key,
  which holds since whoever accesses has the pointer and whoever releases has it alone.
* `KeysNeverReturn` spells out what the refinement means for a key that has been retired
  (`KeysRetiredForGood`): no step of `TemporalKeys` takes it up again (`KeysStayRetired`), since
  keys are drawn from a counter and only a live key is entered under. It adds nothing to
  `ImplementsTemporalKeys` and has no run.

Only model-checked: `CallsComplete`, as liveness is out of the prover's reach.

## 4. StackScopes

The module compiles a function and then runs it. While `status = "compiling"` any statement of
`Forms` may come next; each action does what `check_stmt` does to its scopes and what `gen_stmt`
does to its maps, and appends the instructions that matter for stack keys to `code`. `Finish`
ends the body as `gen_function` does, `Reject` is the type checker's refusal of a function that
may end without its value. Then the `Run` actions execute `code`; `Call` enters the function
again in the same frame.

| Model | Code |
|---|---|
| `scopes`, `declared` | `local_vars`, a stack of maps (`typechecker.rs:168-283`, `symbol_table.rs`), and the number of declarations so far |
| `variables` | `variables` and `variable_keys`, one map for the function, which a block's end does not restore |
| `block_locals`, `function_locals` | the names to deregister at the end of a block and at a return; names, not allocas |
| a number in `Decls` | a declaration: its alloca, which is in the entry block, hence its address in every iteration and every call |
| `keySlot`, `pointer` | the frame: `<name>_stack_key`, and a pointer with its metadata |
| `keyTable`, `nextKey` | the runtime's tables, used by one thread here |
| `cell` | a pointer in memory that outlives the call, with its `SHADOW_TABLE` entry |
| `result` | what the caller gets; its metadata come from `shadow_load` |
| `alive`, `births` | not in the code: which instance of a variable is alive by the rules of C |
| `of` in a pointer | not in the code: the instance it was taken from |

Conditions of `if` and loops go either way; a dereference is `if (p) *p;`, so that a null pointer
ends no program before it gets interesting (the caller of `return p` does not test).
`Exit(release, ends)` is a group of calls of `deregister_stack_key` together with the end of the
lifetime of the variables in `ends`, which the model takes from the type checker's scopes.

| Run | Programs | Shows |
|---|---|---|
| `scopes_blocks` | blocks, `while`, `for` with its own variable, pointer copies, `return` at any place | `TypeOK`, `AccessLive`, `NoFalseAlarm`, `DeadVariableHasNoKey`: sibling blocks that reuse a name and iterations that reuse an address are told apart, and no live variable loses its key from one iteration to the next |
| `scopes_calls` | `if`/`else`, early returns, `return *p`, `return p`, a pointer saved in memory, a second call, a caller that dereferences the result | `AccessLive`: no path leaves a key behind that a stale pointer would pass with, and a pointer of the first call does not pass in the second, where the addresses are the same |

In these runs no block redeclares a visible name (`Shadowing = FALSE`). All functions of up to
`MaxStmts` statements are checked, 5 in `scopes_blocks` and 7 in `scopes_calls`. A pointer that
goes stale in a block or an iteration takes five (declare a pointer, open a block, declare,
dereference, take the address); a stale pointer met in a second call takes seven (declare a
pointer, declare, load, dereference, take the address, save, return). `MaxKeys` = 4 bounds the
declarations executed, hence the iterations: the pointer and three iterations, or two variables in
each of two calls. Deadlock is checked; `Over` is the end of a program, a process, or the bound.
A function that returns a value must end with a return, so `scopes_calls` also reaches `Reject`.

What the properties leave out, because the code does not keep it there, and the other
disagreements found:

* `scopes_returned_value`, a run: `return *p` aborts for `p = &local`, because the return
  deregisters the locals before it evaluates its expression. `NoFalseAlarm` is therefore not
  checked in `scopes_calls`.
* `return p` with `p = &local` gives the caller a pointer with wildcard metadata, which passes
  every check (`codegen.rs:3040-3045`): `AccessLive` exempts the pointer a call returned.
* The variable of a `for` loop keeps its key until the enclosing block ends
  (`codegen.rs:1178-1180`), and with two `for (int i ...)` loops in one block the first counter's
  key is never given back, as one name is deregistered twice: `AccessLive` exempts counters.
* After an inner block redeclares a name, the name keeps meaning the inner variable
  (`codegen.rs:903`), whereas `symbol_table.rs:3-4` has inner bindings shadow outer ones only
  inside. With `Shadowing = TRUE`, `DeadVariableHasNoKey` fails: both names deregister the inner
  variable, and the outer one's key stays in `KEY_TABLE`. No run or theorem but `ScopeTypes` is
  about functions that shadow a name, so nothing is claimed of how names resolve: without shadowing
  a visible name has one declaration to mean.
* `PLAN.md:130` says that assigning the address of a local to a pointer of an outer scope is
  rejected at compile time. The assignment case of the type checker (`typechecker.rs:605-618`)
  compares types only, and the check in a declaration (197-212) can never fire, so the model has
  no such rejection.
* `break` and `continue` are parsed and type-checked, but `gen_stmt` emits nothing for them.

Left out: arrays and variable-length arrays, parameters (wildcard metadata), the shadow entries
of pointer variables themselves, statements after a return in the same block.

### Proofs

`StackScopesProofs`, for functions of any number of statements, declarations and names, any depth
of nesting and any number of iterations and calls (every `MaxStmts`, `MaxCalls`, `MaxKeys`,
`Names`), from `NamesAssumption`:

* `ScopeTypes`: `TypeOK`, with shadowing too. The inductive `TypeInv` adds that every jump of a
  statement that was closed is into the code and those of open statements are at their heads
  (`Jumps`), and that each open statement opened the scopes it is going to close: `lev[k]` is how
  many there were when `k` statements were open (`Levels`; a `for` has two).
* `ScopesReleaseKeys` (`DeadVariableHasNoKey`),
  `PassedAccessesAreLive` (`AccessLive`), with `~Shadowing`, and `LiveAccessesPass`
  (`NoFalseAlarm`), with `"return_deref" \notin Forms` besides. The hypotheses are where the
  properties are false of the code (list above), and both runs satisfy `~Shadowing`.

The three have one invariant, `FlowInv`, which says of the compiler's output what a verifier of
byte code would: there is an assignment `at` of a state to each instruction, the variables that
are alive and those that have their key, such that every instruction leads from its own state to
the next one's, a jump to that of its target, and a `ret` is reached without keys (`Flow`). What is
true before code is emitted makes it possible to choose the next `at` (`Reached`): at the end of
the code the variables of all open scopes are alive and keyed, and each branch that waits for its
target was emitted in the state around its statement, which is the state after it. That closing a
block releases exactly its own variables, although codegen deregisters by name through a map that
no block's end restores, needs `Scoped`: a name is in at most one open scope, the map has for it
what that scope has, and each block's locals are the names of its scope. Then the function's run
follows `at` (`Agrees`), and `Keys` relates what the code keeps to what it does not: a living
variable's slot has the number of its instance, a key in `KEY_TABLE` is that of the latest
instance, and a pointer's key is the instance it was taken from.

`Flow` also shows why the counters are exempt: the exit of a loop ends a variable without
releasing it, and `ends \ release` is within `Counters`.

## 5. PointerMetadata and BoundsCheck

`BoundsCheck` is `__stricc_rt_check_bounds` with its sums modulo the word (`WordLimit`): `Plus` is
the machine's sum, `InBounds` the comparison, `Current` the comparison of keys, which a key of 0
skips, as does a wildcard. `PointerMetadata` is a program of any statements over local pointers and
a heap: `p = e`, `p += k`, `++p`, `*p`, `*p = e`, `p = *q`, `p = q->m`, `q->m = e`, `(*q)++`,
`malloc`, `free`.

| Model | Code |
|---|---|
| `value`, `meta` | the alloca of a local pointer, and its `<name>_base`, `_size`, `_key` slots |
| `mem`, `shadow` | heap cells that hold pointers, and `SHADOW_TABLE` |
| `keyTable`, `nextKey` | the tables; `Malloc` and `Free` are the wrappers of `RuntimeHeap` in one step each, as there is one thread |
| `MetadataOf`, `LoadedFrom` | `get_expr_pointer_metadata_with_val` and `load_shadow_metadata` (`codegen.rs:2880-3063`), which work from the expression, after the value has been stored |
| `object`, `cellObject` | not in the code: the object each pointer was made from |
| `outcome` | not in the code: whether the last access was right to pass or to be reported |

`pointers` checks all programs of seven statements: two pointers, one block address that is reused,
blocks of one and two cells, offsets +1 and -1 (7 modulo 8), a local, a constant and a string, four
keys. Two cells let a pointer lie beside the block's own shadow entry; seven statements allow
allocate, store, free, allocate again, load, move, access. `MetadataTrue` says the metadata found
are those of the pointer's object, or a wildcard; `MissesNothing` and `NoFalseAlarm` are the two
halves of the check's exactness. The last statement ends the program, hence no deadlock check.

The three, and `TypeOK`, are theorems (`PointerMetadataProofs`), for every word size, layout, set of variables
and number of statements: `TypeCorrect`, `MetadataAreTrue`, `ChecksMissNothing`,
`ChecksAreSilent`. The inductive invariant `IInv` adds to the goals `ObjectsFit` (the object of
every pointer, in a variable or in memory, ends below the word's limit) and `Verdicts`; the lemma `CheckIsExact` says what a passed or failed check means for metadata that
describe their object. Assumptions: `WordAssumption`, `LayoutAssumption` (the regions' addresses do
not wrap, none is null) and, but for `TypeCorrect`, `SelfLoads = FALSE`.

What does not hold, and how it is kept out:

* `p = *p` and `p = p->next` look the metadata up under the address `p` has after the assignment
  (`codegen.rs:3029`; `PLAN.md:227`): with `SelfLoads = TRUE`, `MetadataTrue` fails.
* An access whose end wraps passes the comparison (`lib.rs:412`): `MissesNothing` exempts it.
* `*p++`, `*(p = q)`, parameters and conditional expressions have wildcard metadata; `p->m` and
  `(*p)++` are not checked at all (`README.md:114` says every dereference is). The model has them
  as they are; `MissesNothing` is about accesses that are checked.
* Outside the model: `pp = &p; *pp = q` leaves the slots of `p` as they were; a pointer stored in
  the first cell of a block replaces the block's own entry (see section 3); `memcpy` copies no
  shadow entries; entries inside a block outlive it and `find_metadata` finds them; a global used
  in a function and `&` of anything but a name panic `codegen`.

## 6. FfiSandbox

Two threads call functions the program only declares. A call goes `SandboxIn` per argument,
`Enter`, the library, `Leave`, `SandboxOut` per argument, `Return`; a library writes what it can
reach, faults at a guard page, or calls the program back, which may call again.

| Model | Code |
|---|---|
| `memory` | the program's objects, next to each other |
| `calls[t]` | the emitted code of the calls `t` is in (`codegen.rs:2500-2667`): stage, arguments, what was given for them |
| `Copy`, `DataCells` | the mapping between two guard pages and the canary behind the data |
| `NullGiven` | `sandbox_in` when `mmap` fails: the library is given NULL and nothing is copied back |
| `in_ffi_call` | `IN_FFI_CALL`, one for the process |
| `process` | running, or the message of the abort; `sigsegv_handler` chooses it by the flag |

`ffi_calls` checks that the flag is clear when no thread is between enter and leave
(`FlagClearWhenIdle`), that what is mapped belongs to an argument of a call in progress
(`MappingsHeld`), that every call returns or the process stops (`CallsReturn`), and that the whole
implements `DirectCalls`, where a library writes the program's memory itself, only
the cells it was lent, and does not return once it has strayed beyond them. The mapping reads a lent
cell from its copy. Two objects of one cell, a page of three cells (so that slack lies between canary
and guard page), two arguments, two calls, nesting of two.

**Fairness.** Weak fairness of the emitted code, strong fairness of `Leave`: a library that calls
back again and again still returns in the end. Without the second a library may never return, and
nothing in the code could make it. The program between calls may stop (no deadlock check).

### Proofs

`FfiSandboxProofs`, for any number of threads, objects, arguments, calls and libraries that call
back, and any sizes of an object and a page (`FfiAssumption`):

* `SandboxTypes`, `FlagClears`, `MappingsAreHeld`: `TypeOK`,
  `FlagClearWhenIdle`, `MappingsHeld`. The inductive invariant `FfiInv` has the stacks of calls
  typed (`StackOK`), every call but the innermost in its callback and copies only of arguments that
  `sandbox_in` has come to and `sandbox_out` has not (`CallsOK`): hence the step that overwrites
  what was given for an argument overwrites no copy on the way in, and on the way out loses one
  exactly when it unmaps one.
* `ImplementsCalls`: `Spec => ImplementsDirectCalls` under the assumption
  `Separated`, which is `Interior = FALSE` and `Sharing = FALSE`; with either the statement is
  false (below). `SeparateOK`, that no object is an argument twice, is invariant with `FfiInv`.
  From it and `Apart` (the extents of objects are disjoint) follow `OneCopy`, that no cell has two
  copies, and `ViewIs`, that `View` is a function: the cell's copy, or the memory where there is
  none. Then `sandbox_in` and `sandbox_out` leave `View` as it is, a write into a copy changes it in
  one lent cell, and a write behind it strays or does nothing.

Only model-checked: `CallsReturn` (liveness).

What does not hold, and how it is kept out:

* Two threads, or one object in two arguments: with `Sharing = TRUE` the last copy written back
  wins and updates are lost (`lib.rs:1309`; `PLAN.md:117`).
* With `Interior = TRUE` a copy starts at the pointer but has the size of the object: it reads, and
  writes back, what lies behind the object.
* The flag is one for all threads: while thread 1 is in a library, a return of thread 2 clears it,
  and a fault of the library is reported as a stack overflow. The model has this; no property says
  otherwise, as both messages end the process.
* A failed `mmap` gives the library NULL; a pointer the library returns points into an unmapped
  copy; arguments with wildcard metadata are passed as they are (`README.md:156`,
  `docs/differences.md:24`).

## 7. RuntimeEntry

How a call of an entry point gets to the tables. Each entry point has its own search for the real
functions (`INITIALIZING`, `dlsym`), during which allocations come from the bootstrap buffer; then
the guard marks the thread, and calls made under it go to the real functions untracked.

| Model | Code |
|---|---|
| `real`, `initializing` | `REAL_MALLOC` etc. and the flags of each entry point |
| `index`, `bootstrap_malloc`, `bootstrap_bump` | `BOOTSTRAP_INDEX`, read and written in two steps as it has no lock |
| `tls_key`, `keys`, `specific` | `TLS_KEY`, the keys `pthread_key_create` made, each thread's values |
| `stack[t]` | nested calls: `dlsym` and growing tables (`DlsymCalls`, `Grow`) call the allocator again |
| `mutex`, `table`, `heap` | the tables as one, and the real allocator |
| `blocks`, `raced` | not in the code: blocks in use and by whom; two threads were in `bootstrap_malloc` at once |

`runtime_entry` has two threads with two calls each, a buffer that holds two blocks of three cells
aligned to two (so that the second needs alignment and a third does not fit), one nested call of
`dlsym`, two growths. `FlagTellsTheTruth`: a thread counts as inside exactly while it is.
`OwnBlocksAccepted`: whichever of the three ways a block came from, its release takes the same.
`BootstrapBlocks`: they are aligned, in the buffer, and disjoint outside the race. `HolderGoesOn`:
whoever holds the tables is in a call and does not wait for them. `CallsReturn`: the search and
`dlsym`, growing tables and the allocator do not call each other for ever. **Fairness:** a thread
inside a call is scheduled; the mutex need not be fair as calls are bounded.

`pthread_setspecific` is taken to call nothing. That is so of glibc for the first 32 keys of a
process, whose values it keeps in the thread's own descriptor. For a later `TLS_KEY` it allocates
the first time a thread sets it, while the flag is not yet set (`lib.rs:265`), so the guard enters
itself without end: no property covers that, and `CallsReturn` is about the other case.

All five safety properties are theorems (`RuntimeEntryProofs`: `EntryTypes`, `FlagIsRight`,
`OwnBlocksAreAccepted`, `BufferIsSound`, `NobodyWaitsForItself`), for any number of threads and calls, any depth of nesting
and any buffer, with the assumptions the module declares and no others. The inductive invariant
`EntryInv` says of every frame of every stack what its stage implies (`FrameOK`); that only `dlsym`
and a growing table have called the allocator (`CallersOK`), so that there is at most one frame in
the runtime per thread; that a thread's flag is set under `TLS_KEY` and no other key while it has
such a frame (`FlagsOK`, with `OwnKeys` for the threads that lose the race to make it); that every
block of the real allocator has one owner, a caller or a frame, and its key exactly from its
registration to its release (`HeapOK`); and where the blocks of the buffer lie (`BufferOK`, and
`BufferOrder` unless there was the race on `BOOTSTRAP_INDEX`). `NobodyWaitsForItself` adds
`MutexFollows`: the mutex is held exactly by the thread that has a frame in its section. That frame
is one in the runtime, so the flag is set, and what is called above it goes past the mutex.
`CallsReturn` is model-checked only.

Met while modelling and not covered by a property: two threads in `bootstrap_malloc` at once are
given the same bytes (`lib.rs:294`, exempt through `raced`); `bootstrap_realloc` copies the new
size from the old block; memory of `posix_memalign`, which is not wrapped, is reported as a double
free when it is freed; `realloc` in the search returns NULL and `free` in it leaks; blocks `dlsym` took from the
real allocator before the guard worked are released through the tables.

## 8. CompileUnit: Parser and TypeChecker

`Parser` works on tokens as `parser.rs` does: `calls` is the stack of `parse_stmt` calls that have
not returned, expressions and types are parsed in one step by functions named as in the code, and
`Fail` unwinds to the innermost block or to `parse_program`, where `synchronize` skips. `Levels`
holds the ten functions from `parse_logical_or` to `parse_multiplicative` as a table, since they
differ in their operators only. `Syntax` is the reference: trees as C defines them, and the tokens
each is written as, with parentheses where C needs them.

`TypeChecker` is the walk of `check_program` over a program chosen as it goes: scopes, depths, the
unsafe flag, definite return. All kinds of type error of an expression are one (`IllTyped`). As
history it keeps what C has in scope and judges each function alone.

`CompileUnit` is the driver: the parser to its end, its verdict, the checker, its verdict. It
extends `TypeChecker`, whose `Next` is one stage of it. The program of the checker is any, so that
the two need not be multiplied.

`compile_unit` starts from some 53 thousand distinct token sequences: every operator inside every other,
postfix and unary chains, types, declarations, statements nested two deep; and seven kinds of
program with each token replaced by one of ten, left out, or the rest cut off. The checker's part
is all programs of at most two functions and four statements and globals, with one name (no table
is ever searched for two names at once). Two functions are what it takes for one to see what
another left behind; four statements open an `__unsafe` or an `if` with `else`, fail in it, and use
the next function.

* `ReadsAsWritten`: the tree is the one the text was written from.
* `NothingSkipped`: accepted text has every token in the tree.
* `GeneratesLegalCode`: the driver goes on to code generation only with a program the parser has
  recorded nothing for, whose functions C allows one by one and which return on every path.
* `CompilationEnds`: the parser never stays at a token. **Fairness:** the compiler takes its next
  step; it is one thread and waits for nothing.

Of the checker, whose part of the run begins once the parser has found nothing:

* `VerdictIsLocal`: what one function leaves behind (open scopes, the unsafe flag, names) changes
  no verdict on the program. It is a statement about the whole program and not about each function:
  after an error the flag may be left set, and a cast in the next function pass.
* `NeverFallsOff`: an accepted function that returns a value returns on every path, unless the
  analysis relied on the body of a loop or a `switch` (`typechecker.rs:954`), where it may not.
* `NoneForgotten`: whatever earlier errors left open, a name C has in scope is found.

All three, and `TypeOK`, are theorems of the checker's `Spec`, for programs of any length and any names
(`TypeCheckerProofs`: `VerdictsAreLocal`, `ReturnsAreDefinite`, `NothingIsForgotten`, `WalkTypes`).
The inductive invariant `WalkInv` has four parts. `TablesOK`: the tables have C's scopes on top of
those that errors left open, the globals are in one of the latter, and before the first error there
are none of the latter. `FramesOK`: the depth is that of the open statements (`Balanced`, with the
depth below each statement as a witness); the unsafe flag, before the first error, is set exactly
under an `__unsafe`, and what each statement saved is what was outside it (`FlagOK`); and nothing
the return analysis takes for certain can be passed (`Flow`). `BetweenFunctions`: outside a
function C has the global scope only and, before the first error, the flag is clear.
`SameVerdict`: the verdicts agree so far. The history can be compared with the tables only before
the first error; after it `SameVerdict` stays true because neither side takes an error back.
`TypeOK` is proved and not part of a run. `GeneratesLegalCode` is model-checked only, as it speaks of
the parser.

Met and kept out of the texts or properties: a parenthesised expression takes no postfix
(`(*p).m`, `(f)(x)` are rejected); an error at a `}` swallows the brace, and `synchronize` may then
swallow the next statement unreported; `signed short`, `long long`, `int const` and enumeration
definitions are rejected; two declarations of one name in one scope are accepted; diagnostics after
the first may be missing or spurious, as the scopes of an abandoned function stay open, though the
verdict is right; a function that falls off its end returns zero (`codegen.rs:706-748`).

## 9. Expressions

The sequence-point check (`Conflict`, `Effects`) and the code for integer expressions (`Gen`,
operator by operator with its guards), against C: `Steps` evaluates an expression in any order of
operands C allows, with side effects done any time before the next sequence point, and `Undefined`
is C's. `expressions` takes all expressions of two operators, and three where the outer is an
assignment, `&&` or `+`, over two variables of `int` or `unsigned` of three bits that hold the
smallest or the largest `int`, -1 (the largest `unsigned`) or zero: the edges at which division and
overflow differ are all reached.

* `OneOutcome`: an accepted expression ends, in every order, as the generated code does.
* `UndefinedAborts`: where C has no outcome the code aborts.

The operators are in `Arithmetic`, whose constant is the greatest `int` (`MaxInt`) rather than a
width, since the provers know no powers. `OperatorsAgree` says of every operator and all operands
that the guards abort exactly where C has no result and that what they let through does not wrap.
It speaks of no state, and instead of a run `ArithmeticProofs` proves it (`GuardsAreExact`) for
every `MaxInt > 0`, and so for the 32 bits of the code: quotients and
remainders of C are in range but for the least `int` divided by -1 (`GuardSuffices`, from bounds on
`\div` and C's rounding towards zero), and values in range are those of their own low bits
(`WrapInRange`).

Met and kept out of the generated programs (`README.md:103`, `PLAN.md:119-123`): `+` with a `bool`
on its left is not checked; a literal on the left of an `unsigned` makes the operation signed, and
comparisons take their signedness from the left operand; `&&` and `||` evaluate both operands, so
the right one is pure here; unary minus is not checked and `~` does nothing; shifts are masked and
not trapped; `(*p)++` is not tracked as an effect; `char c = 1` stores four bytes
(`codegen.rs:1055-1057`); `if (p)` with a pointer panics; the size of a variable-length array is
evaluated twice; operands of different widths give invalid IR.

## 10. Not modelled

* Library checks (`find_metadata`, `memcpy`, `memset`, `memmove`, `strlen`, `strcpy`, `strcmp`,
  ctype): loops over bytes between two calls of the same bounds comparison; `find_metadata` walks
  the table in an order the hash map chooses, so that what it finds after a block has been freed is
  not determined.
* printf validation: one pass over characters, without state between calls.
* CFI: one table that is filled at the start of `main` and read before an indirect call.
* Casts, floating point, shifts, mixed widths and the float-to-integer guard.
* The lexer: characters to tokens, without state between tokens.
* Preprocessing, forbidden constructs, linking, the command line: calls of `clang` and of the file
  system in a fixed order; temporary files are left behind on errors.
* Typing rules of expressions: a table from the types of the operands to a type, represented by
  `IllTyped`.

What is only model-checked:

* Liveness: `CallsComplete`, `CallsReturn` (twice), `CompilationEnds`.
* `ReadsAsWritten`, `NothingSkipped`, `GeneratesLegalCode`: the functions of `Parser` and `Syntax`
  recur over tokens and trees, and what they return for every input would need induction over data.
* `OneOutcome`, `UndefinedAborts`: `Gen` and `Steps` recur over expressions; what each operator
  does is proved (`GuardsAreExact`).

All other safety properties of the runs are theorems.
