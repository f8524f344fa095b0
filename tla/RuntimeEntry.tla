---------------------------- MODULE RuntimeEntry ----------------------------
(***************************************************************************)
(* How a call of malloc, free, realloc or aligned_alloc gets into          *)
(* libstricc_rt: the search for the allocator's real functions, the        *)
(* bootstrap buffer that serves what dlsym asks for meanwhile, and the     *)
(* guard that lets what the library itself allocates pass untracked.       *)
(*                                                                         *)
(* A thread has a stack of calls, since dlsym and a growing table call the *)
(* allocator again.  The tables are one set under one mutex here;          *)
(* RuntimeHeap has them apart.  A program releases only what it owns.      *)
(***************************************************************************)
EXTENDS Integers, FiniteSets, Sequences, SequencesExt

CONSTANTS
    Threads,
    Nobody,       \* holder of a free mutex
    BufferSize,   \* BOOTSTRAP_BUFFER_SIZE
    Align,        \* the alignment of bootstrap_malloc
    HeapAddr,     \* where the real allocator places blocks, above the buffer
    Sizes,        \* sizes asked for
    MaxCalls,     \* bound on the calls of a thread
    MaxInner,     \* bound on the calls dlsym makes
    MaxGrowths    \* bound on how often a table gets a larger bucket array

ASSUME EntryAssumption ==
    /\ Nobody \notin Threads
    /\ {BufferSize, Align} \cup Sizes \subseteq Nat \ {0}
    /\ {MaxCalls, MaxInner, MaxGrowths} \subseteq Nat
    /\ \A a \in HeapAddr : a \in Nat /\ a >= BufferSize

Null   == -1
NoKey  == 0

\* The real functions in the order they are stored, and the one an entry point needs.
RealFunctions == <<"malloc", "free", "realloc">>
RealOf(op) == IF op = "aligned_alloc" THEN "malloc" ELSE op
Ops == {"malloc", "free", "realloc", "aligned_alloc"}

VARIABLES
    real,          \* those of REAL_MALLOC, REAL_FREE and REAL_REALLOC that are set
    initializing,  \* the INITIALIZING of each entry point
    index,         \* BOOTSTRAP_INDEX
    tls_key,       \* TLS_KEY
    keys,          \* pthread keys there are
    specific,      \* specific[t]: the keys under which t has a non-null value
    mutex,         \* holder of the tables
    table,         \* addresses with an entry in KEY_TABLE
    heap,          \* addresses the real allocator has handed out
    blocks,        \* blocks in use, each with who uses it
    stack,         \* stack[t]: the calls t is in, innermost last
    calls, inner, growths,   \* what the bounds count
    raced,         \* two threads were in bootstrap_malloc at once
    process        \* "up", or why it died

startup == <<real, initializing, index, raced>>
guard   == <<tls_key, keys, specific>>
tables  == <<mutex, table, heap>>
counts  == <<calls, inner, growths>>
vars    == <<startup, guard, tables, blocks, stack, counts, process>>

Init ==
    /\ real = {}
    /\ initializing = [op \in Ops |-> FALSE]
    /\ index = 0
    /\ tls_key = NoKey
    /\ keys = {}
    /\ specific = [t \in Threads |-> {}]
    /\ mutex = Nobody
    /\ table = {}
    /\ heap = {}
    /\ blocks = {}
    /\ stack = [t \in Threads |-> <<>>]
    /\ calls = [t \in Threads |-> 0]
    /\ inner = 0
    /\ growths = 0
    /\ raced = FALSE
    /\ process = "up"

-----------------------------------------------------------------------------
(* Calls and returns. *)

Depth(t) == Len(stack[t])
Top(t)   == Last(stack[t])
At(t, stage) == Depth(t) > 0 /\ Top(t).stage = stage

\* Who calls from within the first depth calls of t: the program, a table that grows
\* (and what that calls), or dlsym.
UserIn(t, depth) ==
    IF depth = 0 THEN "program"
    ELSE IF \E i \in 1 .. depth : stack[t][i].stage = "insert" THEN "runtime" ELSE "dlsym"

Frame(op, block, n) == [op |-> op, block |-> block, size |-> n, stage |-> "entry",
                        at |-> Null, key |-> NoKey]
NoBlock == [at |-> Null, size |-> 0, user |-> "none"]

Push(t, op, block, n) == stack' = [stack EXCEPT ![t] = Append(@, Frame(op, block, n))]

\* t calls op: it asks for a block, or gives up or exchanges one in use where it is.
Call(t, op, n) ==
    \/ /\ op \in {"malloc", "aligned_alloc"}
       /\ Push(t, op, NoBlock, n)
       /\ UNCHANGED blocks
    \/ /\ op \in {"free", "realloc"}
       /\ \E b \in {c \in blocks : c.user = UserIn(t, Depth(t))} :
             /\ blocks' = blocks \ {b}
             /\ Push(t, op, b, IF op = "free" THEN 0 ELSE n)

Goto(t, frame) == stack' = [stack EXCEPT ![t][Depth(t)] = frame]
Stage(t, stage) == Goto(t, [Top(t) EXCEPT !.stage = stage])

\* t returns from its innermost call with a: its caller has a block at a, or, if an
\* exchange failed, still the one it had.
Return(t, a) ==
    LET user == UserIn(t, Depth(t) - 1)
        f    == Top(t)
    IN  /\ stack' = [stack EXCEPT ![t] = Front(@)]
        /\ blocks' = blocks \cup
              IF a # Null THEN {[at |-> a, size |-> f.size, user |-> user]}
              ELSE IF f.op = "realloc" THEN {f.block}
              ELSE {}

-----------------------------------------------------------------------------
(* The bootstrap buffer. *)

is_bootstrap_ptr(a) == a \in 0 .. BufferSize - 1

\* Mutant of AlignUp: the address is rounded down.
AlignDown(n) == (n \div Align) * Align

AlignUp(n) == ((n + Align - 1) \div Align) * Align

\* Mutant of Fits: the size is left out of the comparison.
StartFits(offset, n) == offset <= BufferSize

Fits(offset, n) == offset + n <= BufferSize

\* bootstrap_malloc reads BOOTSTRAP_INDEX ...
bootstrap_malloc(t) ==
    /\ At(t, "bootstrap")
    /\ LET offset == AlignUp(index)
       IN  \/ /\ ~Fits(offset, Top(t).size)
              /\ Return(t, Null)
           \/ /\ Fits(offset, Top(t).size)
              /\ Goto(t, [Top(t) EXCEPT !.stage = "bump", !.at = offset])
              /\ UNCHANGED blocks
    /\ UNCHANGED <<startup, guard, tables, counts, process>>

\* ... and writes it.
bootstrap_bump(t) ==
    /\ At(t, "bump")
    /\ index' = Top(t).at + Top(t).size
    /\ raced' = (raced \/ \E u \in Threads \ {t} : At(u, "bump"))
    /\ Return(t, Top(t).at)
    /\ UNCHANGED <<real, initializing, guard, tables, counts, process>>

-----------------------------------------------------------------------------
(* The prologue of an entry point. *)

\* Mutant of Ignored: free does not ask where the block lies.
IgnoredNever(f) == FALSE

\* free leaves a block of the buffer alone, ...
Ignored(f) == f.op = "free" /\ is_bootstrap_ptr(f.block.at)
\* ... realloc exchanges it for another one of the buffer, ...
Exchanged(f) == f.op = "realloc" /\ is_bootstrap_ptr(f.block.at)

Enter(t) ==
    /\ At(t, "entry")
    /\ LET f == Top(t)
           unknown == RealOf(f.op) \notin real
       IN  \/ /\ Ignored(f)
              /\ Return(t, Null)
              /\ UNCHANGED initializing
           \/ /\ Exchanged(f)
              /\ Stage(t, "bootstrap")
              /\ UNCHANGED <<initializing, blocks>>
           \/ /\ ~Ignored(f) /\ ~Exchanged(f)
              /\ unknown /\ initializing[f.op]
              /\ \/ /\ f.op \in {"malloc", "aligned_alloc"}
                    /\ Stage(t, "bootstrap")
                    /\ UNCHANGED blocks
                 \/ /\ f.op \in {"free", "realloc"}   \* not freed, not exchanged
                    /\ Return(t, Null)
              /\ UNCHANGED initializing
           \/ /\ ~Ignored(f) /\ ~Exchanged(f)
              /\ unknown /\ ~initializing[f.op]
              /\ initializing' = [initializing EXCEPT ![f.op] = TRUE]
              /\ Stage(t, "dlsym")
              /\ UNCHANGED blocks
           \/ /\ ~Ignored(f) /\ ~Exchanged(f)
              /\ ~unknown
              /\ Stage(t, "guard")
              /\ UNCHANGED <<initializing, blocks>>
    /\ UNCHANGED <<real, index, raced, guard, tables, counts, process>>

\* dlsym may call the allocator, for itself.
DlsymCalls(t) ==
    /\ At(t, "dlsym")
    /\ inner < MaxInner
    /\ inner' = inner + 1
    /\ \E op \in {"malloc", "free", "realloc"}, n \in Sizes : Call(t, op, n)
    /\ UNCHANGED <<startup, guard, tables, calls, growths, process>>

\* The OnceLocks are set one after the other; one that is set stays as it is.
init_real_functions(t) ==
    /\ At(t, "dlsym") \/ At(t, "set")
    /\ \/ /\ \E i \in DOMAIN RealFunctions :
                /\ RealFunctions[i] \notin real
                /\ \A j \in 1 .. i - 1 : RealFunctions[j] \in real
                /\ real' = real \cup {RealFunctions[i]}
          /\ Stage(t, "set")
          /\ UNCHANGED initializing
       \/ /\ ToSet(RealFunctions) \subseteq real
          /\ initializing' = [initializing EXCEPT ![Top(t).op] = FALSE]
          /\ Stage(t, "guard")
          /\ UNCHANGED real
    /\ UNCHANGED <<index, raced, guard, tables, blocks, counts, process>>

-----------------------------------------------------------------------------
(* The guard. *)

get_in_runtime(t) == tls_key # NoKey /\ tls_key \in specific[t]

\* Mutant of Recursed: the flag is not consulted.
NeverRecursed(t) == FALSE

Recursed(t) == get_in_runtime(t)

\* Where a call goes on once its thread is in the runtime: an allocation asks the real
\* allocator first, a release looks the block up first.
FirstStage(op) == IF op \in {"malloc", "aligned_alloc"} THEN "allocate" ELSE "lock"

\* RuntimeGuard::enter, unless the thread is in the runtime already.  pthread_setspecific
\* is taken to call nothing here and in set_in_runtime, as glibc's does for the first 32
\* keys of a process; for a later key it allocates before the flag is set.
Guard(t) ==
    /\ At(t, "guard")
    /\ ~Recursed(t)
    /\ \/ /\ tls_key # NoKey
          /\ specific' = [specific EXCEPT ![t] = @ \cup {tls_key}]
          /\ Stage(t, FirstStage(Top(t).op))
          /\ UNCHANGED keys
       \/ /\ tls_key = NoKey    \* pthread_key_create
          /\ LET key == CHOOSE k \in 1 .. Cardinality(keys) + 1 : k \notin keys
             IN  /\ keys' = keys \cup {key}
                 /\ Goto(t, [Top(t) EXCEPT !.stage = "key", !.key = key])
          /\ UNCHANGED specific
    /\ UNCHANGED <<startup, tls_key, tables, blocks, counts, process>>

\* Mutant of KeyUsed: the thread that lost goes on with its own key.
OwnKey(key) == key

\* The key a thread goes on with when it has tried to make its own TLS_KEY.
KeyUsed(key) == IF tls_key = NoKey THEN key ELSE tls_key

\* compare_exchange on TLS_KEY; who loses deletes the key it made.
set_in_runtime(t) ==
    /\ At(t, "key")
    /\ LET key == Top(t).key
       IN  /\ tls_key' = IF tls_key = NoKey THEN key ELSE tls_key
           /\ keys' = IF tls_key = NoKey THEN keys ELSE keys \ {key}
           /\ specific' = [specific EXCEPT ![t] = @ \cup {KeyUsed(key)}]
           /\ Goto(t, [Top(t) EXCEPT !.stage = FirstStage(Top(t).op), !.key = NoKey])
    /\ UNCHANGED <<startup, tables, blocks, counts, process>>

\* The drop of the guard.
LeaveRuntime(t) == specific' = [specific EXCEPT ![t] = @ \ {tls_key}]

-----------------------------------------------------------------------------
(* The rest of the call. *)

\* The real allocator takes the lowest free address; RuntimeHeap has it take any.
FreeAddr == {a \in HeapAddr \ heap : \A b \in HeapAddr \ heap : a <= b}

\* What the real allocator does for a call: the result, and the blocks it then has.
RealResults(f) ==
    CASE f.op \in {"malloc", "aligned_alloc"} ->
            {<<a, heap \cup {a}>> : a \in FreeAddr}
            \cup IF FreeAddr = {} THEN {<<Null, heap>>} ELSE {}
      [] f.op = "free" -> {<<Null, heap \ {f.block.at}>>}
      [] f.op = "realloc" ->
            {<<a, (heap \ {f.block.at}) \cup {a}>> : a \in FreeAddr \cup {f.block.at}}
            \cup {<<Null, heap>>}

\* free and realloc hand the real allocator a block that is not one of its own.
Foreign(f) == f.op \in {"free", "realloc"} /\ f.block.at \notin heap

\* A call out of the runtime itself goes straight to the real allocator.
PassThrough(t) ==
    /\ At(t, "guard")
    /\ Recursed(t)
    /\ \E r \in RealResults(Top(t)) : heap' = r[2] /\ Return(t, r[1])
    /\ process' = IF Foreign(Top(t)) THEN "heap corrupted" ELSE process
    /\ UNCHANGED <<startup, guard, mutex, table, counts>>

\* malloc and aligned_alloc call the real allocator before they lock a table.
Allocate(t) ==
    /\ At(t, "allocate")
    /\ \E r \in RealResults(Top(t)) :
          /\ heap' = r[2]
          /\ \/ /\ r[1] = Null
                /\ LeaveRuntime(t)
                /\ Return(t, Null)
             \/ /\ r[1] # Null
                /\ Goto(t, [Top(t) EXCEPT !.stage = "lock", !.at = r[1]])
                /\ UNCHANGED <<specific, blocks>>
    /\ UNCHANGED <<startup, tls_key, keys, mutex, table, counts, process>>

\* free and realloc look the block up, and call the real allocator with the lock held.
Lock(t) ==
    /\ At(t, "lock")
    /\ mutex = Nobody
    /\ mutex' = t
    /\ LET f == Top(t)
       IN  \/ /\ f.op \in {"malloc", "aligned_alloc"}
              /\ Stage(t, "insert")
              /\ UNCHANGED <<table, heap, process>>
           \/ /\ f.op \in {"free", "realloc"}
              /\ table' = table \ {f.block.at}
              /\ \E r \in RealResults(f) :
                    /\ heap' = r[2]
                    /\ Goto(t, [f EXCEPT !.stage = "insert", !.at = r[1]])
              /\ process' = IF f.block.at \notin table THEN "double free"
                            ELSE IF Foreign(f) THEN "heap corrupted" ELSE process
    /\ UNCHANGED <<startup, guard, blocks, counts>>

\* An insertion may make a table grow: a new bucket array, and the old one released.
Grow(t) ==
    /\ At(t, "insert")
    /\ Top(t).op # "free"
    /\ growths < MaxGrowths
    /\ growths' = growths + 1
    /\ \E op \in {"malloc", "free"}, n \in Sizes : Call(t, op, n)
    /\ UNCHANGED <<startup, guard, tables, calls, inner, process>>

Entries(f) ==
    CASE f.op = "free" -> {}
      [] f.op = "realloc" /\ f.at = Null -> {f.block.at}
      [] OTHER -> {f.at}

\* The entry, which a failed realloc puts back, the end of the section and of the guard.
Finish(t) ==
    /\ At(t, "insert")
    /\ table' = table \cup Entries(Top(t))
    /\ Return(t, Top(t).at)
    /\ mutex' = Nobody
    /\ LeaveRuntime(t)
    /\ UNCHANGED <<startup, tls_key, keys, heap, counts, process>>

-----------------------------------------------------------------------------
ProgramCalls(t) ==
    /\ Depth(t) = 0
    /\ calls[t] < MaxCalls
    /\ calls' = [calls EXCEPT ![t] = @ + 1]
    /\ \E op \in Ops, n \in Sizes : Call(t, op, n)
    /\ UNCHANGED <<startup, guard, tables, inner, growths, process>>

Step(t) ==
    /\ process = "up"
    /\ \/ Enter(t) \/ bootstrap_malloc(t) \/ bootstrap_bump(t)
       \/ DlsymCalls(t) \/ init_real_functions(t)
       \/ Guard(t) \/ set_in_runtime(t) \/ PassThrough(t)
       \/ Allocate(t) \/ Lock(t) \/ Grow(t) \/ Finish(t)

Next == \E t \in Threads : Step(t) \/ (process = "up" /\ ProgramCalls(t))

Spec == Init /\ [][Next]_vars

\* A thread in a call is scheduled.
FairSpec == Spec /\ \A t \in Threads : WF_vars(Step(t))

-----------------------------------------------------------------------------
(* Properties *)

Disjoint(b, c) == b.at + b.size <= c.at \/ c.at + c.size <= b.at

Stages == {"entry", "dlsym", "set", "bootstrap", "bump", "guard", "key",
           "allocate", "lock", "insert"}
Block == [at : 0 .. BufferSize - 1 \cup HeapAddr, size : Sizes,
          user : {"program", "dlsym", "runtime"}]

\* Every variable keeps its kind; a block in use is where a block may be.
TypeOK ==
    /\ real \subseteq ToSet(RealFunctions)
    /\ initializing \in [Ops -> BOOLEAN]
    /\ index \in 0 .. BufferSize
    /\ keys \subseteq Nat \ {NoKey}
    /\ tls_key \in keys \cup {NoKey}
    /\ specific \in [Threads -> SUBSET Nat]
    /\ mutex \in Threads \cup {Nobody}
    /\ table \cup heap \subseteq HeapAddr
    /\ blocks \subseteq Block
    /\ \A t \in Threads : \A i \in 1 .. Depth(t) :
          /\ stack[t][i].op \in Ops /\ stack[t][i].stage \in Stages
          /\ stack[t][i].block \in Block \cup {NoBlock}

\* A thread counts as in the runtime exactly while one of its calls is between the
\* guard and its drop, also when two threads made a key at the same time: a flag left
\* set would hide its later allocations, one that is not seen would let it deadlock.
FlagTellsTheTruth ==
    \A t \in Threads :
        get_in_runtime(t) <=>
            \E i \in 1 .. Depth(t) : stack[t][i].stage \in {"allocate", "lock", "insert"}

\* A program that releases only what it owns is not stopped, and the real allocator gets
\* back only its own blocks: whether a block is of the buffer, tracked or the runtime's own
\* is told when it is released as it was when it was handed out.
OwnBlocksAccepted == process = "up"

\* The blocks of the bootstrap buffer lie in it, aligned, and do not overlap unless two
\* threads were in bootstrap_malloc at once, which has no lock.
BootstrapBlocks ==
    \A b \in {c \in blocks : is_bootstrap_ptr(c.at)} :
        /\ b.at % Align = 0
        /\ b.at + b.size <= BufferSize
        /\ ~raced => \A c \in blocks \ {b} : Disjoint(b, c)

\* Whoever holds the tables is in a call that goes on: no thread has returned with them, and
\* none waits for them within its own section, where a table that grows calls the allocator.
HolderGoesOn == mutex # Nobody => Depth(mutex) > 0 /\ ~At(mutex, "lock")

\* Every call returns: the search for the real functions and what dlsym allocates, a table
\* that grows and what it allocates, do not call each other or wait for each other for ever.
CallsReturn == \A t \in Threads : Depth(t) > 0 ~> Depth(t) = 0
=============================================================================
