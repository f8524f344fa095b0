----------------------------- MODULE RuntimeHeap -----------------------------
(***************************************************************************)
(* The allocation wrappers and the temporal check of libstricc_rt, run by  *)
(* the threads of a compiled program.  NEXT_KEY, KEY_TABLE and             *)
(* SHADOW_TABLE are three mutexes taken one by one, so every step below is *)
(* what a thread does from one lock() to the next.  A section that takes a *)
(* mutex and gives it back without taking another is one step; a mutex     *)
(* kept across a step is recorded in `lock'.                               *)
(*                                                                         *)
(* Left out: the spatial check, the bootstrap allocator, the recursion     *)
(* guard, diagnostics, and calls that return before they touch a table     *)
(* (NULL to free, an overflowing or empty calloc, a null dereference).     *)
(* calloc and realloc(NULL, n) are malloc, realloc(p, 0) is free.          *)
(***************************************************************************)
EXTENDS Integers, FiniteSets

CONSTANTS
    Threads,      \* threads that call into the library
    HeapAddr,     \* addresses at which the system allocator may place a block
    StackAddr,    \* addresses of instrumented stack variables
    Null,         \* the null address
    Nobody,       \* holder of a free mutex, owner of a dead stack variable
    Sizes,        \* sizes a program asks for
    SizeMax,      \* usize::MAX, the size of a pointer nothing is known about
    Alignments,   \* alignments a program passes to aligned_alloc
    Ops,          \* the entry points the program uses
    Disciplined,  \* TRUE: no data race on an object, only live blocks released
    MaxCalls      \* bound on the calls a thread makes

ASSUME AddrAssumption ==
    /\ HeapAddr \cap StackAddr = {}
    /\ Null \notin HeapAddr \cup StackAddr
    /\ Nobody \notin Threads

ASSUME DataAssumption ==
    /\ Sizes \subseteq Nat
    /\ Alignments \subseteq Nat
    /\ SizeMax \in Nat
    /\ \A n \in Sizes : n < SizeMax
    /\ MaxCalls \in Nat
    /\ Disciplined \in BOOLEAN

VARIABLES
    nextKey,      \* NEXT_KEY
    keyTable,     \* KEY_TABLE, NoKey where the map has no entry
    shadowTable,  \* SHADOW_TABLE, Absent where the map has no entry
    lock,         \* holder of each of the three mutexes
    heap,         \* sizes of the blocks the system allocator has handed out
    fault,        \* the system allocator was given a block that is not its own
    frame,        \* the thread a live stack variable belongs to
    ptrs,         \* every pointer value the program has obtained, stale ones too
    owned,        \* those of them that name a block the program has yet to release
    pc, ctx,      \* where a thread is, and the locals of the call it is in
    calls,        \* calls made so far
    aborted       \* libc::abort has ended the process

tables  == <<nextKey, keyTable, shadowTable>>
system  == <<heap, fault>>
program == <<frame, ptrs, owned>>
vars    == <<tables, lock, system, program, pc, ctx, calls, aborted>>

Addr  == HeapAddr \cup StackAddr
Locks == {"NEXT_KEY", "KEY_TABLE", "SHADOW_TABLE"}

NoKey       == 0
Unallocated == -1

\* (base, size, key).  A store of a null base and a zero size removes the
\* entry, so the pair also stands for an entry that is not there.
Metadata == [base : Addr \cup {Null}, size : Nat, key : Nat]
Absent   == [base |-> Null, size |-> 0, key |-> NoKey]
Wildcard == [base |-> Null, size |-> SizeMax, key |-> NoKey]
\* Mutant of Entry: the base and the key change places.
SwappedEntry(a, n, k) == [base |-> k, size |-> n, key |-> a]

Entry(a, n, k) == [base |-> a, size |-> n, key |-> k]

\* What __stricc_rt_shadow_load answers for the pointer variable at a.
ShadowLoad(a) == IF shadowTable[a] = Absent THEN Wildcard ELSE shadowTable[a]

Pointer == [addr : Addr, meta : Metadata]
NoPtr   == [addr |-> Null, meta |-> Absent]

Context == [ptr : Pointer \cup {NoPtr},  \* argument: block or target of the access
            val : Metadata,              \* metadata of the pointer being stored
            store : BOOLEAN,             \* the access stores a pointer
            size : Nat,                  \* size asked for
            addr : Addr \cup {Null},     \* the object that is getting a key
            key : Nat,                   \* its key
            oldKey : Nat,                \* what was found under ptr.addr in
            oldSize : Nat]               \*   KEY_TABLE and SHADOW_TABLE
NoCtx == [ptr |-> NoPtr, val |-> Absent, store |-> FALSE, size |-> 0,
          addr |-> Null, key |-> NoKey, oldKey |-> NoKey, oldSize |-> 0]

Aborting == {"double_free", "invalid_realloc", "use_after_free",
             "out_of_bounds", "bad_alignment"}
Allocating   == {"m_sys", "m_key", "m_register", "m_shadow", "m_ret"}
Deallocating == {"f_key", "f_shadow", "f_sys"}
Reallocating == {"r_lookup", "r_size", "r_revoke", "r_shadow", "r_sys",
                 "r_key", "r_register", "r_restore"}
Accessing    == {"c_key", "access", "w_shadow"}
Declaring    == {"s_key", "s_register"}
Labels == {"idle"} \cup Allocating \cup Deallocating \cup Reallocating
              \cup Accessing \cup Declaring \cup Aborting

Init ==
    /\ nextKey = 1
    /\ keyTable = [a \in Addr |-> NoKey]
    /\ shadowTable = [a \in Addr |-> Absent]
    /\ lock = [l \in Locks |-> Nobody]
    /\ heap = [a \in HeapAddr |-> Unallocated]
    /\ fault = FALSE
    /\ frame = [a \in StackAddr |-> Nobody]
    /\ ptrs = {}
    /\ owned = {}
    /\ pc = [t \in Threads |-> "idle"]
    /\ ctx = [t \in Threads |-> NoCtx]
    /\ calls = [t \in Threads |-> 0]
    /\ aborted = FALSE

-----------------------------------------------------------------------------
(* Control flow of a thread *)

Begin(t, label, c) ==
    /\ pc[t] = "idle"
    /\ calls[t] < MaxCalls
    /\ calls' = [calls EXCEPT ![t] = @ + 1]
    /\ pc' = [pc EXCEPT ![t] = label]
    /\ ctx' = [ctx EXCEPT ![t] = c]
    /\ UNCHANGED <<tables, lock, system, ptrs, aborted>>

Goto(t, label, c) ==
    /\ pc' = [pc EXCEPT ![t] = label]
    /\ ctx' = [ctx EXCEPT ![t] = c]
    /\ UNCHANGED <<calls, aborted>>

Return(t) == Goto(t, "idle", NoCtx)

\* The thread is about to print its diagnostic; the others still run.
Fail(t, reason) == Goto(t, reason, ctx[t])

Available(l) == lock[l] = Nobody
Take(t, l) == Available(l) /\ lock' = [lock EXCEPT ![l] = t]
Drop(ls) == lock' = [l \in Locks |-> IF l \in ls THEN Nobody ELSE lock[l]]
\* A section that ends before another mutex is taken.
Momentarily(l) == Available(l) /\ UNCHANGED lock

-----------------------------------------------------------------------------
(* A disciplined program has no data race on an object and releases only   *)
(* the blocks it owns; it may still dereference dangling pointers.  Any    *)
(* other program does what it likes with the pointers it has.              *)

Using(u, k) == pc[u] \in Accessing /\ ctx[u].ptr.meta.key = k
Releasing(u, k) ==
    pc[u] \in Deallocating \cup Reallocating /\ ctx[u].ptr.meta.key = k

MayUse(t, p) ==
    Disciplined => \A u \in Threads \ {t} : ~Releasing(u, p.meta.key)

MayRelease(t, p) ==
    Disciplined => /\ p \in owned
                   /\ \A u \in Threads \ {t} : ~Using(u, p.meta.key)

MayLeaveScope(t, x) ==
    Disciplined => \A u \in Threads \ {t} : ~Using(u, keyTable[x])

-----------------------------------------------------------------------------
(* malloc, calloc, realloc(NULL, n), aligned_alloc *)

CallMalloc(t) ==
    /\ "malloc" \in Ops
    /\ \E n \in Sizes : Begin(t, "m_sys", [NoCtx EXCEPT !.size = n])
    /\ UNCHANGED <<frame, owned>>

ValidAlignment(al, n) ==
    /\ \E i \in 0 .. al : al = 2 ^ i
    /\ n % al = 0

CallAlignedAlloc(t) ==
    /\ "aligned_alloc" \in Ops
    /\ \E n \in Sizes, al \in Alignments :
          IF ValidAlignment(al, n)
          THEN Begin(t, "m_sys", [NoCtx EXCEPT !.size = n])
          ELSE Begin(t, "bad_alignment", NoCtx)
    /\ UNCHANGED <<frame, owned>>

\* The system allocator has its own lock: one step.
SysAlloc(t) ==
    /\ pc[t] = "m_sys"
    /\ \E a \in HeapAddr :
          /\ heap[a] = Unallocated
          /\ heap' = [heap EXCEPT ![a] = ctx[t].size]
          /\ Goto(t, "m_key", [ctx[t] EXCEPT !.addr = a])
    /\ UNCHANGED <<tables, lock, fault, program>>

OutOfMemory(t) ==
    /\ pc[t] = "m_sys"
    /\ Return(t)
    /\ UNCHANGED <<tables, lock, system, program>>

MallocDrawKey(t) ==
    /\ pc[t] = "m_key"
    /\ Take(t, "NEXT_KEY")
    /\ nextKey' = nextKey + 1
    /\ Goto(t, "m_register", [ctx[t] EXCEPT !.key = nextKey])
    /\ UNCHANGED <<keyTable, shadowTable, system, program>>

MallocRegister(t) ==
    /\ pc[t] = "m_register"
    /\ Take(t, "KEY_TABLE")
    /\ keyTable' = [keyTable EXCEPT ![ctx[t].addr] = ctx[t].key]
    /\ Goto(t, "m_shadow", ctx[t])
    /\ UNCHANGED <<nextKey, shadowTable, system, program>>

\* Mutant of MallocShadow: the key is read from the counter again.
MallocShadowRereadsKey(t) ==
    /\ pc[t] = "m_shadow"
    /\ Available("SHADOW_TABLE")
    /\ shadowTable' = [shadowTable EXCEPT ![ctx[t].addr] =
                          Entry(ctx[t].addr, ctx[t].size, nextKey)]
    /\ Drop({"NEXT_KEY", "KEY_TABLE"})
    /\ Goto(t, "m_ret", ctx[t])
    /\ UNCHANGED <<nextKey, keyTable, system, program>>

\* Mutant of MallocShadow: the guard of NEXT_KEY is leaked.
MallocShadowLeaksGuard(t) ==
    /\ pc[t] = "m_shadow"
    /\ Available("SHADOW_TABLE")
    /\ shadowTable' = [shadowTable EXCEPT ![ctx[t].addr] =
                          Entry(ctx[t].addr, ctx[t].size, ctx[t].key)]
    /\ Drop({"KEY_TABLE"})
    /\ Goto(t, "m_ret", ctx[t])
    /\ UNCHANGED <<nextKey, keyTable, system, program>>

\* The three guards go out of scope together.
MallocShadow(t) ==
    /\ pc[t] = "m_shadow"
    /\ Available("SHADOW_TABLE")
    /\ shadowTable' = [shadowTable EXCEPT ![ctx[t].addr] =
                          Entry(ctx[t].addr, ctx[t].size, ctx[t].key)]
    /\ Drop({"NEXT_KEY", "KEY_TABLE"})
    /\ Goto(t, "m_ret", ctx[t])
    /\ UNCHANGED <<nextKey, keyTable, system, program>>

\* The caller asks SHADOW_TABLE for the metadata of the pointer it was given.
LoadResult(t) ==
    /\ pc[t] = "m_ret"
    /\ Momentarily("SHADOW_TABLE")
    /\ LET p == [addr |-> ctx[t].addr, meta |-> ShadowLoad(ctx[t].addr)]
       IN  /\ ptrs' = ptrs \cup {p}
           /\ owned' = owned \cup {p}
    /\ Return(t)
    /\ UNCHANGED <<tables, system, frame>>

-----------------------------------------------------------------------------
(* free *)

CallFree(t) ==
    /\ "free" \in Ops
    /\ \E p \in ptrs :
          /\ MayRelease(t, p)
          /\ Begin(t, "f_key", [NoCtx EXCEPT !.ptr = p])
          /\ owned' = owned \ {p}
    /\ UNCHANGED frame

\* Mutant of FreeRevoke: get in place of remove.
FreeRevokeReads(t) ==
    /\ pc[t] = "f_key"
    /\ Momentarily("KEY_TABLE")
    /\ LET a == ctx[t].ptr.addr
       IN  IF keyTable[a] = NoKey
           THEN Fail(t, "double_free")
           ELSE Goto(t, "f_shadow", [ctx[t] EXCEPT !.oldKey = keyTable[a]])
    /\ UNCHANGED <<tables, system, program>>

\* The address is looked up, never the key of the pointer.
FreeRevoke(t) ==
    /\ pc[t] = "f_key"
    /\ Momentarily("KEY_TABLE")
    /\ LET a == ctx[t].ptr.addr
       IN  /\ keyTable' = [keyTable EXCEPT ![a] = NoKey]
           /\ IF keyTable[a] = NoKey
              THEN Fail(t, "double_free")
              ELSE Goto(t, "f_shadow", [ctx[t] EXCEPT !.oldKey = keyTable[a]])
    /\ UNCHANGED <<nextKey, shadowTable, system, program>>

FreeShadow(t) ==
    /\ pc[t] = "f_shadow"
    /\ Take(t, "SHADOW_TABLE")
    /\ shadowTable' = [shadowTable EXCEPT ![ctx[t].ptr.addr] = Absent]
    /\ Goto(t, "f_sys", ctx[t])
    /\ UNCHANGED <<nextKey, keyTable, system, program>>

Allocated(a) == a \in HeapAddr /\ heap[a] # Unallocated

SysFree(t) ==
    /\ pc[t] = "f_sys"
    /\ LET a == ctx[t].ptr.addr
       IN  IF Allocated(a)
           THEN heap' = [heap EXCEPT ![a] = Unallocated] /\ UNCHANGED fault
           ELSE fault' = TRUE /\ UNCHANGED heap
    /\ Drop({"SHADOW_TABLE"})
    /\ Return(t)
    /\ UNCHANGED <<tables, program>>

-----------------------------------------------------------------------------
(* realloc *)

CallRealloc(t) ==
    /\ "realloc" \in Ops
    /\ \E p \in ptrs, n \in Sizes :
          /\ MayRelease(t, p)
          /\ Begin(t, "r_lookup", [NoCtx EXCEPT !.ptr = p, !.size = n])
          /\ owned' = owned \ {p}
    /\ UNCHANGED frame

ReallocLookup(t) ==
    /\ pc[t] = "r_lookup"
    /\ Momentarily("KEY_TABLE")
    /\ LET k == keyTable[ctx[t].ptr.addr]
       IN  IF k = NoKey
           THEN Fail(t, "invalid_realloc")
           ELSE Goto(t, "r_size", [ctx[t] EXCEPT !.oldKey = k])
    /\ UNCHANGED <<tables, system, program>>

\* Mutant of ReallocOldSize: the new size is saved.
ReallocSavesNewSize(t) ==
    /\ pc[t] = "r_size"
    /\ Momentarily("SHADOW_TABLE")
    /\ Goto(t, "r_revoke", [ctx[t] EXCEPT !.oldSize = ctx[t].size])
    /\ UNCHANGED <<tables, system, program>>

\* No entry counts as size 0, which is the size of Absent.
ReallocOldSize(t) ==
    /\ pc[t] = "r_size"
    /\ Momentarily("SHADOW_TABLE")
    /\ Goto(t, "r_revoke",
            [ctx[t] EXCEPT !.oldSize = shadowTable[ctx[t].ptr.addr].size])
    /\ UNCHANGED <<tables, system, program>>

\* Whether there was still an entry to remove is not looked at.
ReallocRevoke(t) ==
    /\ pc[t] = "r_revoke"
    /\ Momentarily("KEY_TABLE")
    /\ keyTable' = [keyTable EXCEPT ![ctx[t].ptr.addr] = NoKey]
    /\ Goto(t, "r_shadow", ctx[t])
    /\ UNCHANGED <<nextKey, shadowTable, system, program>>

ReallocShadow(t) ==
    /\ pc[t] = "r_shadow"
    /\ Take(t, "SHADOW_TABLE")
    /\ shadowTable' = [shadowTable EXCEPT ![ctx[t].ptr.addr] = Absent]
    /\ Goto(t, "r_sys", ctx[t])
    /\ UNCHANGED <<nextKey, keyTable, system, program>>

\* In place, or at an address that was free.
SysRealloc(t) ==
    /\ pc[t] = "r_sys"
    /\ Allocated(ctx[t].ptr.addr)
    /\ \E a \in HeapAddr :
          /\ a = ctx[t].ptr.addr \/ heap[a] = Unallocated
          /\ heap' = [heap EXCEPT ![ctx[t].ptr.addr] = Unallocated,
                                  ![a] = ctx[t].size]
          /\ Goto(t, "r_key", [ctx[t] EXCEPT !.addr = a])
    /\ UNCHANGED <<tables, lock, fault, program>>

SysReallocFails(t) ==
    /\ pc[t] = "r_sys"
    /\ Allocated(ctx[t].ptr.addr)
    /\ Goto(t, "r_restore", ctx[t])
    /\ UNCHANGED <<tables, lock, system, program>>

SysReallocFault(t) ==
    /\ pc[t] = "r_sys"
    /\ ~Allocated(ctx[t].ptr.addr)
    /\ fault' = TRUE
    /\ UNCHANGED <<tables, lock, heap, program, pc, ctx, calls, aborted>>

\* Mutant of ReallocDrawKey: the block keeps its key.
ReallocKeepsKey(t) ==
    /\ pc[t] = "r_key"
    /\ Take(t, "NEXT_KEY")
    /\ Goto(t, "r_register", [ctx[t] EXCEPT !.key = ctx[t].oldKey])
    /\ UNCHANGED <<tables, system, program>>

ReallocDrawKey(t) ==
    /\ pc[t] = "r_key"
    /\ Take(t, "NEXT_KEY")
    /\ nextKey' = nextKey + 1
    /\ Goto(t, "r_register", [ctx[t] EXCEPT !.key = nextKey])
    /\ UNCHANGED <<keyTable, shadowTable, system, program>>

\* Mutant of ReallocRegister: the shadow entry keeps the old key.
ReallocRegisterOldKey(t) ==
    /\ pc[t] = "r_register"
    /\ Available("KEY_TABLE")
    /\ keyTable' = [keyTable EXCEPT ![ctx[t].addr] = ctx[t].key]
    /\ shadowTable' = [shadowTable EXCEPT ![ctx[t].addr] =
                          Entry(ctx[t].addr, ctx[t].size, ctx[t].oldKey)]
    /\ Drop({"NEXT_KEY", "SHADOW_TABLE"})
    /\ Goto(t, "m_ret", ctx[t])
    /\ UNCHANGED <<nextKey, system, program>>

\* Mutant of ReallocRegister: the shadow entry keeps the old size.
ReallocRegisterOldSize(t) ==
    /\ pc[t] = "r_register"
    /\ Available("KEY_TABLE")
    /\ keyTable' = [keyTable EXCEPT ![ctx[t].addr] = ctx[t].key]
    /\ shadowTable' = [shadowTable EXCEPT ![ctx[t].addr] =
                          Entry(ctx[t].addr, ctx[t].oldSize, ctx[t].key)]
    /\ Drop({"NEXT_KEY", "SHADOW_TABLE"})
    /\ Goto(t, "m_ret", ctx[t])
    /\ UNCHANGED <<nextKey, system, program>>

ReallocRegister(t) ==
    /\ pc[t] = "r_register"
    /\ Available("KEY_TABLE")
    /\ keyTable' = [keyTable EXCEPT ![ctx[t].addr] = ctx[t].key]
    /\ shadowTable' = [shadowTable EXCEPT ![ctx[t].addr] =
                          Entry(ctx[t].addr, ctx[t].size, ctx[t].key)]
    /\ Drop({"NEXT_KEY", "SHADOW_TABLE"})
    /\ Goto(t, "m_ret", ctx[t])
    /\ UNCHANGED <<nextKey, system, program>>

\* Mutant of ReallocRestore: the size is put back and the key is not.
ReallocRestoresSizeOnly(t) ==
    /\ pc[t] = "r_restore"
    /\ Available("KEY_TABLE")
    /\ LET a == ctx[t].ptr.addr
       IN  shadowTable' = [shadowTable EXCEPT ![a] = Entry(a, ctx[t].oldSize, ctx[t].oldKey)]
    /\ Drop({"SHADOW_TABLE"})
    /\ owned' = owned \cup {ctx[t].ptr}
    /\ Return(t)
    /\ UNCHANGED <<nextKey, keyTable, system, frame, ptrs>>

\* The block is the program's again, under the key and size it had.
ReallocRestore(t) ==
    /\ pc[t] = "r_restore"
    /\ Available("KEY_TABLE")
    /\ LET a == ctx[t].ptr.addr
       IN  /\ keyTable' = [keyTable EXCEPT ![a] = ctx[t].oldKey]
           /\ shadowTable' = [shadowTable EXCEPT ![a] =
                                 Entry(a, ctx[t].oldSize, ctx[t].oldKey)]
    /\ Drop({"SHADOW_TABLE"})
    /\ owned' = owned \cup {ctx[t].ptr}
    /\ Return(t)
    /\ UNCHANGED <<nextKey, system, frame, ptrs>>

-----------------------------------------------------------------------------
(* A checked access: *p, and *p = q where q is a pointer *)

\* The spatial check, as far as a pointer to the start of an object can fail it.
InBounds(p) == p.meta = Wildcard \/ p.meta.base = p.addr

BeginAccess(t, p, c) ==
    /\ MayUse(t, p)
    /\ IF InBounds(p) THEN Begin(t, "c_key", c) ELSE Begin(t, "out_of_bounds", NoCtx)
    /\ UNCHANGED <<frame, owned>>

CallDeref(t) ==
    /\ "deref" \in Ops
    /\ \E p \in ptrs : BeginAccess(t, p, [NoCtx EXCEPT !.ptr = p])

\* Only a heap block is modelled as holding pointers.  Absent: q is NULL.
CallStore(t) ==
    /\ "store" \in Ops
    /\ \E p \in ptrs, m \in {q.meta : q \in ptrs} \cup {Absent} :
          /\ p.addr \in HeapAddr
          /\ BeginAccess(t, p, [NoCtx EXCEPT !.ptr = p, !.val = m, !.store = TRUE])

\* Mutant of CheckKey: any key will do.
CheckPresence(t) ==
    /\ pc[t] = "c_key"
    /\ LET m == ctx[t].ptr.meta
       IN  IF m.key = NoKey
           THEN UNCHANGED lock /\ Goto(t, "access", ctx[t])
           ELSE /\ Momentarily("KEY_TABLE")
                /\ IF keyTable[m.base] # NoKey
                   THEN Goto(t, "access", ctx[t])
                   ELSE Fail(t, "use_after_free")
    /\ UNCHANGED <<tables, system, program>>

\* Mutant of CheckKey: a dangling pointer is checked again and again.
CheckKeyRetries(t) ==
    /\ pc[t] = "c_key"
    /\ LET m == ctx[t].ptr.meta
       IN  IF m.key = NoKey
           THEN UNCHANGED lock /\ Goto(t, "access", ctx[t])
           ELSE /\ Momentarily("KEY_TABLE")
                /\ IF keyTable[m.base] = m.key
                   THEN Goto(t, "access", ctx[t])
                   ELSE Goto(t, "c_key", ctx[t])
    /\ UNCHANGED <<tables, system, program>>

\* KEY_TABLE is not consulted for a pointer without a key.
CheckKey(t) ==
    /\ pc[t] = "c_key"
    /\ LET m == ctx[t].ptr.meta
       IN  IF m.key = NoKey
           THEN UNCHANGED lock /\ Goto(t, "access", ctx[t])
           ELSE /\ Momentarily("KEY_TABLE")
                /\ IF keyTable[m.base] = m.key
                   THEN Goto(t, "access", ctx[t])
                   ELSE Fail(t, "use_after_free")
    /\ UNCHANGED <<tables, system, program>>

\* The load or store itself; no mutex is held.
Access(t) ==
    /\ pc[t] = "access"
    /\ IF ctx[t].store THEN Goto(t, "w_shadow", ctx[t]) ELSE Return(t)
    /\ UNCHANGED <<tables, lock, system, program>>

StoreShadow(t) ==
    /\ pc[t] = "w_shadow"
    /\ Momentarily("SHADOW_TABLE")
    /\ shadowTable' = [shadowTable EXCEPT ![ctx[t].ptr.addr] = ctx[t].val]
    /\ Return(t)
    /\ UNCHANGED <<nextKey, keyTable, system, program>>

-----------------------------------------------------------------------------
(* A scalar stack variable whose address is taken *)

CallDecl(t) ==
    /\ "decl" \in Ops
    /\ \E x \in StackAddr, n \in Sizes :
          /\ frame[x] = Nobody
          /\ frame' = [frame EXCEPT ![x] = t]
          /\ Begin(t, "s_key", [NoCtx EXCEPT !.addr = x, !.size = n])
    /\ UNCHANGED owned

GetNextKey(t) ==
    /\ pc[t] = "s_key"
    /\ Momentarily("NEXT_KEY")
    /\ nextKey' = nextKey + 1
    /\ Goto(t, "s_register", [ctx[t] EXCEPT !.key = nextKey])
    /\ UNCHANGED <<keyTable, shadowTable, system, program>>

RegisterStackKey(t) ==
    /\ pc[t] = "s_register"
    /\ Momentarily("KEY_TABLE")
    /\ keyTable' = [keyTable EXCEPT ![ctx[t].addr] = ctx[t].key]
    /\ ptrs' = ptrs \cup {[addr |-> ctx[t].addr,
                           meta |-> Entry(ctx[t].addr, ctx[t].size, ctx[t].key)]}
    /\ Return(t)
    /\ UNCHANGED <<nextKey, shadowTable, system, frame, owned>>

DeregisterStackKey(t) ==
    /\ pc[t] = "idle"
    /\ \E x \in StackAddr :
          /\ frame[x] = t
          /\ MayLeaveScope(t, x)
          /\ Momentarily("KEY_TABLE")
          /\ keyTable' = [keyTable EXCEPT ![x] = NoKey]
          /\ frame' = [frame EXCEPT ![x] = Nobody]
    /\ UNCHANGED <<nextKey, shadowTable, system, ptrs, owned, pc, ctx, calls, aborted>>

-----------------------------------------------------------------------------
Abort(t) ==
    /\ pc[t] \in Aborting
    /\ aborted' = TRUE
    /\ UNCHANGED <<tables, lock, system, program, pc, ctx, calls>>

Call(t) ==
    \/ CallMalloc(t) \/ CallAlignedAlloc(t) \/ CallFree(t) \/ CallRealloc(t)
    \/ CallDeref(t) \/ CallStore(t) \/ CallDecl(t) \/ DeregisterStackKey(t)

Malloc(t) ==
    \/ SysAlloc(t) \/ OutOfMemory(t)
    \/ MallocDrawKey(t) \/ MallocRegister(t) \/ MallocShadow(t) \/ LoadResult(t)

FreeBlock(t) == FreeRevoke(t) \/ FreeShadow(t) \/ SysFree(t)

Realloc(t) ==
    \/ ReallocLookup(t) \/ ReallocOldSize(t) \/ ReallocRevoke(t) \/ ReallocShadow(t)
    \/ SysRealloc(t) \/ SysReallocFails(t) \/ SysReallocFault(t)
    \/ ReallocDrawKey(t) \/ ReallocRegister(t) \/ ReallocRestore(t)

CheckedAccess(t) == CheckKey(t) \/ Access(t) \/ StoreShadow(t)

Declaration(t) == GetNextKey(t) \/ RegisterStackKey(t)

\* What a call does once it has begun.
Continue(t) ==
    \/ Malloc(t) \/ FreeBlock(t) \/ Realloc(t) \/ CheckedAccess(t) \/ Declaration(t)
    \/ Abort(t)

\* After a fault in the system allocator nothing is promised.
Running == ~aborted /\ ~fault

Step(t) == Running /\ (Call(t) \/ Continue(t))

Terminated ==
    /\ Running => \A t \in Threads : pc[t] = "idle"
    /\ UNCHANGED vars

Next == (\E t \in Threads : Step(t)) \/ Terminated

Spec == Init /\ [][Next]_vars

\* A thread inside the library is scheduled again.
FairSpec == Spec /\ \A t \in Threads : WF_vars(Running /\ Continue(t))

-----------------------------------------------------------------------------
(* Invariants *)

\* The locals that the step at a label reads have been set; a key has been drawn
\* exactly where one is being registered.
LocalsSet(label, c) ==
    /\ label \in Deallocating \cup Reallocating \cup Accessing => c.ptr \in Pointer
    /\ label \in {"m_key", "m_register", "m_shadow", "m_ret", "r_key", "r_register"}
          => c.addr \in HeapAddr
    /\ label \in Declaring => c.addr \in StackAddr
    /\ label \in {"m_register", "m_shadow", "m_ret", "r_register", "s_register"}
          <=> c.key # NoKey

DataOK ==
    /\ nextKey \in Nat \ {0}
    /\ keyTable \in [Addr -> Nat]
    /\ shadowTable \in [Addr -> Metadata]
    /\ lock \in [Locks -> Threads \cup {Nobody}]
    /\ heap \in [HeapAddr -> Nat \cup {Unallocated}]
    /\ fault \in BOOLEAN
    /\ frame \in [StackAddr -> Threads \cup {Nobody}]
    /\ ptrs \subseteq Pointer
    /\ owned \subseteq Pointer

ControlOK ==
    /\ pc \in [Threads -> Labels]
    /\ ctx \in [Threads -> Context]
    /\ \A t \in Threads : LocalsSet(pc[t], ctx[t])
    /\ calls \in [Threads -> 0 .. MaxCalls]
    /\ aborted \in BOOLEAN

\* Every variable holds a value the code can give it; keys start at 1; a call
\* reads no local it has not set.
TypeOK == DataOK /\ ControlOK

\* Wherever a key is kept: in the tables, in the pointers of the program and in
\* the locals of calls, with the address it is the key of.
KeyClaims     == {<<keyTable[a], a>> : a \in Addr}
ShadowClaims  == {<<shadowTable[a].key, shadowTable[a].base>> : a \in Addr}
PointerClaims == {<<p.meta.key, p.meta.base>> : p \in ptrs}
Held(c) == {<<c.key, c.addr>>, <<c.oldKey, c.ptr.addr>>,
            <<c.ptr.meta.key, c.ptr.meta.base>>, <<c.val.key, c.val.base>>}
LocalClaims == UNION {Held(ctx[t]) : t \in Threads}

Claims == KeyClaims \cup ShadowClaims \cup PointerClaims \cup LocalClaims

\* A key is the key of one address, in both tables, in every pointer and in the
\* locals of every unfinished call, whatever the program and the schedule do:
\* the mutex around NEXT_KEY makes keys unique, and no path pairs a key with an
\* address it was not drawn for.
KeysNameOneObject ==
    \A c, d \in Claims :
        c[1] # NoKey => c[1] < nextKey /\ (c[1] = d[1] => c[2] = d[2])

\* A block a thread is about to register, or has taken out of the table.
Keeps(t, a) ==
    \/ pc[t] \in {"m_key", "m_register", "r_key", "r_register"} /\ ctx[t].addr = a
    \/ pc[t] \in {"f_shadow", "f_sys", "r_shadow", "r_sys", "r_restore"}
          /\ ctx[t].ptr.addr = a

\* A block that the system allocator has handed out has one keeper, KEY_TABLE
\* or the one thread that registers or releases it; any other block has none.
\* Of two racing calls of free one finds the key and the other aborts.
OneKeeper ==
    \A a \in HeapAddr :
        /\ heap[a] # Unallocated <=> keyTable[a] # NoKey \/ \E t \in Threads : Keeps(t, a)
        /\ \A t \in Threads : Keeps(t, a) =>
              keyTable[a] = NoKey /\ \A u \in Threads : Keeps(u, a) => u = t

\* free and realloc pass on only blocks that the system allocator has handed
\* out and not had back.
SystemHeapSafe == ~fault

\* A registered block has the shadow entry malloc gave it: its address, the
\* size the system allocator knows and its key.  In between, KEY_TABLE is held.
AllocationMetadata ==
    \A a \in HeapAddr :
        keyTable[a] # NoKey /\ Available("KEY_TABLE") =>
            shadowTable[a] = Entry(a, heap[a], keyTable[a])

\* An access that passed __stricc_rt_check_bounds is over before the object is
\* released: its key is still the registered one.
AccessLive ==
    \A t \in Threads : pc[t] \in {"access", "w_shadow"} =>
        LET m == ctx[t].ptr.meta
        IN  /\ m.key # NoKey /\ keyTable[m.base] = m.key
            /\ m.base \in HeapAddr => Allocated(m.base)

\* free and realloc take away the key of the pointer they were given, as the
\* documents say, and not that of another block at the same address.
ReleasesNamedBlock ==
    \A t \in Threads :
        pc[t] \in {"f_shadow", "f_sys", "r_size", "r_revoke", "r_shadow", "r_sys"} =>
            ctx[t].oldKey = ctx[t].ptr.meta.key

\* A release or a dereference of a block the program owns is never mistaken
\* for a double free, an invalid realloc or a use after free; a block that a failed
\* realloc left where it was is still the program's, under the pointers it has.
NoFalseAlarm ==
    \A t \in Threads :
        pc[t] \in Aborting =>
            /\ pc[t] \notin {"double_free", "invalid_realloc", "out_of_bounds"}
            /\ ctx[t].ptr \notin owned

\* The size a failed realloc puts back is the size of the block.
RestoresSize ==
    \A t \in Threads : pc[t] = "r_restore" => ctx[t].oldSize = heap[ctx[t].ptr.addr]

\* The mutex a thread is blocked on, if it is blocked.
Wants(t) ==
    CASE pc[t] \in {"m_key", "r_key", "s_key"} -> "NEXT_KEY"
      [] pc[t] \in {"m_register", "r_register", "r_restore", "f_key", "r_lookup",
                    "r_revoke", "c_key", "s_register"} -> "KEY_TABLE"
      [] pc[t] \in {"m_shadow", "m_ret", "f_shadow", "r_size", "r_shadow",
                    "w_shadow"} -> "SHADOW_TABLE"
      [] OTHER -> "none"

Blocks(u, t) == Wants(t) \in Locks /\ lock[Wants(t)] = u

\* No threads of the library, however many, wait for one another in a circle: of any that
\* are blocked, one is blocked by none of them.
NoCircularWait ==
    \A circle \in (SUBSET Threads) \ {{}} :
        \E t \in circle : \A u \in circle : ~Blocks(u, t)

-----------------------------------------------------------------------------
(* Liveness *)

\* A call of the library comes to an end, unless the process does.
CallsComplete == \A t \in Threads : pc[t] # "idle" ~> pc[t] = "idle" \/ ~Running

-----------------------------------------------------------------------------
(* The two tables and three mutexes implement the keys of TemporalKeys.  A  *)
(* block keeps its key through a realloc until the system allocator has     *)
(* moved it: if that fails the same key is registered again.                *)

Suspended(t, a) == pc[t] \in {"r_shadow", "r_sys", "r_restore"} /\ ctx[t].ptr.addr = a

Home(a) ==
    IF \E t \in Threads : Suspended(t, a)
    THEN ctx[CHOOSE t \in Threads : Suspended(t, a)].oldKey
    ELSE keyTable[a]

Drawn(t) ==
    IF pc[t] \in {"m_register", "r_register", "s_register"} THEN ctx[t].key ELSE NoKey

AccessKey(t) ==
    IF pc[t] \in {"access", "w_shadow"} THEN ctx[t].ptr.meta.key ELSE NoKey

Keys == INSTANCE TemporalKeys WITH
            Places <- Addr,
            next   <- nextKey,
            drawn  <- [t \in Threads |-> Drawn(t)],
            home   <- [a \in Addr |-> Home(a)],
            access <- [t \in Threads |-> AccessKey(t)]

\* A disciplined program sees an object live from its registration to its
\* release, enters an access only with the key of a live object, never loses
\* the object during the access, and never sees a retired key again.
ImplementsTemporalKeys == Keys!Spec

\* What ImplementsTemporalKeys implies of a key:
\* once the key of a block or variable is out of KEY_TABLE and of every call, no malloc,
\* realloc or declaration brings it back and no check accepts it, however often the address
\* is used again.
KeysRetiredForGood == Keys!RetiredForGood
=============================================================================
