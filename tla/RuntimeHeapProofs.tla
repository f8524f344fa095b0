-------------------------- MODULE RuntimeHeapProofs --------------------------
(***************************************************************************)
(* What holds of RuntimeHeap for any threads, addresses, sizes and number  *)
(* of calls.                                                               *)
(***************************************************************************)
EXTENDS RuntimeHeap, TLAPS

USE AddrAssumption, DataAssumption

-----------------------------------------------------------------------------
(* Types of the pieces *)

LEMMA EntryType ==
    ASSUME NEW a \in Addr \cup {Null}, NEW n \in Nat, NEW k \in Nat
    PROVE  Entry(a, n, k) \in Metadata
BY DEF Entry, Metadata

LEMMA ConstantTypes == Absent \in Metadata /\ Wildcard \in Metadata /\ NoCtx \in Context
BY DEF Absent, Wildcard, Metadata, NoKey, NoCtx, Context, NoPtr

LEMMA ContextUpdates ==
    ASSUME NEW c \in Context, NEW n \in Nat, NEW a \in Addr \cup {Null}
    PROVE  /\ [c EXCEPT !.key = n] \in Context
           /\ [c EXCEPT !.oldKey = n] \in Context
           /\ [c EXCEPT !.oldSize = n] \in Context
           /\ [c EXCEPT !.addr = a] \in Context
BY DEF Context

LEMMA LoadType ==
    ASSUME DataOK, NEW a \in Addr
    PROVE  ShadowLoad(a) \in Metadata
BY ConstantTypes DEF ShadowLoad, DataOK

-----------------------------------------------------------------------------
(* Control flow *)

LEMMA GotoOK ==
    ASSUME ControlOK, NEW t \in Threads, NEW label \in Labels, NEW c \in Context,
           LocalsSet(label, c), Goto(t, label, c)
    PROVE  ControlOK'
<1>1. pc' \in [Threads -> Labels] /\ ctx' \in [Threads -> Context]
  BY DEF ControlOK, Goto
<1>2. ASSUME NEW u \in Threads PROVE LocalsSet(pc'[u], ctx'[u])
  <2>1. CASE u = t
    BY <2>1 DEF ControlOK, Goto
  <2>2. CASE u # t
    <3>1. pc'[u] = pc[u] /\ ctx'[u] = ctx[u]
      BY <2>2 DEF ControlOK, Goto
    <3>2. QED
      BY <3>1 DEF ControlOK
  <2>3. QED
    BY <2>1, <2>2
<1>3. QED
  BY <1>1, <1>2 DEF ControlOK, Goto, LocalsSet

LEMMA BeginOK ==
    ASSUME ControlOK, NEW t \in Threads, NEW label \in Labels, NEW c \in Context,
           LocalsSet(label, c), Begin(t, label, c)
    PROVE  ControlOK'
<1>1. pc' \in [Threads -> Labels] /\ ctx' \in [Threads -> Context]
  BY DEF ControlOK, Begin
<1>2. ASSUME NEW u \in Threads PROVE LocalsSet(pc'[u], ctx'[u])
  <2>1. CASE u = t
    BY <2>1 DEF ControlOK, Begin
  <2>2. CASE u # t
    <3>1. pc'[u] = pc[u] /\ ctx'[u] = ctx[u]
      BY <2>2 DEF ControlOK, Begin
    <3>2. QED
      BY <3>1 DEF ControlOK
  <2>3. QED
    BY <2>1, <2>2
<1>3. calls' \in [Threads -> 0 .. MaxCalls] /\ aborted' \in BOOLEAN
  BY DEF ControlOK, Begin
<1>4. QED
  BY <1>1, <1>2, <1>3 DEF ControlOK, LocalsSet

LEMMA ReturnOK ==
    ASSUME ControlOK, NEW t \in Threads, Return(t)
    PROVE  ControlOK'
<1>1. "idle" \in Labels /\ LocalsSet("idle", NoCtx)
  BY DEF Labels, NoCtx, LocalsSet, Deallocating, Reallocating, Accessing, Declaring
<1>2. QED
  BY <1>1, GotoOK, ConstantTypes DEF Return

-----------------------------------------------------------------------------
(* Type correctness, one group of steps at a time *)

LEMMA MallocType ==
    ASSUME TypeOK, NEW t \in Threads, Malloc(t)
    PROVE  TypeOK'
<1> USE DEF TypeOK
<1>1. ctx[t] \in Context /\ pc[t] \in Labels /\ LocalsSet(pc[t], ctx[t])
  BY DEF ControlOK
<1>2. CASE SysAlloc(t)
  <2>1. PICK a \in HeapAddr : /\ heap' = [heap EXCEPT ![a] = ctx[t].size]
                              /\ Goto(t, "m_key", [ctx[t] EXCEPT !.addr = a])
    BY <1>2 DEF SysAlloc
  <2>2. [ctx[t] EXCEPT !.addr = a] \in Context /\ ctx[t].size \in Nat
    BY <1>1, ContextUpdates DEF Context, Addr
  <2>3. LocalsSet("m_key", [ctx[t] EXCEPT !.addr = a])
    BY <1>1, <1>2 DEF SysAlloc, LocalsSet, Context, Deallocating, Reallocating, Accessing, Declaring
  <2>4. ControlOK'
    BY <2>1, <2>2, <2>3, GotoOK DEF Labels, Allocating
  <2>5. DataOK'
    BY <1>2, <2>1, <2>2 DEF SysAlloc, DataOK, tables, program
  <2>6. QED
    BY <2>4, <2>5
<1>3. CASE OutOfMemory(t)
  BY <1>3, ReturnOK DEF OutOfMemory, DataOK, tables, system, program
<1>4. CASE MallocDrawKey(t)
  <2>1. [ctx[t] EXCEPT !.key = nextKey] \in Context
    BY <1>1, ContextUpdates DEF DataOK
  <2>2. LocalsSet("m_register", [ctx[t] EXCEPT !.key = nextKey])
    BY <1>1, <1>4 DEF DataOK, NoKey, LocalsSet, Context, MallocDrawKey, Deallocating, Reallocating,
                      Accessing, Declaring
  <2>3. ControlOK'
    BY <1>4, <2>1, <2>2, GotoOK DEF MallocDrawKey, Labels, Allocating
  <2>4. DataOK'
    BY <1>4 DEF MallocDrawKey, DataOK, Take, Locks, system, program
  <2>5. QED
    BY <2>3, <2>4
<1>5. CASE MallocRegister(t)
  <2>1. LocalsSet("m_shadow", ctx[t])
    BY <1>1, <1>5 DEF LocalsSet, MallocRegister, Deallocating, Reallocating,
                      Accessing, Declaring
  <2>2. ControlOK'
    BY <1>1, <1>5, <2>1, GotoOK DEF MallocRegister, Labels, Allocating
  <2>3. DataOK'
    BY <1>1, <1>5 DEF MallocRegister, DataOK, Take, Locks, Context, system, program
  <2>4. QED
    BY <2>2, <2>3
<1>6. CASE MallocShadow(t)
  <2>1. LocalsSet("m_ret", ctx[t])
    BY <1>1, <1>6 DEF LocalsSet, MallocShadow, Deallocating, Reallocating,
                      Accessing, Declaring
  <2>2. ControlOK'
    BY <1>1, <1>6, <2>1, GotoOK DEF MallocShadow, Labels, Allocating
  <2>3. Entry(ctx[t].addr, ctx[t].size, ctx[t].key) \in Metadata
    BY <1>1, EntryType DEF Context
  <2>4. DataOK'
    BY <1>6, <2>3 DEF MallocShadow, DataOK, Drop, Locks, system, program
  <2>5. QED
    BY <2>2, <2>4
<1>7. CASE LoadResult(t)
  <2>1. ctx[t].addr \in Addr
    BY <1>1, <1>7 DEF LocalsSet, LoadResult, Addr
  <2>2. [addr |-> ctx[t].addr, meta |-> ShadowLoad(ctx[t].addr)] \in Pointer
    BY <2>1, LoadType DEF Pointer
  <2>3. DataOK'
    BY <1>7, <2>2 DEF LoadResult, DataOK, Momentarily, tables, system
  <2>4. QED
    BY <1>7, <2>3, ReturnOK DEF LoadResult
<1>8. QED
  BY <1>2, <1>3, <1>4, <1>5, <1>6, <1>7 DEF Malloc

LEMMA FreeBlockType ==
    ASSUME TypeOK, NEW t \in Threads, FreeBlock(t)
    PROVE  TypeOK'
<1> USE DEF TypeOK
<1>1. ctx[t] \in Context /\ pc[t] \in Labels /\ LocalsSet(pc[t], ctx[t])
  BY DEF ControlOK
<1>2. CASE FreeRevoke(t)
  <2>1. ctx[t].ptr.addr \in Addr /\ keyTable[ctx[t].ptr.addr] \in Nat
    BY <1>1, <1>2 DEF FreeRevoke, LocalsSet, Pointer, DataOK, Deallocating
  <2>2. [ctx[t] EXCEPT !.oldKey = keyTable[ctx[t].ptr.addr]] \in Context
    BY <1>1, <2>1, ContextUpdates
  <2>3. /\ LocalsSet("f_shadow", [ctx[t] EXCEPT !.oldKey = keyTable[ctx[t].ptr.addr]])
        /\ LocalsSet("double_free", ctx[t])
    BY <1>1, <1>2 DEF FreeRevoke, LocalsSet, Context, Deallocating, Reallocating,
                      Accessing, Declaring
  <2>4. ControlOK'
    BY <1>1, <1>2, <2>2, <2>3, GotoOK DEF FreeRevoke, Fail, Labels, Aborting, Deallocating
  <2>5. DataOK'
    BY <1>2 DEF FreeRevoke, DataOK, Momentarily, NoKey, system, program
  <2>6. QED
    BY <2>4, <2>5
<1>3. CASE FreeShadow(t)
  <2>1. LocalsSet("f_sys", ctx[t])
    BY <1>1, <1>3 DEF FreeShadow, LocalsSet, Deallocating, Reallocating, Accessing, Declaring
  <2>2. ControlOK'
    BY <1>1, <1>3, <2>1, GotoOK DEF FreeShadow, Labels, Deallocating
  <2>3. DataOK'
    BY <1>3, ConstantTypes DEF FreeShadow, DataOK, Take, Locks, system, program
  <2>4. QED
    BY <2>2, <2>3
<1>4. CASE SysFree(t)
  <2>1. DataOK'
    BY <1>4 DEF SysFree, DataOK, Drop, Locks, tables, program
  <2>2. QED
    BY <1>4, <2>1, ReturnOK DEF SysFree
<1>5. QED
  BY <1>2, <1>3, <1>4 DEF FreeBlock

LEMMA ReallocType ==
    ASSUME TypeOK, NEW t \in Threads, Realloc(t)
    PROVE  TypeOK'
<1> USE DEF TypeOK
<1>1. ctx[t] \in Context /\ pc[t] \in Labels /\ LocalsSet(pc[t], ctx[t])
  BY DEF ControlOK
<1>2. CASE ReallocLookup(t)
  <2> DEFINE k == keyTable[ctx[t].ptr.addr]
             c == [ctx[t] EXCEPT !.oldKey = k]
  <2>1. k \in Nat
    BY <1>1, <1>2 DEF ReallocLookup, LocalsSet, Pointer, DataOK, Reallocating
  <2>2. c \in Context
    BY <1>1, <2>1, ContextUpdates
  <2>3. LocalsSet("r_size", c) /\ LocalsSet("invalid_realloc", ctx[t])
    BY <1>1, <1>2 DEF ReallocLookup, LocalsSet, Context, Deallocating, Reallocating,
                      Accessing, Declaring
  <2>4. ControlOK'
    BY <1>1, <1>2, <2>2, <2>3, GotoOK DEF ReallocLookup, Fail, Labels, Aborting, Reallocating
  <2>5. DataOK'
    BY <1>2 DEF ReallocLookup, DataOK, Momentarily, tables, system, program
  <2>6. QED
    BY <2>4, <2>5
<1>3. CASE ReallocOldSize(t)
  <2> DEFINE c == [ctx[t] EXCEPT !.oldSize = shadowTable[ctx[t].ptr.addr].size]
  <2>1. shadowTable[ctx[t].ptr.addr].size \in Nat
    BY <1>1, <1>3 DEF ReallocOldSize, LocalsSet, Pointer, DataOK, Metadata, Reallocating
  <2>2. c \in Context
    BY <1>1, <2>1, ContextUpdates
  <2>3. LocalsSet("r_revoke", c)
    BY <1>1, <1>3 DEF ReallocOldSize, LocalsSet, Context, Deallocating, Reallocating,
                      Accessing, Declaring
  <2>4. ControlOK'
    BY <1>3, <2>2, <2>3, GotoOK DEF ReallocOldSize, Labels, Reallocating
  <2>5. DataOK'
    BY <1>3 DEF ReallocOldSize, DataOK, Momentarily, tables, system, program
  <2>6. QED
    BY <2>4, <2>5
<1>4. CASE ReallocRevoke(t)
  <2>1. LocalsSet("r_shadow", ctx[t])
    BY <1>1, <1>4 DEF ReallocRevoke, LocalsSet, Deallocating, Reallocating, Accessing, Declaring
  <2>2. ControlOK'
    BY <1>1, <1>4, <2>1, GotoOK DEF ReallocRevoke, Labels, Reallocating
  <2>3. DataOK'
    BY <1>4 DEF ReallocRevoke, DataOK, Momentarily, NoKey, system, program
  <2>4. QED
    BY <2>2, <2>3
<1>5. CASE ReallocShadow(t)
  <2>1. LocalsSet("r_sys", ctx[t])
    BY <1>1, <1>5 DEF ReallocShadow, LocalsSet, Deallocating, Reallocating, Accessing, Declaring
  <2>2. ControlOK'
    BY <1>1, <1>5, <2>1, GotoOK DEF ReallocShadow, Labels, Reallocating
  <2>3. DataOK'
    BY <1>5, ConstantTypes DEF ReallocShadow, DataOK, Take, Locks, system, program
  <2>4. QED
    BY <2>2, <2>3
<1>6. CASE SysRealloc(t)
  <2>1. PICK a \in HeapAddr :
           /\ heap' = [heap EXCEPT ![ctx[t].ptr.addr] = Unallocated, ![a] = ctx[t].size]
           /\ Goto(t, "r_key", [ctx[t] EXCEPT !.addr = a])
    BY <1>6 DEF SysRealloc
  <2>2. [ctx[t] EXCEPT !.addr = a] \in Context /\ ctx[t].size \in Nat
    BY <1>1, ContextUpdates DEF Context, Addr
  <2>3. LocalsSet("r_key", [ctx[t] EXCEPT !.addr = a])
    BY <1>1, <1>6 DEF SysRealloc, LocalsSet, Context, Deallocating, Reallocating,
                      Accessing, Declaring
  <2>4. ControlOK'
    BY <2>1, <2>2, <2>3, GotoOK DEF Labels, Reallocating
  <2>5. DataOK'
    BY <1>6, <2>1, <2>2 DEF SysRealloc, DataOK, tables, program
  <2>6. QED
    BY <2>4, <2>5
<1>7. CASE SysReallocFails(t)
  <2>1. LocalsSet("r_restore", ctx[t])
    BY <1>1, <1>7 DEF SysReallocFails, LocalsSet, Deallocating, Reallocating,
                      Accessing, Declaring
  <2>2. ControlOK'
    BY <1>1, <1>7, <2>1, GotoOK DEF SysReallocFails, Labels, Reallocating
  <2>3. QED
    BY <1>7, <2>2 DEF SysReallocFails, DataOK, tables, system, program
<1>8. CASE SysReallocFault(t)
  BY <1>8 DEF SysReallocFault, DataOK, ControlOK, tables, program
<1>9. CASE ReallocDrawKey(t)
  <2>1. [ctx[t] EXCEPT !.key = nextKey] \in Context
    BY <1>1, ContextUpdates DEF DataOK
  <2>2. LocalsSet("r_register", [ctx[t] EXCEPT !.key = nextKey])
    BY <1>1, <1>9 DEF DataOK, NoKey, LocalsSet, Context, ReallocDrawKey, Deallocating, Reallocating,
                      Accessing, Declaring
  <2>3. ControlOK'
    BY <1>9, <2>1, <2>2, GotoOK DEF ReallocDrawKey, Labels, Reallocating
  <2>4. DataOK'
    BY <1>9 DEF ReallocDrawKey, DataOK, Take, Locks, system, program
  <2>5. QED
    BY <2>3, <2>4
<1>10. CASE ReallocRegister(t)
  <2>1. LocalsSet("m_ret", ctx[t])
    BY <1>1, <1>10 DEF LocalsSet, ReallocRegister, Deallocating, Reallocating,
                       Accessing, Declaring
  <2>2. ControlOK'
    BY <1>1, <1>10, <2>1, GotoOK DEF ReallocRegister, Labels, Allocating
  <2>3. Entry(ctx[t].addr, ctx[t].size, ctx[t].key) \in Metadata /\ ctx[t].key \in Nat
    BY <1>1, EntryType DEF Context
  <2>4. DataOK'
    BY <1>10, <2>3 DEF ReallocRegister, DataOK, Drop, Locks, system, program
  <2>5. QED
    BY <2>2, <2>4
<1>11. CASE ReallocRestore(t)
  <2>1. ctx[t].ptr \in Pointer
    BY <1>1, <1>11 DEF LocalsSet, ReallocRestore, Reallocating
  <2>2. /\ Entry(ctx[t].ptr.addr, ctx[t].oldSize, ctx[t].oldKey) \in Metadata
        /\ ctx[t].oldKey \in Nat
    BY <1>1, <2>1, EntryType DEF Context, Pointer
  <2>3. DataOK'
    BY <1>11, <2>1, <2>2 DEF ReallocRestore, DataOK, Drop, Locks, system
  <2>4. QED
    BY <1>11, <2>3, ReturnOK DEF ReallocRestore
<1>12. QED
  BY <1>2, <1>3, <1>4, <1>5, <1>6, <1>7, <1>8, <1>9, <1>10, <1>11 DEF Realloc

LEMMA CheckedAccessType ==
    ASSUME TypeOK, NEW t \in Threads, CheckedAccess(t)
    PROVE  TypeOK'
<1> USE DEF TypeOK
<1>1. ctx[t] \in Context /\ pc[t] \in Labels /\ LocalsSet(pc[t], ctx[t])
  BY DEF ControlOK
<1>2. CASE CheckKey(t)
  <2>1. LocalsSet("access", ctx[t]) /\ LocalsSet("use_after_free", ctx[t])
    BY <1>1, <1>2 DEF CheckKey, LocalsSet, Deallocating, Reallocating, Accessing, Declaring
  <2>2. ControlOK'
    BY <1>1, <1>2, <2>1, GotoOK DEF CheckKey, Fail, Labels, Accessing, Aborting
  <2>3. DataOK'
    BY <1>2 DEF CheckKey, DataOK, Momentarily, tables, system, program
  <2>4. QED
    BY <2>2, <2>3
<1>3. CASE Access(t)
  <2>1. LocalsSet("w_shadow", ctx[t])
    BY <1>1, <1>3 DEF Access, LocalsSet, Deallocating, Reallocating, Accessing, Declaring
  <2>2. ControlOK'
    BY <1>1, <1>3, <2>1, GotoOK, ReturnOK DEF Access, Labels, Accessing
  <2>3. DataOK'
    BY <1>3 DEF Access, DataOK, tables, system, program
  <2>4. QED
    BY <2>2, <2>3
<1>4. CASE StoreShadow(t)
  <2>1. ctx[t].val \in Metadata
    BY <1>1 DEF Context
  <2>2. DataOK'
    BY <1>4, <2>1 DEF StoreShadow, DataOK, Momentarily, system, program
  <2>3. QED
    BY <1>4, <2>2, ReturnOK DEF StoreShadow
<1>5. QED
  BY <1>2, <1>3, <1>4 DEF CheckedAccess

LEMMA DeclarationType ==
    ASSUME TypeOK, NEW t \in Threads, Declaration(t)
    PROVE  TypeOK'
<1> USE DEF TypeOK
<1>1. ctx[t] \in Context /\ pc[t] \in Labels /\ LocalsSet(pc[t], ctx[t])
  BY DEF ControlOK
<1>2. CASE GetNextKey(t)
  <2>1. [ctx[t] EXCEPT !.key = nextKey] \in Context
    BY <1>1, ContextUpdates DEF DataOK
  <2>2. LocalsSet("s_register", [ctx[t] EXCEPT !.key = nextKey])
    BY <1>1, <1>2 DEF DataOK, NoKey, GetNextKey, LocalsSet, Context, Deallocating, Reallocating,
                      Accessing, Declaring
  <2>3. ControlOK'
    BY <1>2, <2>1, <2>2, GotoOK DEF GetNextKey, Labels, Declaring
  <2>4. DataOK'
    BY <1>2 DEF GetNextKey, DataOK, Momentarily, system, program
  <2>5. QED
    BY <2>3, <2>4
<1>3. CASE RegisterStackKey(t)
  <2> DEFINE p == [addr |-> ctx[t].addr,
                   meta |-> Entry(ctx[t].addr, ctx[t].size, ctx[t].key)]
  <2>1. ctx[t].addr \in Addr /\ ctx[t].size \in Nat /\ ctx[t].key \in Nat
    BY <1>1, <1>3 DEF RegisterStackKey, LocalsSet, Context, Declaring, Addr
  <2>2. p \in Pointer
    BY <2>1, EntryType DEF Pointer
  <2>3. DataOK'
    BY <1>3, <2>1, <2>2 DEF RegisterStackKey, DataOK, Momentarily, system
  <2>4. QED
    BY <1>3, <2>3, ReturnOK DEF RegisterStackKey
<1>4. QED
  BY <1>2, <1>3 DEF Declaration

LEMMA CallType ==
    ASSUME TypeOK, NEW t \in Threads, Call(t)
    PROVE  TypeOK'
<1> USE DEF TypeOK
<1> NoCtx \in Context /\ Absent \in Metadata
  BY ConstantTypes
<1>1. CASE CallMalloc(t)
  <2>1. PICK n \in Sizes : Begin(t, "m_sys", [NoCtx EXCEPT !.size = n])
    BY <1>1 DEF CallMalloc
  <2>2. [NoCtx EXCEPT !.size = n] \in Context
    BY DEF Context
  <2>3. ControlOK'
    BY <2>1, <2>2, BeginOK DEF NoCtx, LocalsSet, Labels, Allocating, Deallocating, Reallocating,
                               Accessing, Declaring
  <2>4. DataOK'
    BY <1>1, <2>1 DEF CallMalloc, Begin, DataOK, tables, system
  <2>5. QED
    BY <2>3, <2>4
<1>2. CASE CallAlignedAlloc(t)
  <2>1. PICK n \in Sizes : \/ Begin(t, "m_sys", [NoCtx EXCEPT !.size = n])
                           \/ Begin(t, "bad_alignment", NoCtx)
    BY <1>2 DEF CallAlignedAlloc
  <2>2. [NoCtx EXCEPT !.size = n] \in Context
    BY DEF Context
  <2>3. ControlOK'
    BY <2>1, <2>2, BeginOK DEF NoCtx, LocalsSet, Labels, Allocating, Deallocating, Reallocating,
                               Accessing, Declaring, Aborting
  <2>4. DataOK'
    BY <1>2, <2>1 DEF CallAlignedAlloc, Begin, DataOK, tables, system
  <2>5. QED
    BY <2>3, <2>4
<1>3. CASE CallFree(t)
  <2>1. PICK p \in ptrs : /\ Begin(t, "f_key", [NoCtx EXCEPT !.ptr = p])
                          /\ owned' = owned \ {p}
    BY <1>3 DEF CallFree
  <2>2. p \in Pointer
    BY DEF DataOK
  <2>3. [NoCtx EXCEPT !.ptr = p] \in Context /\ [NoCtx EXCEPT !.ptr = p].ptr = p
    BY <2>2 DEF Context
  <2>4. ControlOK'
    BY <2>1, <2>2, <2>3, BeginOK DEF NoCtx, LocalsSet, Labels, Deallocating, Declaring
  <2>5. DataOK'
    BY <1>3, <2>1 DEF CallFree, Begin, DataOK, tables, system
  <2>6. QED
    BY <2>4, <2>5
<1>4. CASE CallRealloc(t)
  <2>1. PICK p \in ptrs, n \in Sizes :
           /\ Begin(t, "r_lookup", [NoCtx EXCEPT !.ptr = p, !.size = n])
           /\ owned' = owned \ {p}
    BY <1>4 DEF CallRealloc
  <2>2. p \in Pointer
    BY DEF DataOK
  <2>3. /\ [NoCtx EXCEPT !.ptr = p, !.size = n] \in Context
        /\ [NoCtx EXCEPT !.ptr = p, !.size = n].ptr = p
    BY <2>2 DEF Context
  <2>4. ControlOK'
    BY <2>1, <2>2, <2>3, BeginOK DEF NoCtx, LocalsSet, Labels, Reallocating, Declaring
  <2>5. DataOK'
    BY <1>4, <2>1 DEF CallRealloc, Begin, DataOK, tables, system
  <2>6. QED
    BY <2>4, <2>5
<1>5. CASE CallDeref(t)
  <2>1. PICK p \in ptrs : BeginAccess(t, p, [NoCtx EXCEPT !.ptr = p])
    BY <1>5 DEF CallDeref
  <2>2. p \in Pointer
    BY DEF DataOK
  <2>3. [NoCtx EXCEPT !.ptr = p] \in Context /\ [NoCtx EXCEPT !.ptr = p].ptr = p
    BY <2>2 DEF Context
  <2>4. ControlOK'
    BY <2>1, <2>2, <2>3, BeginOK DEF BeginAccess, NoCtx, LocalsSet, Labels, Allocating,
          Deallocating, Reallocating, Accessing, Declaring, Aborting
  <2>5. DataOK'
    BY <2>1 DEF BeginAccess, Begin, DataOK, tables, system
  <2>6. QED
    BY <2>4, <2>5
<1>6. CASE CallStore(t)
  <2>1. PICK p \in ptrs, m \in {q.meta : q \in ptrs} \cup {Absent} :
           BeginAccess(t, p, [NoCtx EXCEPT !.ptr = p, !.val = m, !.store = TRUE])
    BY <1>6 DEF CallStore
  <2> DEFINE c == [NoCtx EXCEPT !.ptr = p, !.val = m, !.store = TRUE]
  <2>2. p \in Pointer /\ m \in Metadata
    BY DEF DataOK, Pointer
  <2>3. c \in Context /\ c.ptr = p
    BY <2>2 DEF Context
  <2>4. ControlOK'
    BY <2>1, <2>2, <2>3, BeginOK DEF BeginAccess, NoCtx, LocalsSet, Labels, Allocating,
          Deallocating, Reallocating, Accessing, Declaring, Aborting
  <2>5. DataOK'
    BY <2>1 DEF BeginAccess, Begin, DataOK, tables, system
  <2>6. QED
    BY <2>4, <2>5
<1>7. CASE CallDecl(t)
  <2>1. PICK x \in StackAddr, n \in Sizes :
           /\ frame' = [frame EXCEPT ![x] = t]
           /\ Begin(t, "s_key", [NoCtx EXCEPT !.addr = x, !.size = n])
    BY <1>7 DEF CallDecl
  <2>2. /\ [NoCtx EXCEPT !.addr = x, !.size = n] \in Context
        /\ [NoCtx EXCEPT !.addr = x, !.size = n].addr = x
    BY DEF Context, Addr
  <2>3. ControlOK'
    BY <2>1, <2>2, BeginOK DEF NoCtx, LocalsSet, Labels, Allocating, Deallocating, Reallocating,
                               Accessing, Declaring
  <2>4. DataOK'
    BY <1>7, <2>1 DEF CallDecl, Begin, DataOK, tables, system
  <2>5. QED
    BY <2>3, <2>4
<1>8. CASE DeregisterStackKey(t)
  <2>1. DataOK'
    <3>1. PICK x \in StackAddr : /\ keyTable' = [keyTable EXCEPT ![x] = NoKey]
                                 /\ frame' = [frame EXCEPT ![x] = Nobody]
                                 /\ UNCHANGED lock
      BY <1>8 DEF DeregisterStackKey, Momentarily
    <3>2. /\ keyTable' \in [Addr -> Nat]
          /\ frame' \in [StackAddr -> Threads \cup {Nobody}]
      BY <3>1 DEF DataOK, NoKey
    <3>3. QED
      BY <1>8, <3>1, <3>2 DEF DeregisterStackKey, DataOK, system
  <2>2. ControlOK'
    BY <1>8 DEF DeregisterStackKey, ControlOK, LocalsSet
  <2>3. QED
    BY <2>1, <2>2
<1>9. QED
  BY <1>1, <1>2, <1>3, <1>4, <1>5, <1>6, <1>7, <1>8 DEF Call

LEMMA TypeStep == TypeOK /\ [Next]_vars => TypeOK'
<1> SUFFICES ASSUME TypeOK, [Next]_vars PROVE TypeOK'
  OBVIOUS
<1>1. ASSUME NEW t \in Threads, Step(t) PROVE TypeOK'
  <2>1. CASE Abort(t)
    BY <2>1 DEF Abort, TypeOK, DataOK, ControlOK, tables, system, program
  <2>2. QED
    BY <1>1, <2>1, CallType, MallocType, FreeBlockType, ReallocType, CheckedAccessType,
       DeclarationType DEF Step, Continue
<1>2. CASE UNCHANGED vars
  BY <1>2 DEF vars, TypeOK, DataOK, ControlOK, tables, system, program
<1>3. QED
  BY <1>1, <1>2 DEF Next, Terminated

LEMMA TypeInit == Init => TypeOK
<1> SUFFICES ASSUME Init PROVE TypeOK
  OBVIOUS
<1>1. DataOK
  <2>1. /\ nextKey \in Nat \ {0}
        /\ keyTable \in [Addr -> Nat]
        /\ shadowTable \in [Addr -> Metadata]
    BY ConstantTypes DEF Init, NoKey
  <2>2. /\ lock \in [Locks -> Threads \cup {Nobody}]
        /\ heap \in [HeapAddr -> Nat \cup {Unallocated}]
        /\ frame \in [StackAddr -> Threads \cup {Nobody}]
    BY DEF Init
  <2>3. fault \in BOOLEAN /\ ptrs \subseteq Pointer /\ owned \subseteq Pointer
    BY DEF Init
  <2>4. QED
    BY <2>1, <2>2, <2>3 DEF DataOK
<1>2. pc \in [Threads -> Labels] /\ ctx \in [Threads -> Context]
  BY ConstantTypes DEF Init, Labels
<1>3. ASSUME NEW t \in Threads PROVE LocalsSet(pc[t], ctx[t])
  BY DEF Init, NoCtx, LocalsSet, Deallocating, Reallocating, Accessing, Declaring
<1>4. calls \in [Threads -> 0 .. MaxCalls]
  <2>1. 0 \in 0 .. MaxCalls
    BY SMT
  <2>2. QED
    BY <2>1 DEF Init
<1>5. aborted \in BOOLEAN
  BY DEF Init
<1>6. QED
  BY <1>1, <1>2, <1>3, <1>4, <1>5 DEF TypeOK, ControlOK

\* No step of any program, under any schedule, leaves a table, a mutex or a
\* call with a value of the wrong kind, or reads a local it has not set.
THEOREM TypeCorrect == Spec => []TypeOK
BY TypeInit, TypeStep, PTL DEF Spec

-----------------------------------------------------------------------------
(* A key names one object: a step adds no claim but on the key it draws *)

LEMMA KeyClaimsAfter ==
    ASSUME TypeOK, NEW x, NEW k, keyTable' = [keyTable EXCEPT ![x] = k],
           <<k, x>> \in Claims \/ k = NoKey
    PROVE  \A c \in KeyClaims' : c \in Claims \/ c[1] = NoKey
<1>1. \A c \in KeyClaims' : c \in KeyClaims \/ c = <<k, x>>
  BY DEF TypeOK, DataOK, KeyClaims
<1>2. QED
  BY <1>1 DEF Claims

LEMMA ShadowClaimsAfter ==
    ASSUME TypeOK, NEW x, NEW m, shadowTable' = [shadowTable EXCEPT ![x] = m],
           <<m.key, m.base>> \in Claims \/ m.key = NoKey
    PROVE  \A c \in ShadowClaims' : c \in Claims \/ c[1] = NoKey
<1>1. \A c \in ShadowClaims' : c \in ShadowClaims \/ c = <<m.key, m.base>>
  BY DEF TypeOK, DataOK, ShadowClaims
<1>2. QED
  BY <1>1 DEF Claims

LEMMA PointerClaimsAfter ==
    ASSUME NEW p, ptrs' = ptrs \cup {p},
           <<p.meta.key, p.meta.base>> \in Claims \/ p.meta.key = NoKey
    PROVE  \A c \in PointerClaims' : c \in Claims \/ c[1] = NoKey
<1>1. \A c \in PointerClaims' : c \in PointerClaims \/ c = <<p.meta.key, p.meta.base>>
  BY DEF PointerClaims
<1>2. QED
  BY <1>1 DEF Claims

LEMMA LocalClaimsAfter ==
    ASSUME TypeOK, NEW t \in Threads, NEW l, ctx' = [ctx EXCEPT ![t] = l],
           NEW c \in LocalClaims'
    PROVE  c \in LocalClaims \/ c \in Held(l)
<1>1. PICK u \in Threads : c \in Held(ctx'[u])
  BY DEF LocalClaims, Held
<1>2. ctx'[u] = IF u = t THEN l ELSE ctx[u]
  BY DEF TypeOK, ControlOK
<1>3. QED
  BY <1>1, <1>2 DEF LocalClaims

LEMMA LocalClaim ==
    ASSUME NEW t \in Threads, NEW c \in Held(ctx[t])
    PROVE  c \in Claims
BY DEF Claims, LocalClaims

LEMMA ClaimType ==
    ASSUME TypeOK, NEW c \in Claims
    PROVE  c[1] \in Nat
<1>1. CASE c \in KeyClaims
  BY <1>1 DEF KeyClaims, TypeOK, DataOK
<1>2. CASE c \in ShadowClaims
  BY <1>2 DEF ShadowClaims, TypeOK, DataOK, Metadata
<1>3. CASE c \in PointerClaims
  BY <1>3 DEF PointerClaims, TypeOK, DataOK, Pointer, Metadata
<1>4. CASE c \in LocalClaims
  <2>1. PICK t \in Threads : c \in Held(ctx[t])
    BY <1>4 DEF LocalClaims
  <2>2. /\ ctx[t].key \in Nat /\ ctx[t].oldKey \in Nat /\ ctx[t].val.key \in Nat
        /\ ctx[t].ptr.meta.key \in Nat
    BY ConstantTypes DEF TypeOK, ControlOK, Context, Pointer, NoPtr, Metadata
  <2>3. QED
    BY <2>1, <2>2 DEF Held
<1>5. QED
  BY <1>1, <1>2, <1>3, <1>4 DEF Claims

LEMMA NoNewClaim ==
    ASSUME TypeOK, KeysNameOneObject, UNCHANGED nextKey,
           \A c \in Claims' : c \in Claims \/ c[1] = NoKey
    PROVE  KeysNameOneObject'
BY DEF KeysNameOneObject, NoKey

LEMMA FreshClaim ==
    ASSUME TypeOK, KeysNameOneObject, nextKey' = nextKey + 1, NEW a,
           \A c \in Claims' : c \in Claims \/ c[1] = NoKey \/ c = <<nextKey, a>>
    PROVE  KeysNameOneObject'
<1>1. SUFFICES ASSUME NEW c \in Claims', NEW d \in Claims', c[1] # NoKey
               PROVE  c[1] < nextKey' /\ (c[1] = d[1] => c[2] = d[2])
  BY DEF KeysNameOneObject, NoKey
<1>2. nextKey \in Nat /\ nextKey # NoKey
  BY DEF TypeOK, DataOK, NoKey
<1>3. \A e \in Claims : e[1] \in Nat /\ (e[1] # NoKey => e[1] < nextKey)
  BY ClaimType DEF KeysNameOneObject
<1>4. CASE c \in Claims
  <2>1. CASE d \in Claims
    BY <1>1, <1>2, <1>3, <1>4, <2>1 DEF KeysNameOneObject
  <2>2. CASE d[1] = NoKey
    BY <1>1, <1>2, <1>3, <1>4, <2>2
  <2>3. CASE d = <<nextKey, a>>
    BY <1>1, <1>2, <1>3, <1>4, <2>3
  <2>4. QED
    BY <2>1, <2>2, <2>3
<1>5. CASE c = <<nextKey, a>>
  <2>1. CASE d \in Claims
    BY <1>2, <1>3, <1>5, <2>1
  <2>2. CASE d[1] = NoKey
    BY <1>2, <1>5, <2>2
  <2>3. CASE d = <<nextKey, a>>
    BY <1>2, <1>5, <2>3
  <2>4. QED
    BY <2>1, <2>2, <2>3
<1>6. QED
  BY <1>1, <1>4, <1>5

LEMMA NoCtxClaims == \A c \in Held(NoCtx) : c[1] = NoKey
BY DEF Held, NoCtx, NoPtr, Absent

LEMMA ReturnClaims ==
    ASSUME TypeOK, NEW t \in Threads, Return(t), NEW c \in LocalClaims'
    PROVE  c \in Claims \/ c[1] = NoKey
BY LocalClaimsAfter, NoCtxClaims DEF Return, Goto, Claims

\* A step to a label with locals whose claims are all old.
LEMMA GotoClaims ==
    ASSUME TypeOK, NEW t \in Threads, NEW label, NEW l, Goto(t, label, l),
           \A c \in Held(l) : c \in Claims \/ c[1] = NoKey,
           NEW c \in LocalClaims'
    PROVE  c \in Claims \/ c[1] = NoKey
BY LocalClaimsAfter DEF Goto, Claims

LEMMA SameClaims ==
    /\ UNCHANGED keyTable => KeyClaims' = KeyClaims
    /\ UNCHANGED shadowTable => ShadowClaims' = ShadowClaims
    /\ UNCHANGED ptrs => PointerClaims' = PointerClaims
BY DEF KeyClaims, ShadowClaims, PointerClaims

LEMMA EntryClaimsAfter ==
    ASSUME TypeOK, NEW a, NEW n, NEW k, <<k, a>> \in Claims,
           shadowTable' = [shadowTable EXCEPT ![a] = Entry(a, n, k)]
    PROVE  \A c \in ShadowClaims' : c \in Claims \/ c[1] = NoKey
<1>1. Entry(a, n, k).key = k /\ Entry(a, n, k).base = a
  BY DEF Entry
<1>2. QED
  BY <1>1, ShadowClaimsAfter

LEMMA MallocClaims ==
    ASSUME TypeOK, KeysNameOneObject, NEW t \in Threads, Malloc(t)
    PROVE  KeysNameOneObject'
<1>1. ctx[t] \in Context /\ LocalsSet(pc[t], ctx[t])
  BY DEF TypeOK, ControlOK
<1>2. Held(ctx[t]) \subseteq Claims
  BY LocalClaim
<1>3. CASE SysAlloc(t)
  <2>1. PICK a \in HeapAddr : Goto(t, "m_key", [ctx[t] EXCEPT !.addr = a])
    BY <1>3 DEF SysAlloc
  <2>2. ctx[t].key = NoKey
    BY <1>1, <1>3 DEF SysAlloc, LocalsSet
  <2>3. \A c \in Held([ctx[t] EXCEPT !.addr = a]) : c \in Claims \/ c[1] = NoKey
    BY <1>1, <1>2, <2>2 DEF Held, Context
  <2>4. QED
    BY <1>3, <2>1, <2>3, GotoClaims, SameClaims, NoNewClaim
       DEF SysAlloc, Claims, tables, program
<1>4. CASE OutOfMemory(t)
  BY <1>4, ReturnClaims, SameClaims, NoNewClaim DEF OutOfMemory, Claims, tables, program
<1>5. CASE MallocDrawKey(t)
  <2> DEFINE l == [ctx[t] EXCEPT !.key = nextKey]
  <2>1. \A c \in Held(l) : c \in Claims \/ c = <<nextKey, ctx[t].addr>>
    BY <1>1, <1>2 DEF Held, Context
  <2>2. \A c \in LocalClaims' : c \in Claims \/ c = <<nextKey, ctx[t].addr>>
    BY <1>5, <2>1, LocalClaimsAfter DEF MallocDrawKey, Goto, Claims
  <2>3. QED
    BY <1>5, <2>2, SameClaims, FreshClaim DEF MallocDrawKey, Claims, program
<1>6. CASE MallocRegister(t)
  <2>1. <<ctx[t].key, ctx[t].addr>> \in Claims
    BY <1>2 DEF Held
  <2>2. \A c \in KeyClaims' : c \in Claims \/ c[1] = NoKey
    BY <1>6, <2>1, KeyClaimsAfter DEF MallocRegister
  <2>3. QED
    BY <1>2, <1>6, <2>2, GotoClaims, SameClaims, NoNewClaim DEF MallocRegister, Claims, program
<1>7. CASE MallocShadow(t)
  <2>1. <<ctx[t].key, ctx[t].addr>> \in Claims
    BY <1>2 DEF Held
  <2>2. \A c \in ShadowClaims' : c \in Claims \/ c[1] = NoKey
    BY <1>7, <2>1, EntryClaimsAfter DEF MallocShadow
  <2>3. \A c \in LocalClaims' : c \in Claims \/ c[1] = NoKey
    BY <1>2, <1>7, GotoClaims DEF MallocShadow
  <2>4. QED
    BY <1>7, <2>2, <2>3, SameClaims, NoNewClaim DEF MallocShadow, Claims, program
<1>8. CASE LoadResult(t)
  <2> DEFINE p == [addr |-> ctx[t].addr, meta |-> ShadowLoad(ctx[t].addr)]
  <2>1. ctx[t].addr \in Addr
    BY <1>1, <1>8 DEF LoadResult, LocalsSet, Addr
  <2>2. <<p.meta.key, p.meta.base>> \in Claims \/ p.meta.key = NoKey
    BY <2>1 DEF ShadowLoad, Wildcard, Claims, ShadowClaims
  <2>3. \A c \in PointerClaims' : c \in Claims \/ c[1] = NoKey
    BY <1>8, <2>2, PointerClaimsAfter DEF LoadResult
  <2>4. \A c \in LocalClaims' : c \in Claims \/ c[1] = NoKey
    BY <1>8, ReturnClaims DEF LoadResult
  <2>5. QED
    BY <1>8, <2>3, <2>4, SameClaims, NoNewClaim DEF LoadResult, Claims, tables
<1>9. QED
  BY <1>3, <1>4, <1>5, <1>6, <1>7, <1>8 DEF Malloc

LEMMA FreeBlockClaims ==
    ASSUME TypeOK, KeysNameOneObject, NEW t \in Threads, FreeBlock(t)
    PROVE  KeysNameOneObject'
<1>1. ctx[t] \in Context /\ LocalsSet(pc[t], ctx[t])
  BY DEF TypeOK, ControlOK
<1>2. Held(ctx[t]) \subseteq Claims
  BY LocalClaim
<1>3. CASE FreeRevoke(t)
  <2> DEFINE a == ctx[t].ptr.addr
             l == [ctx[t] EXCEPT !.oldKey = keyTable[a]]
  <2>1. a \in Addr
    BY <1>1, <1>3 DEF FreeRevoke, LocalsSet, Pointer, Deallocating
  <2>2. \A c \in Held(l) : c \in Claims
    BY <1>1, <1>2, <2>1 DEF Held, Context, Claims, KeyClaims
  <2>3. \A c \in LocalClaims' : c \in Claims \/ c[1] = NoKey
    BY <1>2, <1>3, <2>2, GotoClaims DEF FreeRevoke, Fail
  <2>4. \A c \in KeyClaims' : c \in Claims \/ c[1] = NoKey
    BY <1>3, KeyClaimsAfter DEF FreeRevoke
  <2>5. QED
    BY <1>3, <2>3, <2>4, SameClaims, NoNewClaim DEF FreeRevoke, Claims, program
<1>4. CASE FreeShadow(t)
  <2>1. \A c \in ShadowClaims' : c \in Claims \/ c[1] = NoKey
    BY <1>4, ShadowClaimsAfter DEF FreeShadow, Absent
  <2>2. \A c \in LocalClaims' : c \in Claims \/ c[1] = NoKey
    BY <1>2, <1>4, GotoClaims DEF FreeShadow
  <2>3. QED
    BY <1>4, <2>1, <2>2, SameClaims, NoNewClaim DEF FreeShadow, Claims, program
<1>5. CASE SysFree(t)
  BY <1>5, ReturnClaims, SameClaims, NoNewClaim DEF SysFree, Claims, tables, program
<1>6. QED
  BY <1>3, <1>4, <1>5 DEF FreeBlock

LEMMA ReallocClaims ==
    ASSUME TypeOK, KeysNameOneObject, NEW t \in Threads, Realloc(t)
    PROVE  KeysNameOneObject'
<1>1. ctx[t] \in Context /\ LocalsSet(pc[t], ctx[t])
  BY DEF TypeOK, ControlOK
<1>2. Held(ctx[t]) \subseteq Claims
  BY LocalClaim
<1>3. CASE ReallocLookup(t)
  <2> DEFINE a == ctx[t].ptr.addr
             l == [ctx[t] EXCEPT !.oldKey = keyTable[a]]
  <2>1. a \in Addr
    BY <1>1, <1>3 DEF ReallocLookup, LocalsSet, Pointer, Reallocating
  <2>2. \A c \in Held(l) : c \in Claims
    BY <1>1, <1>2, <2>1 DEF Held, Context, Claims, KeyClaims
  <2>3. \A c \in LocalClaims' : c \in Claims \/ c[1] = NoKey
    BY <1>2, <1>3, <2>2, GotoClaims DEF ReallocLookup, Fail
  <2>4. QED
    BY <1>3, <2>3, SameClaims, NoNewClaim DEF ReallocLookup, Claims, tables, program
<1>4. CASE ReallocOldSize(t)
  <2> DEFINE l == [ctx[t] EXCEPT !.oldSize = shadowTable[ctx[t].ptr.addr].size]
  <2>1. \A c \in Held(l) : c \in Claims
    BY <1>1, <1>2 DEF Held, Context
  <2>2. \A c \in LocalClaims' : c \in Claims \/ c[1] = NoKey
    BY <1>4, <2>1, GotoClaims DEF ReallocOldSize
  <2>3. QED
    BY <1>4, <2>2, SameClaims, NoNewClaim DEF ReallocOldSize, Claims, tables, program
<1>5. CASE ReallocRevoke(t)
  <2>1. \A c \in KeyClaims' : c \in Claims \/ c[1] = NoKey
    BY <1>5, KeyClaimsAfter DEF ReallocRevoke
  <2>2. \A c \in LocalClaims' : c \in Claims \/ c[1] = NoKey
    BY <1>2, <1>5, GotoClaims DEF ReallocRevoke
  <2>3. QED
    BY <1>5, <2>1, <2>2, SameClaims, NoNewClaim DEF ReallocRevoke, Claims, program
<1>6. CASE ReallocShadow(t)
  <2>1. \A c \in ShadowClaims' : c \in Claims \/ c[1] = NoKey
    BY <1>6, ShadowClaimsAfter DEF ReallocShadow, Absent
  <2>2. \A c \in LocalClaims' : c \in Claims \/ c[1] = NoKey
    BY <1>2, <1>6, GotoClaims DEF ReallocShadow
  <2>3. QED
    BY <1>6, <2>1, <2>2, SameClaims, NoNewClaim DEF ReallocShadow, Claims, program
<1>7. CASE SysRealloc(t)
  <2>1. PICK a \in HeapAddr : Goto(t, "r_key", [ctx[t] EXCEPT !.addr = a])
    BY <1>7 DEF SysRealloc
  <2>2. ctx[t].key = NoKey
    BY <1>1, <1>7 DEF SysRealloc, LocalsSet
  <2>3. \A c \in Held([ctx[t] EXCEPT !.addr = a]) : c \in Claims \/ c[1] = NoKey
    BY <1>1, <1>2, <2>2 DEF Held, Context
  <2>4. QED
    BY <1>7, <2>1, <2>3, GotoClaims, SameClaims, NoNewClaim
       DEF SysRealloc, Claims, tables, program
<1>8. CASE SysReallocFails(t)
  BY <1>2, <1>8, GotoClaims, SameClaims, NoNewClaim DEF SysReallocFails, Claims, tables, program
<1>9. CASE SysReallocFault(t)
  BY <1>9, SameClaims, NoNewClaim DEF SysReallocFault, Claims, LocalClaims, tables, program
<1>10. CASE ReallocDrawKey(t)
  <2> DEFINE l == [ctx[t] EXCEPT !.key = nextKey]
  <2>1. \A c \in Held(l) : c \in Claims \/ c = <<nextKey, ctx[t].addr>>
    BY <1>1, <1>2 DEF Held, Context
  <2>2. \A c \in LocalClaims' : c \in Claims \/ c = <<nextKey, ctx[t].addr>>
    BY <1>10, <2>1, LocalClaimsAfter DEF ReallocDrawKey, Goto, Claims
  <2>3. QED
    BY <1>10, <2>2, SameClaims, FreshClaim DEF ReallocDrawKey, Claims, program
<1>11. CASE ReallocRegister(t)
  <2>1. <<ctx[t].key, ctx[t].addr>> \in Claims
    BY <1>2 DEF Held
  <2>2. \A c \in KeyClaims' : c \in Claims \/ c[1] = NoKey
    BY <1>11, <2>1, KeyClaimsAfter DEF ReallocRegister
  <2>3. \A c \in ShadowClaims' : c \in Claims \/ c[1] = NoKey
    BY <1>11, <2>1, EntryClaimsAfter DEF ReallocRegister
  <2>4. \A c \in LocalClaims' : c \in Claims \/ c[1] = NoKey
    BY <1>2, <1>11, GotoClaims DEF ReallocRegister
  <2>5. QED
    BY <1>11, <2>2, <2>3, <2>4, SameClaims, NoNewClaim DEF ReallocRegister, Claims, program
<1>12. CASE ReallocRestore(t)
  <2>1. <<ctx[t].oldKey, ctx[t].ptr.addr>> \in Claims
    BY <1>2 DEF Held
  <2>2. \A c \in KeyClaims' : c \in Claims \/ c[1] = NoKey
    BY <1>12, <2>1, KeyClaimsAfter DEF ReallocRestore
  <2>3. \A c \in ShadowClaims' : c \in Claims \/ c[1] = NoKey
    BY <1>12, <2>1, EntryClaimsAfter DEF ReallocRestore
  <2>4. \A c \in LocalClaims' : c \in Claims \/ c[1] = NoKey
    BY <1>12, ReturnClaims DEF ReallocRestore
  <2>5. QED
    BY <1>12, <2>2, <2>3, <2>4, SameClaims, NoNewClaim DEF ReallocRestore, Claims
<1>13. QED
  BY <1>3, <1>4, <1>5, <1>6, <1>7, <1>8, <1>9, <1>10, <1>11, <1>12 DEF Realloc

LEMMA CheckedAccessClaims ==
    ASSUME TypeOK, KeysNameOneObject, NEW t \in Threads, CheckedAccess(t)
    PROVE  KeysNameOneObject'
<1>1. Held(ctx[t]) \subseteq Claims
  BY LocalClaim
<1>2. CASE CheckKey(t)
  <2>1. \A c \in LocalClaims' : c \in Claims \/ c[1] = NoKey
    BY <1>1, <1>2, GotoClaims DEF CheckKey, Fail
  <2>2. QED
    BY <1>2, <2>1, SameClaims, NoNewClaim DEF CheckKey, Claims, tables, program
<1>3. CASE Access(t)
  <2>1. \A c \in LocalClaims' : c \in Claims \/ c[1] = NoKey
    BY <1>1, <1>3, GotoClaims, ReturnClaims DEF Access
  <2>2. QED
    BY <1>3, <2>1, SameClaims, NoNewClaim DEF Access, Claims, tables, program
<1>4. CASE StoreShadow(t)
  <2>1. <<ctx[t].val.key, ctx[t].val.base>> \in Claims
    BY <1>1 DEF Held
  <2>2. \A c \in ShadowClaims' : c \in Claims \/ c[1] = NoKey
    BY <1>4, <2>1, ShadowClaimsAfter DEF StoreShadow
  <2>3. \A c \in LocalClaims' : c \in Claims \/ c[1] = NoKey
    BY <1>4, ReturnClaims DEF StoreShadow
  <2>4. QED
    BY <1>4, <2>2, <2>3, SameClaims, NoNewClaim DEF StoreShadow, Claims, program
<1>5. QED
  BY <1>2, <1>3, <1>4 DEF CheckedAccess

LEMMA DeclarationClaims ==
    ASSUME TypeOK, KeysNameOneObject, NEW t \in Threads, Declaration(t)
    PROVE  KeysNameOneObject'
<1>1. ctx[t] \in Context
  BY DEF TypeOK, ControlOK
<1>2. Held(ctx[t]) \subseteq Claims
  BY LocalClaim
<1>3. CASE GetNextKey(t)
  <2> DEFINE l == [ctx[t] EXCEPT !.key = nextKey]
  <2>1. \A c \in Held(l) : c \in Claims \/ c = <<nextKey, ctx[t].addr>>
    BY <1>1, <1>2 DEF Held, Context
  <2>2. \A c \in LocalClaims' : c \in Claims \/ c = <<nextKey, ctx[t].addr>>
    BY <1>3, <2>1, LocalClaimsAfter DEF GetNextKey, Goto, Claims
  <2>3. QED
    BY <1>3, <2>2, SameClaims, FreshClaim DEF GetNextKey, Claims, program
<1>4. CASE RegisterStackKey(t)
  <2> DEFINE p == [addr |-> ctx[t].addr,
                   meta |-> Entry(ctx[t].addr, ctx[t].size, ctx[t].key)]
  <2>1. <<ctx[t].key, ctx[t].addr>> \in Claims
    BY <1>2 DEF Held
  <2>2. \A c \in KeyClaims' : c \in Claims \/ c[1] = NoKey
    BY <1>4, <2>1, KeyClaimsAfter DEF RegisterStackKey
  <2>3. <<p.meta.key, p.meta.base>> \in Claims
    BY <2>1 DEF Entry
  <2>4. ptrs' = ptrs \cup {p}
    BY <1>4 DEF RegisterStackKey
  <2>5. \A c \in PointerClaims' : c \in Claims \/ c[1] = NoKey
    BY <2>3, <2>4, PointerClaimsAfter
  <2>6. \A c \in LocalClaims' : c \in Claims \/ c[1] = NoKey
    BY <1>4, ReturnClaims DEF RegisterStackKey
  <2>7. QED
    BY <1>4, <2>2, <2>5, <2>6, SameClaims, NoNewClaim DEF RegisterStackKey, Claims
<1>5. QED
  BY <1>3, <1>4 DEF Declaration

\* The locals of a call hold no claim but that of the pointers it is given.
LEMMA BeginClaims ==
    ASSUME TypeOK, KeysNameOneObject, NEW t \in Threads, NEW label, NEW l,
           Begin(t, label, l), \A c \in Held(l) : c \in Claims \/ c[1] = NoKey
    PROVE  KeysNameOneObject'
<1>1. \A c \in LocalClaims' : c \in Claims \/ c[1] = NoKey
  BY LocalClaimsAfter DEF Begin, Claims
<1>2. QED
  BY <1>1, SameClaims, NoNewClaim DEF Begin, Claims, tables

LEMMA CallClaims ==
    ASSUME TypeOK, KeysNameOneObject, NEW t \in Threads, Call(t)
    PROVE  KeysNameOneObject'
<1> DEFINE Old(l) == \A c \in Held(l) : c \in Claims \/ c[1] = NoKey
<1>1. Old(NoCtx)
  BY NoCtxClaims
<1>2. \A n : Old([NoCtx EXCEPT !.size = n])
  BY DEF Held, NoCtx, NoPtr, Absent
<1>3. \A n : \A p \in ptrs : Old([NoCtx EXCEPT !.ptr = p, !.size = n])
  BY DEF Held, NoCtx, Absent, Claims, PointerClaims
<1>4. \A p \in ptrs : Old([NoCtx EXCEPT !.ptr = p])
  BY DEF Held, NoCtx, Absent, Claims, PointerClaims
<1>5. \A p \in ptrs, m \in {q.meta : q \in ptrs} \cup {Absent} :
         Old([NoCtx EXCEPT !.ptr = p, !.val = m, !.store = TRUE])
  BY DEF Held, NoCtx, Absent, Claims, PointerClaims
<1>6. \A x, n : Old([NoCtx EXCEPT !.addr = x, !.size = n])
  BY DEF Held, NoCtx, NoPtr, Absent
<1>7. CASE CallMalloc(t) \/ CallAlignedAlloc(t)
  BY <1>1, <1>2, <1>7, BeginClaims DEF CallMalloc, CallAlignedAlloc
<1>8. CASE CallFree(t) \/ CallRealloc(t)
  BY <1>3, <1>4, <1>8, BeginClaims DEF CallFree, CallRealloc
<1>9. CASE CallDeref(t) \/ CallStore(t)
  BY <1>1, <1>4, <1>5, <1>9, BeginClaims DEF CallDeref, CallStore, BeginAccess
<1>10. CASE CallDecl(t)
  BY <1>6, <1>10, BeginClaims DEF CallDecl
<1>11. CASE DeregisterStackKey(t)
  <2>1. PICK x \in StackAddr : keyTable' = [keyTable EXCEPT ![x] = NoKey]
    BY <1>11 DEF DeregisterStackKey
  <2>2. \A c \in KeyClaims' : c \in Claims \/ c[1] = NoKey
    BY <2>1, KeyClaimsAfter
  <2>3. LocalClaims' = LocalClaims
    BY <1>11 DEF DeregisterStackKey, LocalClaims
  <2>4. QED
    BY <1>11, <2>2, <2>3, SameClaims, NoNewClaim DEF DeregisterStackKey, Claims
<1>12. QED
  BY <1>7, <1>8, <1>9, <1>10, <1>11 DEF Call

LEMMA KeysInit == Init => KeysNameOneObject
BY NoCtxClaims DEF Init, KeysNameOneObject, Claims, KeyClaims, ShadowClaims, PointerClaims,
   LocalClaims, Absent

LEMMA KeysStep ==
    ASSUME TypeOK, KeysNameOneObject, [Next]_vars
    PROVE  KeysNameOneObject'
<1>1. ASSUME NEW t \in Threads, Step(t) PROVE KeysNameOneObject'
  <2>1. CASE Abort(t)
    BY <2>1, SameClaims, NoNewClaim DEF Abort, Claims, LocalClaims, tables, program
  <2>2. QED
    BY <1>1, <2>1, CallClaims, MallocClaims, FreeBlockClaims, ReallocClaims,
       CheckedAccessClaims, DeclarationClaims DEF Step, Continue
<1>2. CASE UNCHANGED vars
  BY <1>2, SameClaims, NoNewClaim DEF vars, Claims, LocalClaims, tables, program
<1>3. QED
  BY <1>1, <1>2 DEF Next, Terminated

\* A key is the key of one address, wherever it is kept, for any number of
\* threads and calls: free, realloc and check_bounds may compare keys alone.
THEOREM KeysAreUnique == Spec => []KeysNameOneObject
BY KeysInit, KeysStep, TypeCorrect, PTL DEF Spec

-----------------------------------------------------------------------------
(* Programs, racing ones included, that never call realloc and never pass   *)
(* the address of a local variable to free.                                 *)

HeapOnly ==
    /\ \A t \in Threads : pc[t] \notin Reallocating \cup Declaring
    /\ \A t \in Threads : pc[t] \in Deallocating => ctx[t].ptr.addr \in HeapAddr
    /\ \A p \in ptrs : p.addr \in HeapAddr
    /\ \A x \in StackAddr : frame[x] = Nobody

HeapInv == TypeOK /\ HeapOnly /\ OneKeeper /\ SystemHeapSafe

LEMMA HeapOnlyStep ==
    ASSUME "realloc" \notin Ops, "decl" \notin Ops, TypeOK, HeapOnly, [Next]_vars
    PROVE  HeapOnly'
<1>1. ASSUME NEW t \in Threads, Call(t) PROVE HeapOnly'
  <2>1. CASE CallMalloc(t) \/ CallAlignedAlloc(t)
    <3>1. PICK label \in {"m_sys", "bad_alignment"} :
             /\ pc' = [pc EXCEPT ![t] = label]
             /\ \A u \in Threads \ {t} : ctx'[u] = ctx[u]
             /\ UNCHANGED <<ptrs, frame>>
      BY <2>1 DEF CallMalloc, CallAlignedAlloc, Begin, TypeOK, ControlOK
    <3>2. QED
      BY <3>1 DEF HeapOnly, TypeOK, ControlOK, Deallocating, Reallocating, Declaring
  <2>2. CASE CallFree(t)
    <3>1. PICK p \in ptrs : /\ pc' = [pc EXCEPT ![t] = "f_key"]
                            /\ ctx' = [ctx EXCEPT ![t] = [NoCtx EXCEPT !.ptr = p]]
      BY <2>2 DEF CallFree, Begin
    <3>2. UNCHANGED <<ptrs, frame>>
      BY <2>2 DEF CallFree, Begin
    <3>3. [NoCtx EXCEPT !.ptr = p].ptr = p
      BY DEF NoCtx
    <3>4. QED
      BY <3>1, <3>2, <3>3 DEF HeapOnly, TypeOK, ControlOK, Deallocating, Reallocating, Declaring
  <2>3. CASE CallDeref(t) \/ CallStore(t)
    <3>1. PICK label \in {"c_key", "out_of_bounds"} :
             /\ pc' = [pc EXCEPT ![t] = label]
             /\ \A u \in Threads \ {t} : ctx'[u] = ctx[u]
             /\ UNCHANGED <<ptrs, frame>>
      BY <2>3 DEF CallDeref, CallStore, BeginAccess, Begin, TypeOK, ControlOK
    <3>2. QED
      BY <3>1 DEF HeapOnly, TypeOK, ControlOK, Deallocating, Reallocating, Declaring
  <2>4. CASE DeregisterStackKey(t)
    BY <2>4 DEF DeregisterStackKey, HeapOnly
  <2>5. QED
    BY <1>1, <2>1, <2>2, <2>3, <2>4 DEF Call, CallRealloc, CallDecl
<1>2. ASSUME NEW t \in Threads, Malloc(t) PROVE HeapOnly'
  <2>1. PICK label \in Allocating \cup {"idle"} : pc' = [pc EXCEPT ![t] = label]
    BY <1>2 DEF Malloc, SysAlloc, OutOfMemory, MallocDrawKey, MallocRegister, MallocShadow,
                LoadResult, Return, Goto, Allocating
  <2>2. \A u \in Threads \ {t} : ctx'[u] = ctx[u]
    BY <1>2 DEF Malloc, SysAlloc, OutOfMemory, MallocDrawKey, MallocRegister, MallocShadow,
                LoadResult, Return, Goto, TypeOK, ControlOK
  <2>3. UNCHANGED frame
    BY <1>2 DEF Malloc, SysAlloc, OutOfMemory, MallocDrawKey, MallocRegister, MallocShadow,
                LoadResult, program
  <2>4. \A p \in ptrs' : p.addr \in HeapAddr
    <3>1. CASE LoadResult(t)
      BY <3>1 DEF LoadResult, HeapOnly, TypeOK, ControlOK, LocalsSet
    <3>2. CASE UNCHANGED ptrs
      BY <3>2 DEF HeapOnly
    <3>3. QED
      BY <1>2, <3>1, <3>2 DEF Malloc, SysAlloc, OutOfMemory, MallocDrawKey, MallocRegister,
                MallocShadow, program
  <2>5. QED
    BY <2>1, <2>2, <2>3, <2>4 DEF HeapOnly, TypeOK, ControlOK, Allocating, Deallocating,
                Reallocating, Declaring
<1>3. ASSUME NEW t \in Threads, FreeBlock(t) PROVE HeapOnly'
  <2>1. pc[t] \in Deallocating /\ ctx[t] \in Context /\ ctx[t].ptr.addr \in HeapAddr
    BY <1>3 DEF FreeBlock, FreeRevoke, FreeShadow, SysFree, Deallocating, HeapOnly,
                TypeOK, ControlOK
  <2>2. PICK label \in {"f_shadow", "double_free", "f_sys", "idle"}, l \in Context :
           /\ pc' = [pc EXCEPT ![t] = label] /\ ctx' = [ctx EXCEPT ![t] = l]
           /\ label \in Deallocating => l.ptr = ctx[t].ptr
    <3>1. CASE FreeRevoke(t)
      <4> DEFINE l == [ctx[t] EXCEPT !.oldKey = keyTable[ctx[t].ptr.addr]]
      <4>1. keyTable[ctx[t].ptr.addr] \in Nat
        BY <2>1 DEF TypeOK, DataOK, Addr
      <4>2. l \in Context /\ l.ptr = ctx[t].ptr
        BY <2>1, <4>1, ContextUpdates DEF Context
      <4>3. QED
        BY <2>1, <3>1, <4>2 DEF FreeRevoke, Fail, Goto
    <3>2. CASE FreeShadow(t)
      BY <2>1, <3>2 DEF FreeShadow, Goto
    <3>3. CASE SysFree(t)
      BY <3>3, ConstantTypes DEF SysFree, Return, Goto, Deallocating
    <3>4. QED
      BY <1>3, <3>1, <3>2, <3>3 DEF FreeBlock
  <2>3. UNCHANGED <<ptrs, frame>>
    BY <1>3 DEF FreeBlock, FreeRevoke, FreeShadow, SysFree, program
  <2>4. QED
    BY <2>1, <2>2, <2>3 DEF HeapOnly, TypeOK, ControlOK, Deallocating, Reallocating, Declaring
<1>4. ASSUME NEW t \in Threads, CheckedAccess(t) PROVE HeapOnly'
  <2>1. PICK label \in {"access", "use_after_free", "w_shadow", "idle"} :
           pc' = [pc EXCEPT ![t] = label]
    BY <1>4 DEF CheckedAccess, CheckKey, Access, StoreShadow, Return, Fail, Goto
  <2>2. /\ \A u \in Threads \ {t} : ctx'[u] = ctx[u]
        /\ UNCHANGED <<ptrs, frame>>
    BY <1>4 DEF CheckedAccess, CheckKey, Access, StoreShadow, Return, Fail, Goto, program,
                TypeOK, ControlOK
  <2>3. QED
    BY <2>1, <2>2 DEF HeapOnly, TypeOK, ControlOK, Deallocating, Reallocating, Declaring
<1>5. ASSUME NEW t \in Threads, Step(t) PROVE HeapOnly'
  <2>1. ~Realloc(t) /\ ~Declaration(t)
    BY DEF HeapOnly, Reallocating, Declaring, Realloc, Declaration, ReallocLookup,
           ReallocOldSize, ReallocRevoke, ReallocShadow, SysRealloc, SysReallocFails,
           SysReallocFault, ReallocDrawKey, ReallocRegister, ReallocRestore, GetNextKey,
           RegisterStackKey
  <2>2. CASE Abort(t)
    BY <2>2 DEF Abort, HeapOnly, program
  <2>3. QED
    BY <1>1, <1>2, <1>3, <1>4, <1>5, <2>1, <2>2 DEF Step, Continue
<1>6. CASE UNCHANGED vars
  BY <1>6 DEF vars, HeapOnly, program
<1>7. QED
  BY <1>5, <1>6 DEF Next, Terminated

LEMMA KeepersUnchanged ==
    ASSUME OneKeeper, UNCHANGED heap, \A a \in HeapAddr : keyTable'[a] = keyTable[a],
           \A u \in Threads, a \in HeapAddr : Keeps(u, a)' <=> Keeps(u, a)
    PROVE  OneKeeper'
BY DEF OneKeeper

\* The keepers after a step of t that leaves it at `label' with locals l.
LEMMA OthersKeep ==
    ASSUME TypeOK, NEW t \in Threads, NEW label, NEW l, Goto(t, label, l),
           NEW u \in Threads, NEW a
    PROVE  Keeps(u, a)' <=> IF u = t
                            THEN \/ /\ label \in {"m_key", "m_register", "r_key", "r_register"}
                                    /\ l.addr = a
                                 \/ /\ label \in {"f_shadow", "f_sys", "r_shadow", "r_sys",
                                                  "r_restore"}
                                    /\ l.ptr.addr = a
                            ELSE Keeps(u, a)
<1>1. /\ pc'[u] = IF u = t THEN label ELSE pc[u]
      /\ ctx'[u] = IF u = t THEN l ELSE ctx[u]
  BY DEF Goto, TypeOK, ControlOK
<1>2. QED
  BY <1>1 DEF Keeps

\* Where a call can start, or the process print its last message.
FirstLabels == {"m_sys", "f_key", "r_lookup", "c_key", "s_key", "bad_alignment", "out_of_bounds"}

LEMMA CallBegins ==
    ASSUME NEW t \in Threads, Call(t)
    PROVE  DeregisterStackKey(t) \/ \E label \in FirstLabels : \E l : Begin(t, label, l)
BY DEF Call, CallMalloc, CallAlignedAlloc, CallFree, CallRealloc, CallDeref, CallStore, CallDecl,
       BeginAccess, FirstLabels

LEMMA BeginKeeps ==
    ASSUME TypeOK, NEW t \in Threads, NEW l,
           NEW label \in FirstLabels, Begin(t, label, l),
           NEW u \in Threads, NEW a
    PROVE  Keeps(u, a)' <=> Keeps(u, a)
<1>1. /\ pc'[u] = IF u = t THEN label ELSE pc[u]
      /\ ctx'[u] = IF u = t THEN l ELSE ctx[u]
  BY DEF Begin, TypeOK, ControlOK
<1>2. pc[t] = "idle"
  BY DEF Begin
<1>3. QED
  BY <1>1, <1>2 DEF Keeps, FirstLabels

\* The steps of malloc keep OneKeeper whatever else the program does.
LEMMA MallocKeeper ==
    ASSUME TypeOK, OneKeeper, SystemHeapSafe, NEW t \in Threads, Malloc(t)
    PROVE  OneKeeper' /\ SystemHeapSafe'
<1>1. ctx[t] \in Context /\ LocalsSet(pc[t], ctx[t])
  BY DEF TypeOK, ControlOK
<1>2. UNCHANGED fault
  BY DEF Malloc, SysAlloc, OutOfMemory, MallocDrawKey, MallocRegister, MallocShadow,
              LoadResult, system
<1>3. CASE SysAlloc(t)
  <2>1. PICK a \in HeapAddr : /\ heap[a] = Unallocated
                              /\ heap' = [heap EXCEPT ![a] = ctx[t].size]
                              /\ Goto(t, "m_key", [ctx[t] EXCEPT !.addr = a])
    BY <1>3 DEF SysAlloc
  <2>2. pc[t] = "m_sys" /\ UNCHANGED keyTable
    BY <1>3 DEF SysAlloc, tables
  <2> DEFINE l == [ctx[t] EXCEPT !.addr = a]
  <2>3. Goto(t, "m_key", l) /\ l.addr = a
    BY <1>1, <2>1 DEF Context
  <2> HIDE DEF l
  <2>4. \A u \in Threads, b \in HeapAddr :
           Keeps(u, b)' <=> IF u = t THEN b = a ELSE Keeps(u, b)
    BY <2>3, OthersKeep
  <2>5. \A b \in HeapAddr : ~Keeps(t, b)
    BY <2>2 DEF Keeps
  <2>6. ctx[t].size # Unallocated
    BY <1>1 DEF Context, Unallocated
  <2>7. \A b \in HeapAddr : heap'[b] = IF b = a THEN ctx[t].size ELSE heap[b]
    BY <2>1 DEF TypeOK, DataOK
  <2>8. OneKeeper'
    BY <2>1, <2>2, <2>4, <2>5, <2>6, <2>7 DEF OneKeeper
  <2>9. QED
    BY <1>2, <2>8 DEF SystemHeapSafe
<1>4. CASE MallocRegister(t)
  <2> DEFINE a == ctx[t].addr
  <2>1. a \in HeapAddr /\ ctx[t].key # NoKey /\ pc[t] = "m_register"
    BY <1>1, <1>4 DEF MallocRegister, LocalsSet
  <2>2. \A b \in HeapAddr : keyTable'[b] = IF b = a THEN ctx[t].key ELSE keyTable[b]
    BY <1>4 DEF MallocRegister, TypeOK, DataOK, Addr
  <2>3. \A u \in Threads, b \in HeapAddr : Keeps(u, b)' <=> u # t /\ Keeps(u, b)
    BY <1>4, OthersKeep DEF MallocRegister
  <2>4. \A b \in HeapAddr : Keeps(t, b) <=> b = a
    BY <2>1 DEF Keeps
  <2>5. UNCHANGED heap
    BY <1>4 DEF MallocRegister, system
  <2>6. OneKeeper'
    BY <2>1, <2>2, <2>3, <2>4, <2>5 DEF OneKeeper
  <2>7. QED
    BY <1>2, <2>6 DEF SystemHeapSafe
<1>5. CASE OutOfMemory(t) \/ MallocDrawKey(t) \/ MallocShadow(t) \/ LoadResult(t)
  <2>1. UNCHANGED <<heap, keyTable>>
    BY <1>5 DEF OutOfMemory, MallocDrawKey, MallocShadow, LoadResult, tables, system
  <2> DEFINE l == [ctx[t] EXCEPT !.key = nextKey]
  <2>2. l.addr = ctx[t].addr /\ (MallocDrawKey(t) => Goto(t, "m_register", l))
    BY <1>1 DEF Context, MallocDrawKey
  <2> HIDE DEF l
  <2>3. ASSUME NEW u \in Threads, NEW b \in HeapAddr PROVE Keeps(u, b)' <=> Keeps(u, b)
    <3>1. CASE OutOfMemory(t) \/ LoadResult(t)
      <4>1. Keeps(u, b)' <=> u # t /\ Keeps(u, b)
        BY <3>1, OthersKeep DEF OutOfMemory, LoadResult, Return
      <4>2. QED
        BY <3>1, <4>1 DEF OutOfMemory, LoadResult, Keeps
    <3>2. CASE MallocDrawKey(t)
      <4>1. Keeps(u, b)' <=> IF u = t THEN ctx[t].addr = b ELSE Keeps(u, b)
        BY <2>2, <3>2, OthersKeep
      <4>2. QED
        BY <3>2, <4>1 DEF MallocDrawKey, Keeps
    <3>3. CASE MallocShadow(t)
      <4>1. Keeps(u, b)' <=> u # t /\ Keeps(u, b)
        BY <3>3, OthersKeep DEF MallocShadow
      <4>2. QED
        BY <3>3, <4>1 DEF MallocShadow, Keeps
    <3>4. QED
      BY <1>5, <3>1, <3>2, <3>3
  <2>4. QED
    BY <1>2, <2>1, <2>3, KeepersUnchanged DEF SystemHeapSafe
<1>6. QED
  BY <1>3, <1>4, <1>5 DEF Malloc

LEMMA FreeBlockKeeper ==
    ASSUME TypeOK, OneKeeper, SystemHeapSafe, NEW t \in Threads, FreeBlock(t),
           pc[t] \in Deallocating => ctx[t].ptr.addr \in HeapAddr
    PROVE  OneKeeper' /\ SystemHeapSafe'
<1> DEFINE a == ctx[t].ptr.addr
<1>1. ctx[t] \in Context /\ a \in HeapAddr
  BY DEF FreeBlock, FreeRevoke, FreeShadow, SysFree, Deallocating, TypeOK, ControlOK
<1>2. CASE FreeRevoke(t)
  <2>1. /\ pc[t] = "f_key"
        /\ UNCHANGED <<heap, fault>>
        /\ \A b \in HeapAddr : keyTable'[b] = IF b = a THEN NoKey ELSE keyTable[b]
    BY <1>1, <1>2 DEF FreeRevoke, TypeOK, DataOK, Addr, system
  <2>2. \A b \in HeapAddr : ~Keeps(t, b)
    BY <2>1 DEF Keeps
  <2>3. CASE keyTable[a] = NoKey
    <3>1. Goto(t, "double_free", ctx[t])
      BY <1>2, <2>3 DEF FreeRevoke, Fail
    <3>2. \A u \in Threads, b \in HeapAddr : Keeps(u, b)' <=> Keeps(u, b)
      BY <2>2, <3>1, OthersKeep
    <3>3. QED
      BY <2>1, <2>3, <3>2, KeepersUnchanged DEF SystemHeapSafe
  <2>4. CASE keyTable[a] # NoKey
    <3> DEFINE l == [ctx[t] EXCEPT !.oldKey = keyTable[a]]
    <3>1. Goto(t, "f_shadow", l)
      BY <1>2, <2>4 DEF FreeRevoke
    <3>2. l.ptr = ctx[t].ptr
      BY <1>1 DEF Context
    <3> HIDE DEF l
    <3>3. \A u \in Threads, b \in HeapAddr :
             Keeps(u, b)' <=> IF u = t THEN a = b ELSE Keeps(u, b)
      BY <3>1, <3>2, OthersKeep
    <3>4. OneKeeper'
      BY <1>1, <2>1, <2>2, <2>4, <3>3 DEF OneKeeper
    <3>5. QED
      BY <2>1, <3>4 DEF SystemHeapSafe
  <2>5. QED
    BY <2>3, <2>4
<1>3. CASE FreeShadow(t)
  <2>1. pc[t] = "f_shadow" /\ UNCHANGED <<heap, fault, keyTable>> /\ Goto(t, "f_sys", ctx[t])
    BY <1>3 DEF FreeShadow, system
  <2>2. \A u \in Threads, b \in HeapAddr :
           Keeps(u, b)' <=> IF u = t THEN a = b ELSE Keeps(u, b)
    BY <2>1, OthersKeep
  <2>3. \A b \in HeapAddr : Keeps(t, b) <=> a = b
    BY <2>1 DEF Keeps
  <2>4. \A u \in Threads, b \in HeapAddr : Keeps(u, b)' <=> Keeps(u, b)
    BY <2>2, <2>3
  <2>5. QED
    BY <2>1, <2>4, KeepersUnchanged DEF SystemHeapSafe
<1>4. CASE SysFree(t)
  <2>1. pc[t] = "f_sys" /\ UNCHANGED keyTable /\ Goto(t, "idle", NoCtx)
    BY <1>4 DEF SysFree, tables, Return
  <2>2. Keeps(t, a)
    BY <2>1 DEF Keeps
  <2>3. heap[a] # Unallocated /\ keyTable[a] = NoKey
    BY <1>1, <2>2 DEF OneKeeper
  <2>4. UNCHANGED fault /\ heap' = [heap EXCEPT ![a] = Unallocated]
    BY <1>1, <1>4, <2>3 DEF SysFree, Allocated
  <2>5. \A b \in HeapAddr : heap'[b] = IF b = a THEN Unallocated ELSE heap[b]
    BY <2>4 DEF TypeOK, DataOK
  <2>6. \A u \in Threads, b \in HeapAddr : Keeps(u, b)' <=> u # t /\ Keeps(u, b)
    BY <2>1, OthersKeep
  <2>7. \A b \in HeapAddr : Keeps(t, b) <=> a = b
    BY <2>1 DEF Keeps
  <2>8. \A u \in Threads : u # t => ~Keeps(u, a)
    BY <1>1, <2>2 DEF OneKeeper
  <2>9. OneKeeper'
    BY <1>1, <2>1, <2>3, <2>5, <2>6, <2>7, <2>8 DEF OneKeeper
  <2>10. QED
    BY <2>4, <2>9 DEF SystemHeapSafe
<1>5. QED
  BY <1>2, <1>3, <1>4 DEF FreeBlock

LEMMA CheckedAccessKeeper ==
    ASSUME TypeOK, OneKeeper, SystemHeapSafe, NEW t \in Threads, CheckedAccess(t)
    PROVE  OneKeeper' /\ SystemHeapSafe'
<1>1. PICK label, l :
         /\ label \in {"access", "use_after_free", "w_shadow", "idle"}
         /\ Goto(t, label, l)
  BY DEF CheckedAccess, CheckKey, Access, StoreShadow, Return, Fail
<1>2. pc[t] \in Accessing /\ UNCHANGED <<heap, fault, keyTable>>
  BY DEF CheckedAccess, CheckKey, Access, StoreShadow, Accessing, tables, system
<1>3. \A u \in Threads, b \in HeapAddr : Keeps(u, b)' <=> u # t /\ Keeps(u, b)
  BY <1>1, OthersKeep
<1>4. \A b \in HeapAddr : ~Keeps(t, b)
  BY <1>2 DEF Keeps, Accessing
<1>5. \A u \in Threads, b \in HeapAddr : Keeps(u, b)' <=> Keeps(u, b)
  BY <1>3, <1>4
<1>6. QED
  BY <1>2, <1>5, KeepersUnchanged DEF SystemHeapSafe

LEMMA CallKeeper ==
    ASSUME TypeOK, OneKeeper, SystemHeapSafe, NEW t \in Threads, Call(t)
    PROVE  OneKeeper' /\ SystemHeapSafe'
<1>1. CASE DeregisterStackKey(t)
  <2>1. UNCHANGED <<heap, fault, pc, ctx>> /\ \A a \in HeapAddr : keyTable'[a] = keyTable[a]
    BY <1>1 DEF DeregisterStackKey, TypeOK, DataOK, system, Addr
  <2>2. QED
    BY <2>1, KeepersUnchanged DEF Keeps, SystemHeapSafe
<1>2. CASE \E label \in FirstLabels : \E l : Begin(t, label, l)
  <2>1. PICK label, l : label \in FirstLabels /\ Begin(t, label, l)
    BY <1>2
  <2>2. \A u \in Threads, b \in HeapAddr : Keeps(u, b)' <=> Keeps(u, b)
    BY <2>1, BeginKeeps
  <2>3. UNCHANGED <<heap, fault, keyTable>>
    BY <2>1 DEF Begin, tables, system
  <2>4. QED
    BY <2>2, <2>3, KeepersUnchanged DEF SystemHeapSafe
<1>3. QED
  BY <1>1, <1>2, CallBegins

LEMMA KeeperStep ==
    ASSUME "realloc" \notin Ops, "decl" \notin Ops, HeapInv, [Next]_vars
    PROVE  OneKeeper' /\ SystemHeapSafe'
<1> USE DEF HeapInv
<1> DEFINE Kept == OneKeeper' /\ SystemHeapSafe'
<1>1. ASSUME NEW t \in Threads, Step(t) PROVE Kept
  <2>1. ~Realloc(t) /\ ~Declaration(t)
    BY DEF HeapOnly, Reallocating, Declaring, Realloc, Declaration, ReallocLookup,
           ReallocOldSize, ReallocRevoke, ReallocShadow, SysRealloc, SysReallocFails,
           SysReallocFault, ReallocDrawKey, ReallocRegister, ReallocRestore, GetNextKey,
           RegisterStackKey
  <2>2. CASE Abort(t)
    BY <2>2, KeepersUnchanged DEF Abort, Keeps, SystemHeapSafe, tables, system
  <2>3. CASE FreeBlock(t)
    BY <2>3, FreeBlockKeeper DEF HeapOnly
  <2>4. QED
    BY <1>1, <2>1, <2>2, <2>3, CallKeeper, MallocKeeper, CheckedAccessKeeper DEF Step, Continue
<1>2. CASE UNCHANGED vars
  BY <1>2, KeepersUnchanged DEF vars, Keeps, SystemHeapSafe, tables, system
<1>3. QED
  BY <1>1, <1>2 DEF Next, Terminated

LEMMA HeapInvariant ==
    ASSUME "realloc" \notin Ops, "decl" \notin Ops
    PROVE  Spec => []HeapInv
<1>1. Init => HeapInv
  <2> SUFFICES ASSUME Init PROVE HeapInv
    OBVIOUS
  <2>1. TypeOK
    BY TypeInit
  <2>2. HeapOnly
    BY DEF Init, HeapOnly, Deallocating, Reallocating, Declaring
  <2>3. OneKeeper
    BY DEF Init, OneKeeper, Keeps, Addr
  <2>4. QED
    BY <2>1, <2>2, <2>3 DEF HeapInv, SystemHeapSafe, Init
<1>2. HeapInv /\ [Next]_vars => HeapInv'
  BY TypeStep, HeapOnlyStep, KeeperStep DEF HeapInv
<1>3. QED
  BY <1>1, <1>2, PTL DEF Spec

\* Without realloc, whatever races the program has, every block is kept by
\* KEY_TABLE or by the one thread that registers or releases it: removing the
\* entry under the mutex picks the one free that goes on.
THEOREM BlocksHaveOneKeeper ==
    ASSUME "realloc" \notin Ops, "decl" \notin Ops
    PROVE  Spec => []OneKeeper
BY HeapInvariant, PTL DEF HeapInv

\* ... so the system allocator is never given a block twice.
THEOREM DoubleFreeStopped ==
    ASSUME "realloc" \notin Ops, "decl" \notin Ops
    PROVE  Spec => []SystemHeapSafe
BY HeapInvariant, PTL DEF HeapInv

-----------------------------------------------------------------------------
(* Where a thread is says which mutexes it holds *)

HoldsNextKey     == {"m_register", "m_shadow", "r_register"}
HoldsKeyTable    == {"m_shadow"}
HoldsShadowTable == {"f_sys", "r_sys", "r_key", "r_register", "r_restore"}

LocksFollow ==
    \A t \in Threads :
        /\ lock["NEXT_KEY"] = t <=> pc[t] \in HoldsNextKey
        /\ lock["KEY_TABLE"] = t <=> pc[t] \in HoldsKeyTable
        /\ lock["SHADOW_TABLE"] = t <=> pc[t] \in HoldsShadowTable

LEMMA LocksAfterGoto ==
    ASSUME TypeOK, LocksFollow, NEW t \in Threads, NEW label, NEW l,
           Goto(t, label, l) \/ Begin(t, label, l),
           \A m \in Locks : lock'[m] # lock[m] => {lock[m], lock'[m]} \subseteq {t, Nobody},
           lock'["NEXT_KEY"] = t <=> label \in HoldsNextKey,
           lock'["KEY_TABLE"] = t <=> label \in HoldsKeyTable,
           lock'["SHADOW_TABLE"] = t <=> label \in HoldsShadowTable
    PROVE  LocksFollow'
<1>1. \A u \in Threads : pc'[u] = IF u = t THEN label ELSE pc[u]
  BY DEF Goto, Begin, TypeOK, ControlOK
<1>2. \A u \in Threads, m \in Locks : u # t => (lock'[m] = u <=> lock[m] = u)
  BY DEF TypeOK, DataOK
<1>3. QED
  BY <1>1, <1>2 DEF LocksFollow, Locks, HoldsNextKey, HoldsKeyTable, HoldsShadowTable

LEMMA LocksFollowStep ==
    ASSUME TypeOK, LocksFollow, [Next]_vars
    PROVE  LocksFollow'
<1> USE DEF HoldsNextKey, HoldsKeyTable, HoldsShadowTable
<1>1. /\ lock \in [Locks -> Threads \cup {Nobody}]
      /\ "NEXT_KEY" \in Locks /\ "KEY_TABLE" \in Locks /\ "SHADOW_TABLE" \in Locks
  BY DEF TypeOK, DataOK, Locks
<1>2. ASSUME NEW t \in Threads, Call(t) PROVE LocksFollow'
  <2>1. CASE DeregisterStackKey(t)
    BY <2>1 DEF DeregisterStackKey, Momentarily, LocksFollow
  <2>2. CASE \E label \in FirstLabels : \E l : Begin(t, label, l)
    <3>1. PICK label, l : label \in FirstLabels /\ Begin(t, label, l)
      BY <2>2
    <3>2. pc[t] = "idle" /\ UNCHANGED lock
      BY <3>1 DEF Begin
    <3>3. QED
      BY <1>1, <3>1, <3>2, LocksAfterGoto DEF LocksFollow, FirstLabels
  <2>3. QED
    BY <1>2, <2>1, <2>2, CallBegins
<1>3. ASSUME NEW t \in Threads, Malloc(t) PROVE LocksFollow'
  <2>1. CASE SysAlloc(t)
    <3>1. PICK l : Goto(t, "m_key", l)
      BY <2>1 DEF SysAlloc
    <3>2. pc[t] = "m_sys" /\ UNCHANGED lock
      BY <2>1 DEF SysAlloc
    <3>3. QED
      BY <1>1, <3>1, <3>2, LocksAfterGoto DEF LocksFollow
  <2>2. CASE OutOfMemory(t) \/ LoadResult(t)
    BY <1>1, <2>2, LocksAfterGoto
       DEF OutOfMemory, LoadResult, Return, Momentarily, LocksFollow
  <2>3. CASE MallocDrawKey(t) \/ MallocRegister(t) \/ MallocShadow(t)
    BY <1>1, <2>3, LocksAfterGoto
       DEF MallocDrawKey, MallocRegister, MallocShadow, Take, Drop, Available, LocksFollow
  <2>4. QED
    BY <1>3, <2>1, <2>2, <2>3 DEF Malloc
<1>4. ASSUME NEW t \in Threads, FreeBlock(t) PROVE LocksFollow'
  BY <1>1, <1>4, LocksAfterGoto
     DEF FreeBlock, FreeRevoke, FreeShadow, SysFree, Fail, Return, Take, Drop, Momentarily,
         Available, LocksFollow
<1>5. ASSUME NEW t \in Threads, Realloc(t) PROVE LocksFollow'
  <2>1. CASE SysReallocFault(t)
    BY <2>1 DEF SysReallocFault, LocksFollow
  <2>2. CASE ReallocLookup(t) \/ ReallocOldSize(t) \/ ReallocRevoke(t)
    BY <1>1, <2>2, LocksAfterGoto
       DEF ReallocLookup, ReallocOldSize, ReallocRevoke, Fail, Momentarily, LocksFollow
  <2>3. CASE ReallocShadow(t)
    BY <1>1, <2>3, LocksAfterGoto DEF ReallocShadow, Take, Available, LocksFollow
  <2>4. CASE SysRealloc(t) \/ SysReallocFails(t)
    <3>1. PICK label \in {"r_key", "r_restore"} : \E l : Goto(t, label, l)
      BY <2>4 DEF SysRealloc, SysReallocFails
    <3>2. PICK l : Goto(t, label, l)
      BY <3>1
    <3>3. pc[t] = "r_sys" /\ UNCHANGED lock
      BY <2>4 DEF SysRealloc, SysReallocFails
    <3>4. QED
      BY <1>1, <3>2, <3>3, LocksAfterGoto DEF LocksFollow
  <2>5. CASE ReallocDrawKey(t) \/ ReallocRegister(t) \/ ReallocRestore(t)
    BY <1>1, <2>5, LocksAfterGoto
       DEF ReallocDrawKey, ReallocRegister, ReallocRestore, Return, Take, Drop, Available,
           LocksFollow
  <2>6. QED
    BY <1>5, <2>1, <2>2, <2>3, <2>4, <2>5 DEF Realloc
<1>6. ASSUME NEW t \in Threads, CheckedAccess(t) PROVE LocksFollow'
  BY <1>1, <1>6, LocksAfterGoto
     DEF CheckedAccess, CheckKey, Access, StoreShadow, Fail, Return, Momentarily, LocksFollow
<1>7. ASSUME NEW t \in Threads, Declaration(t) PROVE LocksFollow'
  BY <1>1, <1>7, LocksAfterGoto
     DEF Declaration, GetNextKey, RegisterStackKey, Return, Momentarily, LocksFollow
<1>8. ASSUME NEW t \in Threads, Step(t) PROVE LocksFollow'
  <2>1. CASE Abort(t)
    BY <2>1 DEF Abort, LocksFollow
  <2>2. QED
    BY <1>2, <1>3, <1>4, <1>5, <1>6, <1>7, <1>8, <2>1 DEF Step, Continue
<1>9. CASE UNCHANGED vars
  BY <1>9 DEF vars, LocksFollow
<1>10. QED
  BY <1>8, <1>9 DEF Next, Terminated

LEMMA LocksInvariant == Spec => [](TypeOK /\ LocksFollow)
<1>1. Init => TypeOK /\ LocksFollow
  BY TypeInit DEF Init, LocksFollow, Locks, HoldsNextKey, HoldsKeyTable, HoldsShadowTable
<1>2. TypeOK /\ LocksFollow /\ [Next]_vars => (TypeOK /\ LocksFollow)'
  BY TypeStep, LocksFollowStep
<1>3. QED
  BY <1>1, <1>2, PTL DEF Spec

\* The library takes its mutexes in the order NEXT_KEY, KEY_TABLE, SHADOW_TABLE,
\* except that realloc keeps SHADOW_TABLE while it asks for the two others: in a
\* program without realloc no threads ever wait for one another in a circle.
THEOREM NoDeadlock ==
    ASSUME "realloc" \notin Ops
    PROVE  Spec => []NoCircularWait
<1> DEFINE NoRealloc == \A t \in Threads : pc[t] \notin Reallocating
<1>1. Init => NoRealloc
  BY DEF Init, Reallocating
<1>2. TypeOK /\ NoRealloc /\ [Next]_vars => NoRealloc'
  <2> SUFFICES ASSUME TypeOK, NoRealloc, [Next]_vars PROVE NoRealloc'
    OBVIOUS
  <2>1. ASSUME NEW t \in Threads, NEW label, NEW l, label \notin Reallocating,
               Goto(t, label, l) \/ Begin(t, label, l)
        PROVE  NoRealloc'
    BY <2>1 DEF Goto, Begin, TypeOK, ControlOK
  <2>2. ASSUME NEW t \in Threads, Step(t) PROVE NoRealloc'
    <3>1. CASE Call(t)
      <4>1. CASE DeregisterStackKey(t)
        BY <4>1 DEF DeregisterStackKey
      <4>2. CASE \E label \in Labels \ Reallocating : \E l : Begin(t, label, l)
        BY <2>1, <4>2
      <4>3. QED
        BY <3>1, <4>1, <4>2 DEF Call, CallMalloc, CallAlignedAlloc, CallFree, CallRealloc,
               CallDeref, CallStore, CallDecl, BeginAccess, Labels, Allocating, Deallocating,
               Accessing, Declaring, Aborting, Reallocating
    <3>2. CASE Malloc(t)
      <4>1. \E label \in Labels \ Reallocating : \E l : Goto(t, label, l)
        BY <3>2 DEF Malloc, SysAlloc, OutOfMemory, MallocDrawKey, MallocRegister,
               MallocShadow, LoadResult, Return, Labels, Allocating, Reallocating
      <4>2. QED
        BY <2>1, <4>1
    <3>3. CASE FreeBlock(t)
      BY <2>1, <3>3 DEF FreeBlock, FreeRevoke, FreeShadow, SysFree, Fail, Return, Reallocating
    <3>4. CASE CheckedAccess(t) \/ Declaration(t)
      BY <2>1, <3>4 DEF CheckedAccess, CheckKey, Access, StoreShadow, Declaration, GetNextKey,
             RegisterStackKey, Fail, Return, Reallocating
    <3>5. CASE Abort(t)
      BY <3>5 DEF Abort
    <3>6. ~Realloc(t)
      BY DEF Realloc, ReallocLookup, ReallocOldSize, ReallocRevoke, ReallocShadow, SysRealloc,
             SysReallocFails, SysReallocFault, ReallocDrawKey, ReallocRegister, ReallocRestore,
             Reallocating
    <3>7. QED
      BY <2>2, <3>1, <3>2, <3>3, <3>4, <3>5, <3>6 DEF Step, Continue
  <2>3. CASE UNCHANGED vars
    BY <2>3 DEF vars
  <2>4. QED
    BY <2>2, <2>3 DEF Next, Terminated
<1>3. TypeOK /\ LocksFollow /\ NoRealloc => NoCircularWait
  <2> SUFFICES ASSUME TypeOK, LocksFollow, NoRealloc, NEW circle \in SUBSET Threads,
                      NEW first \in circle, \A t \in circle : \E u \in circle : Blocks(u, t)
               PROVE  FALSE
    BY DEF NoCircularWait
  <2>1. \A t \in Threads : pc[t] \in Labels \ Reallocating
    BY DEF TypeOK, ControlOK
  <2>2. ASSUME NEW t \in Threads, NEW u \in Threads, Blocks(u, t), Wants(u) # "none"
        PROVE  \/ Wants(t) = "NEXT_KEY" /\ Wants(u) \in {"KEY_TABLE", "SHADOW_TABLE"}
               \/ Wants(t) = "KEY_TABLE" /\ Wants(u) = "SHADOW_TABLE"
    <3>1. Wants(t) \in Locks /\ lock[Wants(t)] = u
      BY <2>2 DEF Blocks
    <3>2. pc[u] \in {"m_register", "m_shadow", "f_sys"}
      BY <2>1, <3>1 DEF LocksFollow, HoldsNextKey, HoldsKeyTable, HoldsShadowTable, Locks,
                        Reallocating
    <3>3. pc[u] # "f_sys"
      BY <2>2 DEF Wants
    <3>4. CASE pc[u] = "m_register"
      BY <3>1, <3>4 DEF Wants, LocksFollow, HoldsNextKey, HoldsKeyTable, HoldsShadowTable, Locks
    <3>5. CASE pc[u] = "m_shadow"
      BY <3>1, <3>5 DEF Wants, LocksFollow, HoldsNextKey, HoldsKeyTable, HoldsShadowTable, Locks
    <3>6. QED
      BY <3>2, <3>3, <3>4, <3>5
  <2>3. \A t \in circle : Wants(t) # "none"
    BY DEF Blocks, Locks
  <2>4. \A t \in circle : Wants(t) # "SHADOW_TABLE"
    BY <2>2, <2>3
  <2>5. \A t \in circle : Wants(t) # "KEY_TABLE"
    BY <2>2, <2>3, <2>4
  <2>6. QED
    BY <2>2, <2>3, <2>4, <2>5
<1>4. QED
  BY <1>1, <1>2, <1>3, LocksInvariant, TypeCorrect, PTL DEF Spec
=============================================================================
