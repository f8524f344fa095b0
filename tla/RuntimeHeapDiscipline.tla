------------------------ MODULE RuntimeHeapDiscipline ------------------------
(***************************************************************************)
(* What RuntimeHeap promises to a disciplined program, one that has no     *)
(* data race on an object and releases only blocks it owns, whatever entry *)
(* points it uses: realloc, stack variables and stored pointers included.  *)
(***************************************************************************)
EXTENDS RuntimeHeapProofs

USE AddrAssumption, DataAssumption

-----------------------------------------------------------------------------
(* The inductive invariant *)

Releasers == Deallocating \cup Reallocating

\* Where a thread still has the pointer its call was given.
Holding == Releasers \cup Accessing \cup {"use_after_free"}

\* ... and where the key of that pointer has to be the registered one.
NeedsKey == {"f_key", "r_lookup", "r_size", "r_revoke", "access", "w_shadow"}

\* The pointers of the program carry the key and the base of an object, and no
\* two of them the same key.
PointersDistinct ==
    \A p \in ptrs :
        /\ p.meta.key # NoKey
        /\ p.meta.base = p.addr
        /\ \A q \in ptrs : q.meta.key = p.meta.key => q = p

OwnedLive ==
    /\ owned \subseteq ptrs
    /\ \A p \in owned : p.addr \in HeapAddr /\ keyTable[p.addr] = p.meta.key

FramesOK == \A x \in StackAddr : frame[x] = Nobody => keyTable[x] = NoKey

\* What a thread t at a label, with locals c, may rely on.
LocalOK(t, label, c) ==
    /\ label \in Holding => c.ptr \in ptrs
    /\ label \in Releasers => c.ptr.addr \in HeapAddr
    /\ label \in Releasers \cup {"use_after_free"} => c.ptr \notin owned
    /\ label \in NeedsKey => keyTable[c.ptr.addr] = c.ptr.meta.key
    /\ label \in {"f_shadow", "f_sys", "r_size", "r_revoke", "r_shadow", "r_sys", "r_restore"}
          => c.oldKey = c.ptr.meta.key
    /\ label \in {"m_shadow", "m_ret"} => keyTable[c.addr] = c.key
    /\ label = "m_ret" => shadowTable[c.addr] = Entry(c.addr, c.size, c.key)
    /\ c.key # NoKey => \A p \in ptrs : p.meta.key # c.key
    /\ label \in Declaring => frame[c.addr] = t /\ keyTable[c.addr] = NoKey
    /\ label \notin {"double_free", "invalid_realloc", "out_of_bounds"}
    /\ label = "bad_alignment" => c.ptr = NoPtr

Locals == \A t \in Threads : LocalOK(t, pc[t], ctx[t])

\* A thread that releases a pointer is the only one that has it; a key that has
\* been drawn is the local of one thread.
Exclusive ==
    \A t, u \in Threads : t # u =>
        /\ pc[t] \in Releasers /\ pc[u] \in Holding => ctx[t].ptr # ctx[u].ptr
        /\ ctx[t].key # NoKey => ctx[u].key # ctx[t].key

Discipline == PointersDistinct /\ OwnedLive /\ FramesOK /\ Locals /\ Exclusive

Inv == TypeOK /\ KeysNameOneObject /\ OneKeeper /\ SystemHeapSafe /\ Discipline

-----------------------------------------------------------------------------
(* Consequences of the invariant *)

\* No pointer and no call knows the key that NEXT_KEY is about to hand out.
LEMMA NextKeyIsNew ==
    ASSUME Inv
    PROVE  /\ nextKey \in Nat /\ nextKey # NoKey
           /\ \A p \in ptrs : p.meta.key # nextKey
           /\ \A u \in Threads : ctx[u].key # nextKey
<1>1. nextKey \in Nat /\ nextKey # NoKey
  BY DEF Inv, TypeOK, DataOK, NoKey
<1>2. ASSUME NEW c \in Claims PROVE c[1] # nextKey
  <2>1. c[1] \in Nat /\ (c[1] # NoKey => c[1] < nextKey)
    BY ClaimType DEF Inv, KeysNameOneObject
  <2>2. QED
    BY <1>1, <2>1
<1>3. \A p \in ptrs : <<p.meta.key, p.meta.base>> \in Claims
  BY DEF Claims, PointerClaims
<1>4. \A u \in Threads : <<ctx[u].key, ctx[u].addr>> \in Claims
  BY LocalClaim DEF Held
<1>5. QED
  BY <1>1, <1>2, <1>3, <1>4

\* The entries of KEY_TABLE that the next steps of u rely on.
Relies(u, x) ==
    \/ pc[u] \in NeedsKey /\ ctx[u].ptr.addr = x
    \/ pc[u] \in {"m_shadow", "m_ret"} \cup Declaring /\ ctx[u].addr = x

LEMMA NobodyReliesOnEmpty ==
    ASSUME Inv, NEW x \in HeapAddr, keyTable[x] = NoKey, NEW u \in Threads
    PROVE  ~Relies(u, x)
<1>1. LocalOK(u, pc[u], ctx[u]) /\ LocalsSet(pc[u], ctx[u])
  BY DEF Inv, Discipline, Locals, TypeOK, ControlOK
<1>2. QED
  BY <1>1 DEF Inv, Discipline, PointersDistinct, Relies, LocalOK, LocalsSet, NeedsKey, Holding,
     Releasers, Deallocating, Reallocating, Accessing, Declaring

LEMMA OnlyReturnsRegistered ==
    ASSUME Inv, NEW u \in Threads, pc[u] = "m_ret"
    PROVE  ctx[u].addr \in Addr /\ keyTable[ctx[u].addr] # NoKey
BY DEF Inv, Discipline, Locals, LocalOK, TypeOK, ControlOK, LocalsSet, Addr

LEMMA NobodyReliesOnReleased ==
    ASSUME Inv, NEW t \in Threads, pc[t] \in Releasers, NEW u \in Threads, u # t,
           keyTable[ctx[t].ptr.addr] = ctx[t].ptr.meta.key
    PROVE  ~Relies(u, ctx[t].ptr.addr)
<1>1. /\ LocalOK(u, pc[u], ctx[u]) /\ LocalsSet(pc[u], ctx[u])
      /\ LocalOK(t, pc[t], ctx[t])
  BY DEF Inv, Discipline, Locals, TypeOK, ControlOK
<1>2. ctx[t].ptr \in ptrs /\ ctx[t].ptr.addr \in HeapAddr
  BY <1>1 DEF LocalOK, Holding
<1>3. pc[u] \in Holding => ctx[u].ptr \in ptrs /\ ctx[u].ptr # ctx[t].ptr
  BY <1>1 DEF Inv, Discipline, Exclusive, LocalOK
<1>4. CASE pc[u] \in NeedsKey
  BY <1>1, <1>2, <1>3, <1>4 DEF Inv, Discipline, PointersDistinct, Relies, LocalOK, NeedsKey,
     Holding, Releasers, Deallocating, Reallocating, Accessing, Declaring
<1>5. CASE pc[u] \in {"m_shadow", "m_ret"}
  BY <1>1, <1>2, <1>5 DEF Relies, LocalOK, LocalsSet, NeedsKey, Declaring
<1>6. CASE pc[u] \in Declaring
  BY <1>1, <1>2, <1>6 DEF Inv, Relies, LocalsSet, NeedsKey, Declaring
<1>7. QED
  BY <1>4, <1>5, <1>6 DEF Relies

-----------------------------------------------------------------------------
(* A step of t to a label, with locals l *)

\* The threads that do not take the step.
LEMMA OthersStay ==
    ASSUME Inv, NEW t \in Threads, NEW label, NEW l, Goto(t, label, l) \/ Begin(t, label, l)
    PROVE  \A u \in Threads \ {t} : pc'[u] = pc[u] /\ ctx'[u] = ctx[u]
BY DEF Goto, Begin, Inv, TypeOK, ControlOK

LEMMA OthersLocal ==
    ASSUME Inv, NEW u \in Threads, pc'[u] = pc[u], ctx'[u] = ctx[u],
           \A x \in Addr : Relies(u, x) => keyTable'[x] = keyTable[x],
           pc[u] = "m_ret" => shadowTable'[ctx[u].addr] = shadowTable[ctx[u].addr],
           pc[u] \in Declaring => frame'[ctx[u].addr] = frame[ctx[u].addr],
           ptrs \subseteq ptrs',
           ctx[u].key # NoKey => \A p \in ptrs' \ ptrs : p.meta.key # ctx[u].key,
           pc[u] \in Releasers \cup {"use_after_free"} => ctx[u].ptr \notin owned' \ owned
    PROVE  LocalOK(u, pc[u], ctx[u])'
<1>1. LocalOK(u, pc[u], ctx[u]) /\ LocalsSet(pc[u], ctx[u])
  BY DEF Inv, Discipline, Locals, TypeOK, ControlOK
<1>2. /\ pc[u] \in NeedsKey => ctx[u].ptr.addr \in Addr
      /\ pc[u] \in {"m_shadow", "m_ret"} \cup Declaring => ctx[u].addr \in Addr
  BY <1>1 DEF LocalsSet, NeedsKey, Pointer, Addr, Deallocating, Reallocating, Accessing,
     Declaring
<1>3. QED
  BY <1>1, <1>2 DEF LocalOK, Relies, NeedsKey, Holding, Releasers, Deallocating, Reallocating,
     Accessing, Declaring

LEMMA MoveDiscipline ==
    ASSUME Inv, NEW t \in Threads, NEW label, NEW l, Goto(t, label, l) \/ Begin(t, label, l),
           PointersDistinct', OwnedLive', FramesOK', LocalOK(t, label, l)',
           \A u \in Threads \ {t} : LocalOK(u, pc[u], ctx[u])',
           \A u \in Threads \ {t} :
              /\ label \in Releasers /\ pc[u] \in Holding => l.ptr # ctx[u].ptr
              /\ label \in Holding /\ pc[u] \in Releasers => l.ptr # ctx[u].ptr
              /\ l.key # NoKey => ctx[u].key # l.key
    PROVE  Discipline'
<1>1. \A u \in Threads : /\ pc'[u] = IF u = t THEN label ELSE pc[u]
                         /\ ctx'[u] = IF u = t THEN l ELSE ctx[u]
  BY DEF Goto, Begin, Inv, TypeOK, ControlOK
<1>2. Locals'
  BY <1>1 DEF Locals
<1>3. Exclusive'
  BY <1>1 DEF Exclusive, Inv, Discipline, Releasers, Holding
<1>4. QED
  BY <1>2, <1>3 DEF Discipline

\* The pointer and the drawn key of t are the ones it had, if it has any left.
LEMMA SameRole ==
    ASSUME Inv, NEW t \in Threads, NEW label, NEW l, Goto(t, label, l),
           label \in Releasers => pc[t] \in Releasers,
           label \in Holding => pc[t] \in Holding /\ l.ptr = ctx[t].ptr,
           l.key # NoKey => l.key = ctx[t].key,
           PointersDistinct', OwnedLive', FramesOK', LocalOK(t, label, l)',
           \A u \in Threads \ {t} : LocalOK(u, pc[u], ctx[u])'
    PROVE  Discipline'
<1>1. ASSUME NEW u \in Threads \ {t}
      PROVE  /\ label \in Releasers /\ pc[u] \in Holding => l.ptr # ctx[u].ptr
             /\ label \in Holding /\ pc[u] \in Releasers => l.ptr # ctx[u].ptr
             /\ l.key # NoKey => ctx[u].key # l.key
  BY DEF Inv, Discipline, Exclusive, Holding
<1>2. QED
  BY <1>1, MoveDiscipline

\* A step that touches neither table and gives the program no pointer.
LEMMA QuietStep ==
    ASSUME Inv, NEW t \in Threads, NEW label, NEW l, Goto(t, label, l),
           UNCHANGED <<keyTable, shadowTable, ptrs, owned, frame>>,
           label \in Releasers => pc[t] \in Releasers,
           label \in Holding => pc[t] \in Holding /\ l.ptr = ctx[t].ptr,
           l.key # NoKey =>
              \/ l.key = ctx[t].key
              \/ l.key = nextKey,
           LocalOK(t, label, l)
    PROVE  Discipline'
<1>1. \A u \in Threads \ {t} : pc'[u] = pc[u] /\ ctx'[u] = ctx[u]
  BY DEF Goto, Inv, TypeOK, ControlOK
<1>2. \A u \in Threads \ {t} : LocalOK(u, pc[u], ctx[u])'
  BY <1>1, OthersLocal
<1>3. PointersDistinct' /\ OwnedLive' /\ FramesOK'
  BY DEF Inv, Discipline, PointersDistinct, OwnedLive, FramesOK
<1>4. LocalOK(t, label, l)'
  BY DEF LocalOK
<1>5. ASSUME NEW u \in Threads \ {t}
      PROVE  /\ label \in Releasers /\ pc[u] \in Holding => l.ptr # ctx[u].ptr
             /\ label \in Holding /\ pc[u] \in Releasers => l.ptr # ctx[u].ptr
             /\ l.key # NoKey => ctx[u].key # l.key
  BY NextKeyIsNew DEF Inv, Discipline, Exclusive, Holding
<1>6. QED
  BY <1>2, <1>3, <1>4, <1>5, MoveDiscipline

\* The locals of t when it comes to a label; locals with nothing in them.
LEMMA StepLocals ==
    ASSUME Inv, NEW t \in Threads
    PROVE  /\ ctx[t] \in Context /\ LocalsSet(pc[t], ctx[t]) /\ LocalOK(t, pc[t], ctx[t])
           /\ LocalOK(t, "idle", NoCtx) /\ NoCtx.key = NoKey
BY DEF Inv, Discipline, Locals, TypeOK, ControlOK, LocalOK, Holding, Releasers, Deallocating,
   Reallocating, Accessing, Declaring, NeedsKey, NoCtx

-----------------------------------------------------------------------------
(* One group of steps at a time *)

LEMMA MallocDiscipline ==
    ASSUME Inv, NEW t \in Threads, Malloc(t)
    PROVE  Discipline'
<1> USE DEF Deallocating, Reallocating, Accessing, Declaring, Releasers, Holding, NeedsKey
<1>1. /\ ctx[t] \in Context /\ LocalsSet(pc[t], ctx[t]) /\ LocalOK(t, pc[t], ctx[t])
      /\ LocalOK(t, "idle", NoCtx) /\ NoCtx.key = NoKey
  BY StepLocals
<1>2. CASE SysAlloc(t)
  <2>1. PICK a \in HeapAddr : Goto(t, "m_key", [ctx[t] EXCEPT !.addr = a])
    BY <1>2 DEF SysAlloc
  <2> DEFINE l == [ctx[t] EXCEPT !.addr = a]
  <2>2. l.key = NoKey /\ Goto(t, "m_key", l)
    BY <1>1, <1>2, <2>1 DEF SysAlloc, Context, LocalsSet
  <2> HIDE DEF l
  <2>3. LocalOK(t, "m_key", l)
    BY <2>2 DEF LocalOK
  <2>4. QED
    BY <1>2, <2>2, <2>3, QuietStep DEF SysAlloc, tables, program
<1>3. CASE OutOfMemory(t)
  BY <1>1, <1>3, QuietStep DEF OutOfMemory, Return, tables, program
<1>4. CASE MallocDrawKey(t)
  <2> DEFINE l == [ctx[t] EXCEPT !.key = nextKey]
  <2>1. l.key = nextKey /\ Goto(t, "m_register", l)
    BY <1>1, <1>4 DEF MallocDrawKey, Context
  <2> HIDE DEF l
  <2>2. LocalOK(t, "m_register", l)
    BY <2>1, NextKeyIsNew DEF LocalOK
  <2>3. QED
    BY <1>4, <2>1, <2>2, QuietStep DEF MallocDrawKey, program
<1>5. CASE MallocRegister(t)
  <2> DEFINE a == ctx[t].addr
  <2> PICK l : l = ctx[t]
    OBVIOUS
  <2>1. a \in HeapAddr /\ ctx[t].key # NoKey /\ pc[t] = "m_register"
    BY <1>1, <1>5 DEF MallocRegister, LocalsSet
  <2>2. keyTable[a] = NoKey
    BY <2>1 DEF Inv, OneKeeper, Keeps
  <2>3. /\ \A x \in Addr : keyTable'[x] = IF x = a THEN ctx[t].key ELSE keyTable[x]
        /\ UNCHANGED <<shadowTable, ptrs, owned, frame>>
        /\ Goto(t, "m_shadow", l)
    BY <1>5, <2>1 DEF MallocRegister, Inv, TypeOK, DataOK, program
  <2>4. \A u \in Threads \ {t} : LocalOK(u, pc[u], ctx[u])'
    <3>1. \A u \in Threads \ {t} : pc'[u] = pc[u] /\ ctx'[u] = ctx[u]
      BY <2>3, OthersStay
    <3>2. QED
      BY <2>1, <2>2, <2>3, <3>1, NobodyReliesOnEmpty, OthersLocal
  <2>5. PointersDistinct' /\ OwnedLive' /\ FramesOK'
    BY <2>1, <2>2, <2>3 DEF Inv, Discipline, PointersDistinct, OwnedLive, FramesOK, Addr
  <2>6. LocalOK(t, "m_shadow", l)'
    BY <1>1, <2>1, <2>3 DEF LocalOK, Addr
  <2>7. QED
    BY <2>3, <2>4, <2>5, <2>6, SameRole
<1>6. CASE MallocShadow(t)
  <2> DEFINE a == ctx[t].addr
  <2> PICK l : l = ctx[t]
    OBVIOUS
  <2>1. /\ a \in HeapAddr /\ ctx[t].key # NoKey /\ pc[t] = "m_shadow"
        /\ keyTable[a] = ctx[t].key
    BY <1>1, <1>6 DEF MallocShadow, LocalsSet, LocalOK
  <2>2. /\ \A x \in Addr : shadowTable'[x] = IF x = a THEN Entry(a, ctx[t].size, ctx[t].key)
                                                     ELSE shadowTable[x]
        /\ UNCHANGED <<keyTable, ptrs, owned, frame>>
        /\ Goto(t, "m_ret", l)
    BY <1>6 DEF MallocShadow, Inv, TypeOK, DataOK, program
  <2>3. ASSUME NEW u \in Threads \ {t}, pc[u] = "m_ret" PROVE ctx[u].addr # a
    BY <2>1, <2>3, StepLocals DEF Inv, Discipline, Exclusive, LocalOK
  <2>4. \A u \in Threads \ {t} : LocalOK(u, pc[u], ctx[u])'
    <3>1. \A u \in Threads \ {t} : pc'[u] = pc[u] /\ ctx'[u] = ctx[u]
      BY <2>2, OthersStay
    <3>2. \A u \in Threads \ {t} : pc[u] = "m_ret" => ctx[u].addr \in Addr
      BY StepLocals DEF LocalsSet, Addr
    <3>3. QED
      BY <2>2, <2>3, <3>1, <3>2, OthersLocal
  <2>5. PointersDistinct' /\ OwnedLive' /\ FramesOK'
    BY <2>2 DEF Inv, Discipline, PointersDistinct, OwnedLive, FramesOK
  <2>6. LocalOK(t, "m_ret", l)'
    BY <1>1, <2>1, <2>2 DEF LocalOK, Addr
  <2>7. QED
    BY <2>2, <2>4, <2>5, <2>6, SameRole
<1>7. CASE LoadResult(t)
  <2> DEFINE a == ctx[t].addr
             p == [addr |-> a, meta |-> ShadowLoad(a)]
  <2>1. /\ a \in HeapAddr /\ ctx[t].key # NoKey /\ keyTable[a] = ctx[t].key
        /\ shadowTable[a] = Entry(a, ctx[t].size, ctx[t].key)
        /\ \A q \in ptrs : q.meta.key # ctx[t].key
    BY <1>1, <1>7 DEF LoadResult, LocalsSet, LocalOK
  <2>2. p.addr = a /\ p.meta.base = a /\ p.meta.key = ctx[t].key
    BY <2>1 DEF ShadowLoad, Entry, Absent, Addr
  <2>3. /\ ptrs' = ptrs \cup {p} /\ owned' = owned \cup {p}
        /\ UNCHANGED <<keyTable, shadowTable, frame>> /\ Goto(t, "idle", NoCtx)
    BY <1>7 DEF LoadResult, Return, tables
  <2> HIDE DEF p
  <2>4. \A u \in Threads \ {t} : LocalOK(u, pc[u], ctx[u])'
    <3>1. \A u \in Threads \ {t} : pc'[u] = pc[u] /\ ctx'[u] = ctx[u]
      BY <2>3, OthersStay
    <3>2. \A u \in Threads \ {t} : ctx[u].key # ctx[t].key
      BY <2>1 DEF Inv, Discipline, Exclusive
    <3>3. \A u \in Threads \ {t} : pc[u] \in Holding => ctx[u].ptr # p
      BY <2>1, <2>2, StepLocals DEF LocalOK
    <3>4. QED
      BY <2>2, <2>3, <3>1, <3>2, <3>3, OthersLocal
  <2>5. PointersDistinct' /\ OwnedLive' /\ FramesOK'
    BY <2>1, <2>2, <2>3 DEF Inv, Discipline, PointersDistinct, OwnedLive, FramesOK
  <2>6. LocalOK(t, "idle", NoCtx)'
    BY <1>1 DEF LocalOK
  <2>7. QED
    BY <1>1, <2>3, <2>4, <2>5, <2>6, MoveDiscipline
<1>8. QED
  BY <1>2, <1>3, <1>4, <1>5, <1>6, <1>7 DEF Malloc

LEMMA FreeBlockDiscipline ==
    ASSUME Inv, NEW t \in Threads, FreeBlock(t)
    PROVE  Discipline'
<1> USE DEF Deallocating, Reallocating, Accessing, Declaring, Releasers, Holding, NeedsKey
<1>1. /\ ctx[t] \in Context /\ LocalsSet(pc[t], ctx[t]) /\ LocalOK(t, pc[t], ctx[t])
      /\ LocalOK(t, "idle", NoCtx) /\ NoCtx.key = NoKey
  BY StepLocals
<1> DEFINE a == ctx[t].ptr.addr
<1>2. pc[t] \in Deallocating /\ a \in HeapAddr /\ ctx[t].ptr \in ptrs
  BY <1>1 DEF FreeBlock, FreeRevoke, FreeShadow, SysFree, LocalOK
<1>3. CASE FreeRevoke(t)
  <2>1. pc[t] = "f_key" /\ keyTable[a] = ctx[t].ptr.meta.key /\ keyTable[a] # NoKey
    BY <1>1, <1>2, <1>3 DEF FreeRevoke, LocalOK, Inv, Discipline, PointersDistinct
  <2> PICK l : l = [ctx[t] EXCEPT !.oldKey = keyTable[a]]
    OBVIOUS
  <2>2. l.ptr = ctx[t].ptr /\ l.key = ctx[t].key /\ l.oldKey = ctx[t].ptr.meta.key
    BY <1>1, <2>1 DEF Context
  <2>3. /\ \A x \in Addr : keyTable'[x] = IF x = a THEN NoKey ELSE keyTable[x]
        /\ UNCHANGED <<shadowTable, ptrs, owned, frame>>
        /\ Goto(t, "f_shadow", l)
    BY <1>3, <2>1 DEF FreeRevoke, Inv, TypeOK, DataOK, program
  <2>4. \A u \in Threads \ {t} : LocalOK(u, pc[u], ctx[u])'
    BY <2>1, <2>3, OthersStay, NobodyReliesOnReleased, OthersLocal
  <2>5. \A p \in owned : p.addr # a
    BY <1>1, <1>2, <2>1 DEF LocalOK, Inv, Discipline, PointersDistinct, OwnedLive
  <2>6. PointersDistinct' /\ OwnedLive' /\ FramesOK'
    BY <2>3, <2>5 DEF Inv, Discipline, PointersDistinct, OwnedLive, FramesOK, Addr
  <2>7. LocalOK(t, "f_shadow", l)'
    BY <1>1, <1>2, <2>1, <2>2, <2>3 DEF LocalOK
  <2>8. QED
    BY <2>1, <2>2, <2>3, <2>4, <2>6, <2>7, SameRole
<1>4. CASE FreeShadow(t)
  <2> PICK l : l = ctx[t]
    OBVIOUS
  <2>1. /\ UNCHANGED <<keyTable, ptrs, owned, frame>>
        /\ pc[t] = "f_shadow" /\ Goto(t, "f_sys", l)
        /\ \A x \in Addr : x # a => shadowTable'[x] = shadowTable[x]
    BY <1>2, <1>4 DEF FreeShadow, Inv, TypeOK, DataOK, program
  <2>2. \A u \in Threads \ {t} : LocalOK(u, pc[u], ctx[u])'
    <3>1. keyTable[a] = NoKey
      BY <1>2, <2>1 DEF Inv, OneKeeper, Keeps
    <3>2. QED
      BY <1>2, <2>1, <3>1, OthersStay, OnlyReturnsRegistered, OthersLocal
  <2>3. PointersDistinct' /\ OwnedLive' /\ FramesOK'
    BY <2>1 DEF Inv, Discipline, PointersDistinct, OwnedLive, FramesOK
  <2>4. LocalOK(t, "f_sys", l)'
    BY <1>1, <2>1 DEF LocalOK
  <2>5. QED
    BY <2>1, <2>2, <2>3, <2>4, SameRole
<1>5. CASE SysFree(t)
  BY <1>1, <1>5, QuietStep DEF SysFree, Return, tables, program
<1>6. QED
  BY <1>3, <1>4, <1>5 DEF FreeBlock

LEMMA ReallocDiscipline ==
    ASSUME Inv, NEW t \in Threads, Realloc(t)
    PROVE  Discipline'
<1> USE DEF Deallocating, Reallocating, Accessing, Declaring, Releasers, Holding, NeedsKey
<1>1. /\ ctx[t] \in Context /\ LocalsSet(pc[t], ctx[t]) /\ LocalOK(t, pc[t], ctx[t])
      /\ LocalOK(t, "idle", NoCtx) /\ NoCtx.key = NoKey
  BY StepLocals
<1> DEFINE a == ctx[t].ptr.addr
<1>2. pc[t] \in Reallocating /\ a \in HeapAddr /\ ctx[t].ptr \in ptrs
  <2>1. pc[t] \in Reallocating
    BY DEF Realloc, ReallocLookup, ReallocOldSize, ReallocRevoke, ReallocShadow, SysRealloc,
           SysReallocFails, SysReallocFault, ReallocDrawKey, ReallocRegister, ReallocRestore
  <2>2. QED
    BY <1>1, <2>1 DEF LocalOK
<1>3. ctx[t].ptr.meta.key # NoKey
  BY <1>2 DEF Inv, Discipline, PointersDistinct
<1>4. CASE ReallocLookup(t)
  <2>1. pc[t] = "r_lookup" /\ keyTable[a] = ctx[t].ptr.meta.key
    BY <1>1, <1>4 DEF ReallocLookup, LocalOK
  <2> PICK l : l = [ctx[t] EXCEPT !.oldKey = keyTable[a]]
    OBVIOUS
  <2>2. /\ l.ptr = ctx[t].ptr /\ l.key = ctx[t].key /\ l.oldKey = ctx[t].ptr.meta.key
        /\ l.addr = ctx[t].addr
    BY <1>1, <2>1 DEF Context
  <2>3. Goto(t, "r_size", l) /\ UNCHANGED <<keyTable, shadowTable, ptrs, owned, frame>>
    BY <1>3, <1>4, <2>1 DEF ReallocLookup, tables, program
  <2>4. LocalOK(t, "r_size", l)
    BY <1>1, <2>1, <2>2 DEF LocalOK
  <2>5. QED
    BY <2>1, <2>2, <2>3, <2>4, QuietStep
<1>5. CASE ReallocOldSize(t)
  <2> PICK l : l = [ctx[t] EXCEPT !.oldSize = shadowTable[a].size]
    OBVIOUS
  <2>1. /\ l.ptr = ctx[t].ptr /\ l.key = ctx[t].key /\ l.oldKey = ctx[t].oldKey
        /\ l.addr = ctx[t].addr
    BY <1>1 DEF Context
  <2>2. /\ pc[t] = "r_size" /\ Goto(t, "r_revoke", l)
        /\ UNCHANGED <<keyTable, shadowTable, ptrs, owned, frame>>
    BY <1>5 DEF ReallocOldSize, tables, program
  <2>3. LocalOK(t, "r_revoke", l)
    BY <1>1, <2>1, <2>2 DEF LocalOK
  <2>4. QED
    BY <2>1, <2>2, <2>3, QuietStep
<1>6. CASE ReallocRevoke(t)
  <2> PICK l : l = ctx[t]
    OBVIOUS
  <2>1. /\ pc[t] = "r_revoke" /\ keyTable[a] = ctx[t].ptr.meta.key
        /\ UNCHANGED <<shadowTable, ptrs, owned, frame>>
        /\ Goto(t, "r_shadow", l)
        /\ \A x \in Addr : keyTable'[x] = IF x = a THEN NoKey ELSE keyTable[x]
    BY <1>1, <1>6 DEF ReallocRevoke, LocalOK, Inv, TypeOK, DataOK, program
  <2>2. \A u \in Threads \ {t} : LocalOK(u, pc[u], ctx[u])'
    BY <2>1, OthersStay, NobodyReliesOnReleased, OthersLocal
  <2>3. \A p \in owned : p.addr # a
    BY <1>1, <1>2, <2>1 DEF LocalOK, Inv, Discipline, PointersDistinct, OwnedLive
  <2>4. PointersDistinct' /\ OwnedLive' /\ FramesOK'
    BY <2>1, <2>3 DEF Inv, Discipline, PointersDistinct, OwnedLive, FramesOK, Addr
  <2>5. LocalOK(t, "r_shadow", l)'
    BY <1>1, <2>1 DEF LocalOK
  <2>6. QED
    BY <2>1, <2>2, <2>4, <2>5, SameRole
<1>7. CASE ReallocShadow(t)
  <2> PICK l : l = ctx[t]
    OBVIOUS
  <2>1. /\ UNCHANGED <<keyTable, ptrs, owned, frame>>
        /\ pc[t] = "r_shadow" /\ Goto(t, "r_sys", l)
        /\ \A x \in Addr : x # a => shadowTable'[x] = shadowTable[x]
    BY <1>7 DEF ReallocShadow, Inv, TypeOK, DataOK, program
  <2>2. \A u \in Threads \ {t} : LocalOK(u, pc[u], ctx[u])'
    <3>1. keyTable[a] = NoKey
      BY <1>2, <2>1 DEF Inv, OneKeeper, Keeps
    <3>2. QED
      BY <2>1, <3>1, OthersStay, OnlyReturnsRegistered, OthersLocal
  <2>3. PointersDistinct' /\ OwnedLive' /\ FramesOK'
    BY <2>1 DEF Inv, Discipline, PointersDistinct, OwnedLive, FramesOK
  <2>4. LocalOK(t, "r_sys", l)'
    BY <1>1, <2>1 DEF LocalOK
  <2>5. QED
    BY <2>1, <2>2, <2>3, <2>4, SameRole
<1>8. CASE SysRealloc(t)
  <2>1. PICK b \in HeapAddr : Goto(t, "r_key", [ctx[t] EXCEPT !.addr = b])
    BY <1>8 DEF SysRealloc
  <2> PICK l : l = [ctx[t] EXCEPT !.addr = b]
    OBVIOUS
  <2>2. l.ptr = ctx[t].ptr /\ l.key = ctx[t].key
    BY <1>1 DEF Context
  <2>3. /\ pc[t] = "r_sys" /\ Goto(t, "r_key", l)
        /\ UNCHANGED <<keyTable, shadowTable, ptrs, owned, frame>>
    BY <1>8, <2>1 DEF SysRealloc, tables, program
  <2>4. LocalOK(t, "r_key", l)
    BY <1>1, <2>2, <2>3 DEF LocalOK
  <2>5. QED
    BY <2>2, <2>3, <2>4, QuietStep
<1>9. CASE SysReallocFails(t)
  <2>1. LocalOK(t, "r_restore", ctx[t])
    BY <1>1, <1>9 DEF SysReallocFails, LocalOK
  <2>2. QED
    BY <1>9, <2>1, QuietStep DEF SysReallocFails, tables, program
<1>10. ~SysReallocFault(t)
  BY <1>2 DEF SysReallocFault, Inv, OneKeeper, Keeps, Allocated
<1>11. CASE ReallocDrawKey(t)
  <2> PICK l : l = [ctx[t] EXCEPT !.key = nextKey]
    OBVIOUS
  <2>1. l.ptr = ctx[t].ptr /\ l.key = nextKey
    BY <1>1 DEF Context
  <2>2. /\ pc[t] = "r_key" /\ Goto(t, "r_register", l)
        /\ UNCHANGED <<keyTable, shadowTable, ptrs, owned, frame>>
    BY <1>11 DEF ReallocDrawKey, program
  <2>3. LocalOK(t, "r_register", l)
    BY <1>1, <2>1, <2>2, NextKeyIsNew DEF LocalOK
  <2>4. QED
    BY <2>1, <2>2, <2>3, QuietStep
<1>12. CASE ReallocRegister(t)
  <2> DEFINE b == ctx[t].addr
  <2> PICK l : l = ctx[t]
    OBVIOUS
  <2>1. b \in HeapAddr /\ ctx[t].key # NoKey /\ pc[t] = "r_register"
    BY <1>1, <1>12 DEF ReallocRegister, LocalsSet
  <2>2. keyTable[b] = NoKey
    BY <2>1 DEF Inv, OneKeeper, Keeps
  <2>3. /\ \A x \in Addr :
              /\ keyTable'[x] = IF x = b THEN ctx[t].key ELSE keyTable[x]
              /\ shadowTable'[x] = IF x = b THEN Entry(b, ctx[t].size, ctx[t].key)
                                            ELSE shadowTable[x]
        /\ UNCHANGED <<ptrs, owned, frame>>
        /\ Goto(t, "m_ret", l)
    BY <1>12 DEF ReallocRegister, Inv, TypeOK, DataOK, program
  <2>4. \A u \in Threads \ {t} : LocalOK(u, pc[u], ctx[u])'
    BY <2>1, <2>2, <2>3, OthersStay, NobodyReliesOnEmpty, OnlyReturnsRegistered, OthersLocal
  <2>5. PointersDistinct' /\ OwnedLive' /\ FramesOK'
    BY <2>1, <2>2, <2>3 DEF Inv, Discipline, PointersDistinct, OwnedLive, FramesOK, Addr
  <2>6. LocalOK(t, "m_ret", l)'
    BY <1>1, <2>1, <2>3 DEF LocalOK, Addr
  <2>7. QED
    BY <2>1, <2>3, <2>4, <2>5, <2>6, SameRole
<1>13. CASE ReallocRestore(t)
  <2>1. /\ pc[t] = "r_restore" /\ ctx[t].oldKey = ctx[t].ptr.meta.key
        /\ Goto(t, "idle", NoCtx)
    BY <1>1, <1>13 DEF ReallocRestore, LocalOK, Return
  <2>2. keyTable[a] = NoKey
    BY <1>2, <2>1 DEF Inv, OneKeeper, Keeps
  <2>3. /\ \A x \in Addr :
              /\ keyTable'[x] = IF x = a THEN ctx[t].ptr.meta.key ELSE keyTable[x]
              /\ x # a => shadowTable'[x] = shadowTable[x]
        /\ owned' = owned \cup {ctx[t].ptr}
        /\ UNCHANGED <<ptrs, frame>>
    BY <1>13, <2>1 DEF ReallocRestore, Inv, TypeOK, DataOK
  <2>4. \A u \in Threads \ {t} : pc[u] \in Holding => ctx[u].ptr # ctx[t].ptr
    BY <1>2 DEF Inv, Discipline, Exclusive
  <2>5. \A u \in Threads \ {t} : LocalOK(u, pc[u], ctx[u])'
    BY <1>2, <2>1, <2>2, <2>3, <2>4, OthersStay, NobodyReliesOnEmpty, OnlyReturnsRegistered,
       OthersLocal
  <2>6. PointersDistinct' /\ OwnedLive' /\ FramesOK'
    BY <1>2, <2>2, <2>3 DEF Inv, Discipline, PointersDistinct, OwnedLive, FramesOK, Addr
  <2>7. LocalOK(t, "idle", NoCtx)'
    BY <1>1 DEF LocalOK
  <2>8. QED
    BY <1>1, <2>1, <2>5, <2>6, <2>7, SameRole
<1>14. QED
  BY <1>4, <1>5, <1>6, <1>7, <1>8, <1>9, <1>10, <1>11, <1>12, <1>13 DEF Realloc

LEMMA CheckedAccessDiscipline ==
    ASSUME Inv, NEW t \in Threads, CheckedAccess(t)
    PROVE  Discipline'
<1> USE DEF Deallocating, Reallocating, Accessing, Declaring, Releasers, Holding, NeedsKey
<1>1. /\ ctx[t] \in Context /\ LocalsSet(pc[t], ctx[t]) /\ LocalOK(t, pc[t], ctx[t])
      /\ LocalOK(t, "idle", NoCtx) /\ NoCtx.key = NoKey
  BY StepLocals
<1> DEFINE a == ctx[t].ptr.addr
<1>2. /\ pc[t] \in Accessing /\ ctx[t].ptr \in ptrs /\ a \in Addr
      /\ ctx[t].ptr.meta.base = a /\ ctx[t].ptr.meta.key # NoKey
  <2>1. pc[t] \in Accessing
    BY DEF CheckedAccess, CheckKey, Access, StoreShadow
  <2>2. QED
    BY <1>1, <2>1 DEF LocalOK, LocalsSet, Pointer, Inv, Discipline, PointersDistinct
<1>3. CASE CheckKey(t)
  <2>1. PICK label \in {"access", "use_after_free"} :
           /\ Goto(t, label, ctx[t])
           /\ label = "access" <=> keyTable[a] = ctx[t].ptr.meta.key
    BY <1>2, <1>3 DEF CheckKey, Fail
  <2>2. ctx[t].ptr \in owned => keyTable[a] = ctx[t].ptr.meta.key
    BY DEF Inv, Discipline, OwnedLive
  <2>3. LocalOK(t, label, ctx[t])
    BY <1>1, <1>2, <1>3, <2>1, <2>2 DEF CheckKey, LocalOK
  <2>4. QED
    BY <1>2, <1>3, <2>1, <2>3, QuietStep DEF CheckKey, tables, program
<1>4. CASE Access(t)
  <2>1. LocalOK(t, "w_shadow", ctx[t])
    BY <1>1, <1>4 DEF Access, LocalOK
  <2>2. QED
    BY <1>1, <1>2, <1>4, <2>1, QuietStep DEF Access, Return, tables, program
<1>5. CASE StoreShadow(t)
  <2>1. /\ UNCHANGED <<keyTable, ptrs, owned, frame>>
        /\ keyTable[a] = ctx[t].ptr.meta.key /\ Goto(t, "idle", NoCtx)
        /\ \A x \in Addr : x # a => shadowTable'[x] = shadowTable[x]
    BY <1>1, <1>5 DEF StoreShadow, LocalOK, Return, Inv, TypeOK, DataOK, program
  <2>2. ASSUME NEW u \in Threads \ {t}, pc[u] = "m_ret" PROVE ctx[u].addr # a
    BY <1>2, <2>1, <2>2, StepLocals DEF LocalOK, LocalsSet
  <2>3. \A u \in Threads \ {t} : LocalOK(u, pc[u], ctx[u])'
    BY <2>1, <2>2, OthersStay, OnlyReturnsRegistered, OthersLocal
  <2>4. PointersDistinct' /\ OwnedLive' /\ FramesOK'
    BY <2>1 DEF Inv, Discipline, PointersDistinct, OwnedLive, FramesOK
  <2>5. LocalOK(t, "idle", NoCtx)'
    BY <1>1 DEF LocalOK
  <2>6. QED
    BY <1>1, <2>1, <2>3, <2>4, <2>5, SameRole
<1>6. QED
  BY <1>3, <1>4, <1>5 DEF CheckedAccess

LEMMA DeclarationDiscipline ==
    ASSUME Inv, NEW t \in Threads, Declaration(t)
    PROVE  Discipline'
<1> USE DEF Deallocating, Reallocating, Accessing, Declaring, Releasers, Holding, NeedsKey
<1>1. /\ ctx[t] \in Context /\ LocalsSet(pc[t], ctx[t]) /\ LocalOK(t, pc[t], ctx[t])
      /\ LocalOK(t, "idle", NoCtx) /\ NoCtx.key = NoKey
  BY StepLocals
<1> DEFINE x == ctx[t].addr
<1>2. pc[t] \in Declaring /\ x \in StackAddr /\ frame[x] = t /\ keyTable[x] = NoKey
  BY <1>1 DEF Declaration, GetNextKey, RegisterStackKey, LocalsSet, LocalOK
<1>3. CASE GetNextKey(t)
  <2> PICK l : l = [ctx[t] EXCEPT !.key = nextKey]
    OBVIOUS
  <2>1. l.addr = x /\ l.key = nextKey
    BY <1>1 DEF Context
  <2>2. Goto(t, "s_register", l) /\ UNCHANGED <<keyTable, shadowTable, ptrs, owned, frame>>
    BY <1>3 DEF GetNextKey, program
  <2>3. LocalOK(t, "s_register", l)
    BY <1>2, <2>1, NextKeyIsNew DEF LocalOK
  <2>4. QED
    BY <2>1, <2>2, <2>3, QuietStep
<1>4. CASE RegisterStackKey(t)
  <2> PICK p : p = [addr |-> x, meta |-> Entry(x, ctx[t].size, ctx[t].key)]
    OBVIOUS
  <2>1. p.addr = x /\ p.meta.base = x /\ p.meta.key = ctx[t].key
    BY DEF Entry
  <2>2. ctx[t].key # NoKey /\ \A q \in ptrs : q.meta.key # ctx[t].key
    BY <1>1, <1>4 DEF RegisterStackKey, LocalsSet, LocalOK
  <2>3. /\ \A y \in Addr : keyTable'[y] = IF y = x THEN ctx[t].key ELSE keyTable[y]
        /\ ptrs' = ptrs \cup {p}
        /\ UNCHANGED <<shadowTable, owned, frame>> /\ Goto(t, "idle", NoCtx)
    BY <1>4 DEF RegisterStackKey, Return, Inv, TypeOK, DataOK
  <2>4. ASSUME NEW u \in Threads \ {t} PROVE ~Relies(u, x)
    BY <1>2, StepLocals DEF Relies, LocalOK, LocalsSet, Inv, Discipline, PointersDistinct
  <2>5. \A u \in Threads \ {t} : ctx[u].key # ctx[t].key
    BY <2>2 DEF Inv, Discipline, Exclusive
  <2>6. \A u \in Threads \ {t} : LocalOK(u, pc[u], ctx[u])'
    BY <2>1, <2>3, <2>4, <2>5, OthersStay, OthersLocal
  <2>7. PointersDistinct' /\ OwnedLive' /\ FramesOK'
    BY <1>2, <2>1, <2>2, <2>3
       DEF Inv, Discipline, PointersDistinct, OwnedLive, FramesOK, Addr
  <2>8. LocalOK(t, "idle", NoCtx)'
    BY <1>1 DEF LocalOK
  <2>9. QED
    BY <1>1, <2>3, <2>6, <2>7, <2>8, SameRole
<1>5. QED
  BY <1>3, <1>4 DEF Declaration

\* A call that leaves the program what it has, but for a block it gives up.
LEMMA BeginDiscipline ==
    ASSUME Inv, NEW t \in Threads, NEW label \in FirstLabels \ {"out_of_bounds"}, NEW l,
           Begin(t, label, l), owned' \subseteq owned, l.key = NoKey,
           \A x \in StackAddr : frame[x] # Nobody => frame'[x] = frame[x],
           \A x \in StackAddr : frame[x] = Nobody => frame'[x] \in {Nobody, t},
           label \in Holding => l.ptr \in ptrs,
           label \in Releasers => l.ptr \in owned \ owned',
           label = "bad_alignment" => l.ptr = NoPtr,
           label = "s_key" => l.addr \in StackAddr /\ frame[l.addr] = Nobody /\ frame'[l.addr] = t,
           \A u \in Threads \ {t} :
              /\ label \in Releasers /\ pc[u] \in Accessing => l.ptr # ctx[u].ptr
              /\ label \in Holding /\ pc[u] \in Releasers => l.ptr # ctx[u].ptr
    PROVE  Discipline'
<1> USE DEF Deallocating, Reallocating, Accessing, Declaring, Releasers, Holding, NeedsKey,
            FirstLabels
<1>1. UNCHANGED <<keyTable, shadowTable, ptrs>>
  BY DEF Begin, tables
<1>2. ASSUME NEW u \in Threads \ {t} PROVE LocalOK(u, pc[u], ctx[u])'
  <2>1. pc[u] \in Declaring => ctx[u].addr \in StackAddr /\ frame[ctx[u].addr] = u
    BY StepLocals DEF LocalOK, LocalsSet
  <2>2. pc[u] \in Declaring => frame'[ctx[u].addr] = frame[ctx[u].addr]
    BY <2>1
  <2>3. QED
    BY <1>1, <2>2, OthersStay, OthersLocal
<1>3. PointersDistinct' /\ OwnedLive' /\ FramesOK'
  <2>1. \A x \in StackAddr : frame'[x] = Nobody => frame[x] = Nobody
    OBVIOUS
  <2>2. QED
    BY <1>1, <2>1 DEF Inv, Discipline, PointersDistinct, OwnedLive, FramesOK
<1>4. LocalOK(t, label, l)'
  BY <1>1 DEF LocalOK, Inv, Discipline, OwnedLive, FramesOK
<1>5. ASSUME NEW u \in Threads \ {t}
      PROVE  /\ label \in Releasers /\ pc[u] \in Holding => l.ptr # ctx[u].ptr
             /\ label \in Holding /\ pc[u] \in Releasers => l.ptr # ctx[u].ptr
  BY StepLocals DEF LocalOK
<1>6. QED
  BY <1>2, <1>3, <1>4, <1>5, MoveDiscipline

LEMMA CallDiscipline ==
    ASSUME Disciplined, Inv, NEW t \in Threads, Call(t)
    PROVE  Discipline'
<1> USE DEF Deallocating, Reallocating, Accessing, Declaring, Releasers, Holding, FirstLabels
<1>1. NoCtx.key = NoKey
  BY DEF NoCtx
<1>2. CASE CallMalloc(t) \/ CallAlignedAlloc(t)
  <2>1. PICK label, l : label \in {"m_sys", "bad_alignment"} /\
           Begin(t, label, l) /\ l.key = NoKey /\ l.ptr = NoPtr
    <3>1. /\ \A n : [NoCtx EXCEPT !.size = n].key = NoKey /\ [NoCtx EXCEPT !.size = n].ptr = NoPtr
          /\ NoCtx.ptr = NoPtr
      BY DEF NoCtx
    <3>2. QED
      BY <1>1, <1>2, <3>1 DEF CallMalloc, CallAlignedAlloc
  <2>2. UNCHANGED <<frame, owned>>
    BY <1>2 DEF CallMalloc, CallAlignedAlloc
  <2>3. QED
    BY <2>1, <2>2, BeginDiscipline
<1>3. CASE CallFree(t) \/ CallRealloc(t)
  <2>1. PICK p, label, l : p \in ptrs /\ label \in {"f_key", "r_lookup"} /\
           /\ MayRelease(t, p) /\ Begin(t, label, l) /\ owned' = owned \ {p}
           /\ l.ptr = p /\ l.key = NoKey
    <3>1. CASE CallFree(t)
      <4>1. PICK p \in ptrs : /\ MayRelease(t, p) /\ owned' = owned \ {p}
                              /\ Begin(t, "f_key", [NoCtx EXCEPT !.ptr = p])
        BY <3>1 DEF CallFree
      <4> PICK l : l = [NoCtx EXCEPT !.ptr = p]
        OBVIOUS
      <4>2. Begin(t, "f_key", l) /\ l.ptr = p /\ l.key = NoKey
        BY <4>1 DEF NoCtx
      <4>3. QED
        BY <4>1, <4>2
    <3>2. CASE CallRealloc(t)
      <4>1. PICK p \in ptrs, n \in Sizes :
               /\ MayRelease(t, p) /\ owned' = owned \ {p}
               /\ Begin(t, "r_lookup", [NoCtx EXCEPT !.ptr = p, !.size = n])
        BY <3>2 DEF CallRealloc
      <4> PICK l : l = [NoCtx EXCEPT !.ptr = p, !.size = n]
        OBVIOUS
      <4>2. Begin(t, "r_lookup", l) /\ l.ptr = p /\ l.key = NoKey
        BY <4>1 DEF NoCtx
      <4>3. QED
        BY <4>1, <4>2
    <3>3. QED
      BY <1>3, <3>1, <3>2
  <2>2. /\ p \in owned
        /\ \A u \in Threads \ {t} : ~Using(u, p.meta.key)
    BY <2>1 DEF MayRelease
  <2>3. ASSUME NEW u \in Threads \ {t}
        PROVE  /\ pc[u] \in Accessing => p # ctx[u].ptr
               /\ pc[u] \in Releasers => p # ctx[u].ptr
    BY <2>2, StepLocals DEF Using, LocalOK
  <2>4. UNCHANGED frame
    BY <1>3 DEF CallFree, CallRealloc
  <2>5. QED
    BY <2>1, <2>2, <2>3, <2>4, BeginDiscipline
<1>4. CASE CallDeref(t) \/ CallStore(t)
  <2>1. PICK p, l : p \in ptrs /\ BeginAccess(t, p, l) /\ l.ptr = p /\ l.key = NoKey
    <3>1. CASE CallDeref(t)
      <4>1. PICK p \in ptrs : BeginAccess(t, p, [NoCtx EXCEPT !.ptr = p])
        BY <3>1 DEF CallDeref
      <4> PICK l : l = [NoCtx EXCEPT !.ptr = p]
        OBVIOUS
      <4>2. BeginAccess(t, p, l) /\ l.ptr = p /\ l.key = NoKey
        BY <4>1 DEF NoCtx
      <4>3. QED
        BY <4>2
    <3>2. CASE CallStore(t)
      <4>1. PICK p, m : p \in ptrs /\
               BeginAccess(t, p, [NoCtx EXCEPT !.ptr = p, !.val = m, !.store = TRUE])
        BY <3>2 DEF CallStore
      <4> PICK l : l = [NoCtx EXCEPT !.ptr = p, !.val = m, !.store = TRUE]
        OBVIOUS
      <4>2. BeginAccess(t, p, l) /\ l.ptr = p /\ l.key = NoKey
        BY <4>1 DEF NoCtx
      <4>3. QED
        BY <4>1, <4>2
    <3>3. QED
      BY <1>4, <3>1, <3>2
  <2>2. /\ Begin(t, "c_key", l) /\ UNCHANGED <<frame, owned>>
        /\ \A u \in Threads \ {t} : ~Releasing(u, p.meta.key)
    BY <2>1 DEF BeginAccess, MayUse, InBounds, Inv, Discipline, PointersDistinct
  <2>3. \A u \in Threads \ {t} : pc[u] \in Releasers => p # ctx[u].ptr
    BY <2>2 DEF Releasing
  <2>4. QED
    BY <2>1, <2>2, <2>3, BeginDiscipline
<1>5. CASE CallDecl(t)
  <2>1. PICK x, l : x \in StackAddr /\
           /\ frame[x] = Nobody /\ frame' = [frame EXCEPT ![x] = t] /\ Begin(t, "s_key", l)
           /\ l.addr = x /\ l.key = NoKey /\ UNCHANGED owned
    <3>1. PICK x \in StackAddr, n \in Sizes :
             /\ frame[x] = Nobody /\ frame' = [frame EXCEPT ![x] = t]
             /\ Begin(t, "s_key", [NoCtx EXCEPT !.addr = x, !.size = n]) /\ UNCHANGED owned
      BY <1>5 DEF CallDecl
    <3> PICK l : l = [NoCtx EXCEPT !.addr = x, !.size = n]
      OBVIOUS
    <3>2. Begin(t, "s_key", l) /\ l.addr = x /\ l.key = NoKey
      BY <3>1 DEF NoCtx
    <3>3. QED
      BY <3>1, <3>2
  <2>2. \A y \in StackAddr : frame'[y] = IF y = x THEN t ELSE frame[y]
    BY <2>1 DEF Inv, TypeOK, DataOK
  <2>3. QED
    BY <2>1, <2>2, BeginDiscipline
<1>6. CASE DeregisterStackKey(t)
  <2>1. PICK x \in StackAddr :
           /\ frame[x] = t /\ MayLeaveScope(t, x)
           /\ keyTable' = [keyTable EXCEPT ![x] = NoKey]
           /\ frame' = [frame EXCEPT ![x] = Nobody]
    BY <1>6 DEF DeregisterStackKey
  <2>2. /\ pc[t] = "idle" /\ UNCHANGED <<shadowTable, ptrs, owned, pc, ctx>>
        /\ \A y \in Addr : keyTable'[y] = IF y = x THEN NoKey ELSE keyTable[y]
        /\ \A y \in StackAddr : frame'[y] = IF y = x THEN Nobody ELSE frame[y]
    BY <1>6, <2>1 DEF DeregisterStackKey, Inv, TypeOK, DataOK
  <2>3. ASSUME NEW u \in Threads PROVE ~Relies(u, x)
    <3>1. LocalOK(u, pc[u], ctx[u]) /\ LocalsSet(pc[u], ctx[u])
      BY StepLocals
    <3>2. u # t => ~Using(u, keyTable[x])
      BY <2>1 DEF MayLeaveScope
    <3>3. QED
      BY <2>1, <2>2, <3>1, <3>2 DEF Relies, Using, LocalOK, LocalsSet, NeedsKey
  <2>4. ASSUME NEW u \in Threads PROVE LocalOK(u, pc[u], ctx[u])'
    <3>1. pc[u] \in Declaring => ctx[u].addr \in StackAddr /\ frame[ctx[u].addr] = u
      BY StepLocals DEF LocalOK, LocalsSet
    <3>2. pc[u] \in Declaring => frame'[ctx[u].addr] = frame[ctx[u].addr]
      BY <2>1, <2>2, <3>1
    <3>3. QED
      BY <2>2, <2>3, <3>2, OthersLocal
  <2>5. PointersDistinct' /\ OwnedLive' /\ FramesOK'
    BY <2>2 DEF Inv, Discipline, PointersDistinct, OwnedLive, FramesOK, Addr
  <2>6. QED
    BY <2>2, <2>4, <2>5 DEF Discipline, Locals, Exclusive, Inv
<1>7. QED
  BY <1>2, <1>3, <1>4, <1>5, <1>6 DEF Call

-----------------------------------------------------------------------------
(* The steps of realloc and of a declaration keep OneKeeper *)

LEMMA ReallocKeeper ==
    ASSUME Inv, NEW t \in Threads, Realloc(t)
    PROVE  OneKeeper' /\ SystemHeapSafe'
<1> USE DEF Inv
<1>1. ctx[t] \in Context /\ LocalsSet(pc[t], ctx[t]) /\ LocalOK(t, pc[t], ctx[t])
  BY StepLocals
<1> DEFINE a == ctx[t].ptr.addr
<1>2. pc[t] \in Reallocating /\ a \in HeapAddr /\ ctx[t].ptr \in ptrs
  <2>1. pc[t] \in Reallocating
    BY DEF Realloc, ReallocLookup, ReallocOldSize, ReallocRevoke, ReallocShadow, SysRealloc,
           SysReallocFails, SysReallocFault, ReallocDrawKey, ReallocRegister, ReallocRestore,
           Reallocating
  <2>2. QED
    BY <1>1, <2>1 DEF LocalOK, Holding, Releasers
<1>3. ctx[t].ptr.meta.key # NoKey
  BY <1>2 DEF Discipline, PointersDistinct
<1>4. CASE ReallocLookup(t) \/ ReallocOldSize(t)
  <2>1. PICK label, l : label \in {"r_size", "r_revoke", "invalid_realloc"} /\ Goto(t, label, l)
    BY <1>4 DEF ReallocLookup, ReallocOldSize, Fail
  <2>2. UNCHANGED <<heap, fault, keyTable>> /\ pc[t] \in {"r_lookup", "r_size"}
    BY <1>4 DEF ReallocLookup, ReallocOldSize, tables, system
  <2>3. \A u \in Threads, b \in HeapAddr : Keeps(u, b)' <=> u # t /\ Keeps(u, b)
    BY <2>1, OthersKeep
  <2>4. \A u \in Threads, b \in HeapAddr : Keeps(u, b)' <=> Keeps(u, b)
    BY <2>2, <2>3 DEF Keeps
  <2>5. QED
    BY <2>2, <2>4, KeepersUnchanged DEF SystemHeapSafe
<1>5. CASE ReallocRevoke(t)
  <2>1. /\ pc[t] = "r_revoke" /\ UNCHANGED <<heap, fault>> /\ Goto(t, "r_shadow", ctx[t])
        /\ \A b \in HeapAddr : keyTable'[b] = IF b = a THEN NoKey ELSE keyTable[b]
    BY <1>5 DEF ReallocRevoke, TypeOK, DataOK, Addr, system
  <2>2. keyTable[a] # NoKey
    BY <1>1, <1>3, <2>1 DEF LocalOK, NeedsKey
  <2>3. \A u \in Threads, b \in HeapAddr :
           Keeps(u, b)' <=> IF u = t THEN a = b ELSE Keeps(u, b)
    BY <2>1, OthersKeep
  <2>4. \A b \in HeapAddr : ~Keeps(t, b)
    BY <2>1 DEF Keeps
  <2>5. QED
    BY <1>2, <2>1, <2>2, <2>3, <2>4 DEF OneKeeper, SystemHeapSafe
<1>6. CASE ReallocShadow(t) \/ SysReallocFails(t)
  <2>1. PICK label \in {"r_sys", "r_restore"} : Goto(t, label, ctx[t])
    BY <1>6 DEF ReallocShadow, SysReallocFails
  <2>2. UNCHANGED <<heap, fault, keyTable>> /\ pc[t] \in {"r_shadow", "r_sys"}
    BY <1>6 DEF ReallocShadow, SysReallocFails, tables, system
  <2>3. \A u \in Threads, b \in HeapAddr :
           Keeps(u, b)' <=> IF u = t THEN a = b ELSE Keeps(u, b)
    BY <2>1, OthersKeep
  <2>4. \A u \in Threads, b \in HeapAddr : Keeps(u, b)' <=> Keeps(u, b)
    BY <2>2, <2>3 DEF Keeps
  <2>5. QED
    BY <2>2, <2>4, KeepersUnchanged DEF SystemHeapSafe
<1>7. CASE SysRealloc(t)
  <2>1. PICK b \in HeapAddr :
           /\ b = a \/ heap[b] = Unallocated
           /\ heap' = [heap EXCEPT ![a] = Unallocated, ![b] = ctx[t].size]
           /\ Goto(t, "r_key", [ctx[t] EXCEPT !.addr = b])
    BY <1>7 DEF SysRealloc
  <2> DEFINE l == [ctx[t] EXCEPT !.addr = b]
  <2>2. Goto(t, "r_key", l) /\ l.addr = b
    BY <1>1, <2>1 DEF Context
  <2> HIDE DEF l
  <2>3. pc[t] = "r_sys" /\ UNCHANGED <<keyTable, fault>> /\ ctx[t].size # Unallocated
    BY <1>1, <1>7 DEF SysRealloc, tables, Context, Unallocated
  <2>4. \A c \in HeapAddr : heap'[c] = IF c = b THEN ctx[t].size
                                       ELSE IF c = a THEN Unallocated ELSE heap[c]
    BY <1>2, <2>1 DEF TypeOK, DataOK
  <2>5. \A u \in Threads, c \in HeapAddr :
           Keeps(u, c)' <=> IF u = t THEN c = b ELSE Keeps(u, c)
    BY <2>2, OthersKeep
  <2>6. \A c \in HeapAddr : Keeps(t, c) <=> c = a
    BY <2>3 DEF Keeps
  <2>7. heap[a] # Unallocated /\ \A u \in Threads : u # t => ~Keeps(u, a)
    BY <1>2, <2>6 DEF OneKeeper
  <2>8. b # a => keyTable[b] = NoKey /\ \A u \in Threads : ~Keeps(u, b)
    BY <2>1 DEF OneKeeper
  <2>9. OneKeeper'
    <3> SUFFICES ASSUME NEW c \in HeapAddr
                 PROVE  /\ heap'[c] # Unallocated
                              <=> keyTable'[c] # NoKey \/ \E u \in Threads : Keeps(u, c)'
                        /\ \A u \in Threads : Keeps(u, c)' =>
                              keyTable'[c] = NoKey /\ \A v \in Threads : Keeps(v, c)' => v = u
      BY DEF OneKeeper
    <3>1. CASE c = a
      BY <2>3, <2>4, <2>5, <2>6, <2>7, <3>1 DEF OneKeeper
    <3>2. CASE c # a
      BY <2>3, <2>4, <2>5, <2>6, <2>8, <3>2 DEF OneKeeper
    <3>3. QED
      BY <3>1, <3>2
  <2>10. QED
    BY <2>3, <2>9 DEF SystemHeapSafe
<1>8. ~SysReallocFault(t)
  BY <1>2 DEF SysReallocFault, OneKeeper, Keeps, Allocated
<1>9. CASE ReallocDrawKey(t)
  <2> DEFINE l == [ctx[t] EXCEPT !.key = nextKey]
  <2>1. /\ l.addr = ctx[t].addr /\ Goto(t, "r_register", l) /\ pc[t] = "r_key"
        /\ UNCHANGED <<heap, fault, keyTable>>
    BY <1>1, <1>9 DEF Context, ReallocDrawKey, system
  <2> HIDE DEF l
  <2>2. \A u \in Threads, b \in HeapAddr :
           Keeps(u, b)' <=> IF u = t THEN ctx[t].addr = b ELSE Keeps(u, b)
    BY <2>1, OthersKeep
  <2>3. \A u \in Threads, b \in HeapAddr : Keeps(u, b)' <=> Keeps(u, b)
    BY <2>1, <2>2 DEF Keeps
  <2>4. QED
    BY <2>1, <2>3, KeepersUnchanged DEF SystemHeapSafe
<1>10. CASE ReallocRegister(t)
  <2> DEFINE b == ctx[t].addr
  <2>1. /\ pc[t] = "r_register" /\ b \in HeapAddr /\ ctx[t].key # NoKey
        /\ Goto(t, "m_ret", ctx[t]) /\ UNCHANGED <<heap, fault>>
    BY <1>1, <1>10 DEF ReallocRegister, LocalsSet, system
  <2>2. \A c \in HeapAddr : keyTable'[c] = IF c = b THEN ctx[t].key ELSE keyTable[c]
    BY <1>10 DEF ReallocRegister, TypeOK, DataOK, Addr
  <2>3. \A u \in Threads, c \in HeapAddr : Keeps(u, c)' <=> u # t /\ Keeps(u, c)
    BY <2>1, OthersKeep
  <2>4. \A c \in HeapAddr : Keeps(t, c) <=> c = b
    BY <2>1 DEF Keeps
  <2>5. QED
    BY <2>1, <2>2, <2>3, <2>4 DEF OneKeeper, SystemHeapSafe
<1>11. CASE ReallocRestore(t)
  <2>1. /\ pc[t] = "r_restore" /\ ctx[t].oldKey # NoKey
        /\ Goto(t, "idle", NoCtx) /\ UNCHANGED <<heap, fault>>
    BY <1>1, <1>3, <1>11 DEF ReallocRestore, LocalOK, Return, system
  <2>2. \A c \in HeapAddr : keyTable'[c] = IF c = a THEN ctx[t].oldKey ELSE keyTable[c]
    BY <1>11 DEF ReallocRestore, TypeOK, DataOK, Addr
  <2>3. \A u \in Threads, c \in HeapAddr : Keeps(u, c)' <=> u # t /\ Keeps(u, c)
    BY <2>1, OthersKeep
  <2>4. \A c \in HeapAddr : Keeps(t, c) <=> c = a
    BY <2>1 DEF Keeps
  <2>5. QED
    BY <1>2, <2>1, <2>2, <2>3, <2>4 DEF OneKeeper, SystemHeapSafe
<1>12. QED
  BY <1>4, <1>5, <1>6, <1>7, <1>8, <1>9, <1>10, <1>11 DEF Realloc

LEMMA DeclarationKeeper ==
    ASSUME Inv, NEW t \in Threads, Declaration(t)
    PROVE  OneKeeper' /\ SystemHeapSafe'
<1>1. pc[t] \in Declaring /\ LocalsSet(pc[t], ctx[t])
  BY StepLocals DEF Declaration, GetNextKey, RegisterStackKey, Declaring
<1>2. PICK label, l : label \in {"s_register", "idle"} /\ Goto(t, label, l)
  BY DEF Declaration, GetNextKey, RegisterStackKey, Return
<1>3. UNCHANGED <<heap, fault>> /\ \A b \in HeapAddr : keyTable'[b] = keyTable[b]
  BY <1>1 DEF Declaration, GetNextKey, RegisterStackKey, LocalsSet, Inv, TypeOK, DataOK, system,
     Addr
<1>4. \A u \in Threads, b \in HeapAddr : Keeps(u, b)' <=> u # t /\ Keeps(u, b)
  BY <1>2, OthersKeep DEF Inv
<1>5. \A u \in Threads, b \in HeapAddr : Keeps(u, b)' <=> Keeps(u, b)
  BY <1>1, <1>4 DEF Keeps, Declaring
<1>6. QED
  BY <1>3, <1>5, KeepersUnchanged DEF SystemHeapSafe, Inv

-----------------------------------------------------------------------------
(* The promises *)

LEMMA DisciplineInit == Init => Inv
<1> SUFFICES ASSUME Init PROVE Inv
  OBVIOUS
<1>1. OneKeeper /\ SystemHeapSafe
  BY DEF Init, OneKeeper, Keeps, Addr, SystemHeapSafe
<1>2. PointersDistinct /\ OwnedLive /\ FramesOK
  BY DEF Init, PointersDistinct, OwnedLive, FramesOK, Addr
<1>3. Locals /\ Exclusive
  BY DEF Init, Locals, LocalOK, Exclusive, Holding, Releasers, NeedsKey, Deallocating,
         Reallocating, Accessing, Declaring, NoCtx
<1>4. QED
  BY <1>1, <1>2, <1>3, TypeInit, KeysInit DEF Inv, Discipline

LEMMA DisciplineStep ==
    ASSUME Disciplined, Inv, [Next]_vars
    PROVE  Inv'
<1> DEFINE Kept == OneKeeper' /\ SystemHeapSafe' /\ Discipline'
<1>1. TypeOK' /\ KeysNameOneObject'
  BY TypeStep, KeysStep DEF Inv
<1> SUFFICES Kept
  BY <1>1 DEF Inv
<1>2. ASSUME UNCHANGED <<tables, lock, system, program, pc, ctx>> PROVE Kept
  <2>1. OneKeeper' /\ SystemHeapSafe'
    BY <1>2, KeepersUnchanged DEF Inv, tables, system, Keeps, SystemHeapSafe
  <2>2. Discipline'
    BY <1>2 DEF Inv, Discipline, PointersDistinct, OwnedLive, FramesOK, Locals, LocalOK,
                Exclusive, tables, program
  <2>3. QED
    BY <2>1, <2>2
<1>3. ASSUME NEW t \in Threads, Step(t) PROVE Kept
  <2>1. CASE Call(t)
    BY <2>1, CallKeeper, CallDiscipline DEF Inv
  <2>2. CASE Malloc(t)
    BY <2>2, MallocKeeper, MallocDiscipline DEF Inv
  <2>3. CASE FreeBlock(t)
    <3>1. pc[t] \in Deallocating => ctx[t].ptr.addr \in HeapAddr
      BY StepLocals DEF LocalOK, Releasers
    <3>2. QED
      BY <2>3, <3>1, FreeBlockKeeper, FreeBlockDiscipline DEF Inv
  <2>4. CASE Realloc(t)
    BY <2>4, ReallocKeeper, ReallocDiscipline
  <2>5. CASE CheckedAccess(t)
    BY <2>5, CheckedAccessKeeper, CheckedAccessDiscipline DEF Inv
  <2>6. CASE Declaration(t)
    BY <2>6, DeclarationKeeper, DeclarationDiscipline
  <2>7. CASE Abort(t)
    BY <1>2, <2>7 DEF Abort
  <2>8. QED
    BY <1>3, <2>1, <2>2, <2>3, <2>4, <2>5, <2>6, <2>7 DEF Step, Continue
<1>4. CASE UNCHANGED vars
  BY <1>2, <1>4 DEF vars
<1>5. QED
  BY <1>3, <1>4 DEF Next, Terminated

LEMMA DisciplineInvariant ==
    ASSUME Disciplined
    PROVE  Spec => []Inv
BY DisciplineInit, DisciplineStep, PTL DEF Spec

\* In a disciplined program an access that passed __stricc_rt_check_bounds is
\* over before its object is released, moved or goes out of scope.
THEOREM AccessesAreLive ==
    ASSUME Disciplined
    PROVE  Spec => []AccessLive
<1>1. Inv => AccessLive
  <2> SUFFICES ASSUME Inv, NEW t \in Threads, pc[t] \in {"access", "w_shadow"}
               PROVE  LET m == ctx[t].ptr.meta
                      IN  /\ m.key # NoKey /\ keyTable[m.base] = m.key
                          /\ m.base \in HeapAddr => Allocated(m.base)
    BY DEF AccessLive
  <2>1. ctx[t].ptr \in ptrs /\ keyTable[ctx[t].ptr.addr] = ctx[t].ptr.meta.key
    BY StepLocals DEF LocalOK, NeedsKey, Holding, Accessing
  <2>2. ctx[t].ptr.meta.key # NoKey /\ ctx[t].ptr.meta.base = ctx[t].ptr.addr
    BY <2>1 DEF Inv, Discipline, PointersDistinct
  <2>3. QED
    BY <2>1, <2>2 DEF Inv, OneKeeper, Allocated
<1>2. QED
  BY <1>1, DisciplineInvariant, PTL

\* ... free and realloc take the key of the pointer they were given out of the
\* tables, although they look up only its address.
THEOREM ReleaseIsOfNamedBlock ==
    ASSUME Disciplined
    PROVE  Spec => []ReleasesNamedBlock
<1>1. Inv => ReleasesNamedBlock
  BY StepLocals DEF ReleasesNamedBlock, LocalOK
<1>2. QED
  BY <1>1, DisciplineInvariant, PTL

\* ... no release and no access is stopped that the C standard allows.
THEOREM NoFalseAlarms ==
    ASSUME Disciplined
    PROVE  Spec => []NoFalseAlarm
<1>1. Inv => NoFalseAlarm
  <2> SUFFICES ASSUME Inv, NEW t \in Threads, pc[t] \in Aborting
               PROVE  /\ pc[t] \notin {"double_free", "invalid_realloc", "out_of_bounds"}
                      /\ ctx[t].ptr \notin owned
    BY DEF NoFalseAlarm
  <2>1. LocalOK(t, pc[t], ctx[t])
    BY StepLocals
  <2>2. NoPtr \notin owned
    BY DEF NoPtr, Inv, TypeOK, DataOK, Pointer, Addr
  <2>3. QED
    BY <2>1, <2>2 DEF LocalOK, Aborting
<1>2. QED
  BY <1>1, DisciplineInvariant, PTL

\* ... and realloc, stack variables and stored pointers included, every block
\* has one keeper and no block goes to the system allocator twice.
THEOREM DisciplinedHeap ==
    ASSUME Disciplined
    PROVE  Spec => [](OneKeeper /\ SystemHeapSafe)
BY DisciplineInvariant, PTL DEF Inv

-----------------------------------------------------------------------------
(* The entries of SHADOW_TABLE, while no pointer is stored over them *)

\* The size that a thread at a label, with locals c, has of a block.
SizeOK(label, c) ==
    /\ label \in {"m_key", "m_register", "m_shadow", "r_key", "r_register"} =>
          heap[c.addr] = c.size
    /\ label \in {"r_revoke", "r_shadow", "r_sys", "r_restore"} =>
          c.oldSize = heap[c.ptr.addr]

SizesKnown == \A t \in Threads : SizeOK(pc[t], ctx[t])

\* malloc is between the two tables.
Recording(a) == \E t \in Threads : pc[t] = "m_shadow" /\ ctx[t].addr = a

Recorded ==
    \A a \in HeapAddr : keyTable[a] # NoKey =>
        shadowTable[a] = Entry(a, heap[a], keyTable[a]) \/ Recording(a)

NoStores == \A t \in Threads : pc[t] # "w_shadow" /\ ~ctx[t].store

ShadowInv == Inv /\ LocksFollow /\ SizesKnown /\ Recorded /\ NoStores

\* The blocks whose size a thread relies on are allocated, and no other thread
\* keeps them.
UsesSize(u, b) ==
    \/ pc[u] \in {"m_key", "m_register", "m_shadow", "r_key", "r_register"} /\ ctx[u].addr = b
    \/ pc[u] \in {"r_revoke", "r_shadow", "r_sys", "r_restore"} /\ ctx[u].ptr.addr = b

LEMMA SizeUsers ==
    ASSUME Inv, NEW u \in Threads, NEW b, UsesSize(u, b)
    PROVE  /\ b \in HeapAddr /\ heap[b] # Unallocated
           /\ \A t \in Threads \ {u} : ~Keeps(t, b)
<1>1. LocalOK(u, pc[u], ctx[u]) /\ LocalsSet(pc[u], ctx[u])
  BY StepLocals
<1>2. b \in HeapAddr
  BY <1>1 DEF UsesSize, LocalsSet, LocalOK, Releasers, Reallocating
<1>3. Keeps(u, b) \/ keyTable[b] # NoKey
  BY <1>1 DEF UsesSize, Keeps, LocalOK, LocalsSet, NeedsKey, Holding, Releasers, Reallocating,
     Inv, Discipline, PointersDistinct
<1>4. QED
  BY <1>2, <1>3 DEF Inv, OneKeeper

\* A step of t to a label, with locals l.
LEMMA SizesAfter ==
    ASSUME Inv, SizesKnown, NEW t \in Threads, NEW label, NEW l,
           Goto(t, label, l) \/ Begin(t, label, l),
           \A b \in HeapAddr : heap'[b] # heap[b] => heap[b] = Unallocated \/ Keeps(t, b),
           SizeOK(label, l)'
    PROVE  SizesKnown'
<1>1. ASSUME NEW u \in Threads, u # t PROVE SizeOK(pc[u], ctx[u])'
  <2>1. SizeOK(pc[u], ctx[u]) /\ pc'[u] = pc[u] /\ ctx'[u] = ctx[u]
    BY <1>1, OthersStay DEF SizesKnown
  <2>2. \A b : UsesSize(u, b) => heap'[b] = heap[b]
    BY <1>1, SizeUsers
  <2>3. QED
    BY <2>1, <2>2 DEF SizeOK, UsesSize
<1>2. pc'[t] = label /\ ctx'[t] = l
  BY DEF Goto, Begin, Inv, TypeOK, ControlOK
<1>3. QED
  BY <1>1, <1>2 DEF SizesKnown

LEMMA RecordedAfter ==
    ASSUME Inv, Recorded, NEW t \in Threads, NEW label, NEW l,
           Goto(t, label, l) \/ Begin(t, label, l),
           \A a \in HeapAddr : keyTable'[a] # NoKey =>
              \/ /\ keyTable'[a] = keyTable[a] /\ shadowTable'[a] = shadowTable[a]
                 /\ heap'[a] = heap[a] /\ ~(pc[t] = "m_shadow" /\ ctx[t].addr = a)
              \/ shadowTable'[a] = Entry(a, heap'[a], keyTable'[a])
              \/ label = "m_shadow" /\ l.addr = a
    PROVE  Recorded'
<1>1. \A u \in Threads : /\ pc'[u] = IF u = t THEN label ELSE pc[u]
                         /\ ctx'[u] = IF u = t THEN l ELSE ctx[u]
  BY DEF Goto, Begin, Inv, TypeOK, ControlOK
<1>2. ASSUME NEW a \in HeapAddr, keyTable'[a] # NoKey
      PROVE  shadowTable'[a] = Entry(a, heap'[a], keyTable'[a]) \/ Recording(a)'
  <2>1. CASE /\ keyTable'[a] = keyTable[a] /\ shadowTable'[a] = shadowTable[a]
             /\ heap'[a] = heap[a] /\ ~(pc[t] = "m_shadow" /\ ctx[t].addr = a)
    BY <1>1, <1>2, <2>1 DEF Recorded, Recording
  <2>2. CASE label = "m_shadow" /\ l.addr = a
    BY <1>1, <2>2 DEF Recording
  <2>3. QED
    BY <1>2, <2>1, <2>2
<1>3. QED
  BY <1>2 DEF Recorded, Entry

\* A block that is registered has an entry that t can read.
LEMMA EntryOfOwnBlock ==
    ASSUME Inv, Recorded, NEW t \in Threads, pc[t] \in NeedsKey,
           NEW a \in HeapAddr, ctx[t].ptr.addr = a
    PROVE  shadowTable[a].size = heap[a]
<1>1. ctx[t].ptr \in ptrs /\ ctx[t].ptr.meta.key # NoKey /\ keyTable[a] = ctx[t].ptr.meta.key
  BY StepLocals DEF LocalOK, Inv, Discipline, PointersDistinct, Holding, NeedsKey, Releasers,
     Deallocating, Reallocating, Accessing
<1>2. ~Recording(a)
  BY <1>1, StepLocals DEF Recording, LocalOK, LocalsSet
<1>3. shadowTable[a] = Entry(a, heap[a], keyTable[a])
  BY <1>1, <1>2 DEF Recorded
<1>4. QED
  BY <1>3 DEF Entry

LEMMA MallocShadowInv ==
    ASSUME ShadowInv, NEW t \in Threads, Malloc(t)
    PROVE  SizesKnown' /\ Recorded'
<1> USE DEF ShadowInv
<1>1. ctx[t] \in Context /\ LocalsSet(pc[t], ctx[t]) /\ SizeOK(pc[t], ctx[t])
  BY StepLocals DEF SizesKnown
<1>2. TypeOK /\ OneKeeper
  BY DEF Inv
<1>3. CASE SysAlloc(t)
  <2>1. PICK a \in HeapAddr : /\ heap[a] = Unallocated
                              /\ heap' = [heap EXCEPT ![a] = ctx[t].size]
                              /\ Goto(t, "m_key", [ctx[t] EXCEPT !.addr = a])
    BY <1>3 DEF SysAlloc
  <2>2. PICK l : l = [ctx[t] EXCEPT !.addr = a]
    OBVIOUS
  <2>3. /\ Goto(t, "m_key", l) /\ l.addr = a /\ l.size = ctx[t].size
        /\ \A b \in HeapAddr : heap'[b] = IF b = a THEN l.size ELSE heap[b]
    BY <1>1, <1>2, <2>1, <2>2 DEF Context, TypeOK, DataOK
  <2>4. pc[t] = "m_sys" /\ UNCHANGED <<keyTable, shadowTable>> /\ keyTable[a] = NoKey
    BY <1>2, <1>3, <2>1 DEF SysAlloc, OneKeeper, tables
  <2>5. SizeOK("m_key", l)'
    BY <2>3 DEF SizeOK
  <2>6. QED
    BY <2>1, <2>3, <2>4, <2>5, SizesAfter, RecordedAfter
<1>4. CASE OutOfMemory(t) \/ LoadResult(t)
  <2>1. /\ Goto(t, "idle", NoCtx) /\ UNCHANGED <<heap, keyTable, shadowTable>>
        /\ pc[t] # "m_shadow"
    BY <1>4 DEF OutOfMemory, LoadResult, Return, tables, system
  <2>2. SizeOK("idle", NoCtx)'
    BY DEF SizeOK
  <2>3. QED
    BY <2>1, <2>2, SizesAfter, RecordedAfter
<1>5. CASE MallocDrawKey(t)
  <2>1. PICK l : l = [ctx[t] EXCEPT !.key = nextKey]
    OBVIOUS
  <2>2. /\ Goto(t, "m_register", l) /\ l.addr = ctx[t].addr /\ l.size = ctx[t].size
        /\ pc[t] = "m_key" /\ UNCHANGED <<heap, keyTable, shadowTable>>
    BY <1>1, <1>5, <2>1 DEF MallocDrawKey, Context, system
  <2>3. SizeOK("m_register", l)'
    BY <1>1, <2>2 DEF SizeOK
  <2>4. QED
    BY <2>2, <2>3, SizesAfter, RecordedAfter
<1>6. CASE MallocRegister(t)
  <2>1. PICK l : l = ctx[t]
    OBVIOUS
  <2>2. /\ Goto(t, "m_shadow", l) /\ pc[t] = "m_register" /\ UNCHANGED <<heap, shadowTable>>
        /\ \A b \in HeapAddr : b # l.addr => keyTable'[b] = keyTable[b]
    BY <1>2, <1>6, <2>1 DEF MallocRegister, TypeOK, DataOK, Addr, system
  <2>3. SizeOK("m_shadow", l)'
    BY <1>1, <2>1, <2>2 DEF SizeOK
  <2>4. QED
    BY <2>2, <2>3, SizesAfter, RecordedAfter
<1>7. CASE MallocShadow(t)
  <2> DEFINE a == ctx[t].addr
  <2>1. PICK l : l = ctx[t]
    OBVIOUS
  <2>2. /\ Goto(t, "m_ret", l) /\ pc[t] = "m_shadow" /\ UNCHANGED <<heap, keyTable>>
        /\ a \in HeapAddr /\ keyTable[a] = ctx[t].key /\ heap[a] = ctx[t].size
        /\ \A b \in HeapAddr : shadowTable'[b] = IF b = a THEN Entry(a, ctx[t].size, ctx[t].key)
                                                          ELSE shadowTable[b]
    BY <1>1, <1>2, <1>7, <2>1, StepLocals
       DEF MallocShadow, LocalsSet, LocalOK, SizeOK, TypeOK, DataOK, Addr, system
  <2>3. SizeOK("m_ret", l)'
    BY DEF SizeOK
  <2>4. \A b \in HeapAddr : b # a =>
           /\ keyTable'[b] = keyTable[b] /\ shadowTable'[b] = shadowTable[b]
           /\ heap'[b] = heap[b] /\ ~(pc[t] = "m_shadow" /\ ctx[t].addr = b)
    BY <2>2
  <2>5. shadowTable'[a] = Entry(a, heap'[a], keyTable'[a])
    BY <2>2
  <2>6. QED
    BY <2>2, <2>3, <2>4, <2>5, SizesAfter, RecordedAfter
<1>8. QED
  BY <1>3, <1>4, <1>5, <1>6, <1>7 DEF Malloc

LEMMA FreeBlockShadowInv ==
    ASSUME ShadowInv, NEW t \in Threads, FreeBlock(t)
    PROVE  SizesKnown' /\ Recorded'
<1> USE DEF ShadowInv
<1>1. TypeOK /\ OneKeeper
  BY DEF Inv
<1>2. PICK a : a = ctx[t].ptr.addr
  OBVIOUS
<1>3. a \in HeapAddr /\ pc[t] \in Deallocating
  BY <1>2, StepLocals DEF FreeBlock, FreeRevoke, FreeShadow, SysFree, LocalOK, Releasers,
     Deallocating
<1>4. PICK label, l : label \in {"f_shadow", "double_free", "f_sys", "idle"} /\ Goto(t, label, l)
  BY DEF FreeBlock, FreeRevoke, FreeShadow, SysFree, Fail, Return
<1>5. SizeOK(label, l)'
  BY <1>4 DEF SizeOK
<1>6. /\ \A b \in HeapAddr : b # a =>
            keyTable'[b] = keyTable[b] /\ shadowTable'[b] = shadowTable[b] /\ heap'[b] = heap[b]
      /\ keyTable'[a] = NoKey
      /\ heap'[a] # heap[a] => Keeps(t, a)
  <2>1. CASE FreeRevoke(t)
    BY <1>1, <1>2, <1>3, <2>1 DEF FreeRevoke, TypeOK, DataOK, Addr, system
  <2>2. CASE FreeShadow(t)
    <3>1. keyTable[a] = NoKey
      BY <1>1, <1>2, <1>3, <2>2 DEF FreeShadow, OneKeeper, Keeps
    <3>2. QED
      BY <1>1, <1>2, <1>3, <2>2, <3>1 DEF FreeShadow, TypeOK, DataOK, Addr, system
  <2>3. CASE SysFree(t)
    <3>1. keyTable[a] = NoKey /\ Keeps(t, a)
      BY <1>1, <1>2, <1>3, <2>3 DEF SysFree, OneKeeper, Keeps
    <3>2. QED
      BY <1>1, <1>2, <1>3, <2>3, <3>1 DEF SysFree, TypeOK, DataOK, tables
  <2>4. QED
    BY <2>1, <2>2, <2>3 DEF FreeBlock
<1>7. \A b \in HeapAddr : keyTable'[b] # NoKey =>
         /\ keyTable'[b] = keyTable[b] /\ shadowTable'[b] = shadowTable[b]
         /\ heap'[b] = heap[b] /\ ~(pc[t] = "m_shadow" /\ ctx[t].addr = b)
  BY <1>3, <1>6 DEF Deallocating
<1>8. \A b \in HeapAddr : heap'[b] # heap[b] => heap[b] = Unallocated \/ Keeps(t, b)
  BY <1>6
<1>9. SizesKnown'
  BY <1>4, <1>5, <1>8, SizesAfter
<1>10. Recorded'
  BY <1>4, <1>7, RecordedAfter
<1>11. QED
  BY <1>9, <1>10

LEMMA ReallocShadowInv ==
    ASSUME ShadowInv, NEW t \in Threads, Realloc(t)
    PROVE  SizesKnown' /\ Recorded'
<1> USE DEF ShadowInv
<1>1. ctx[t] \in Context /\ LocalsSet(pc[t], ctx[t]) /\ SizeOK(pc[t], ctx[t])
  BY StepLocals DEF SizesKnown
<1>2. TypeOK /\ OneKeeper
  BY DEF Inv
<1>3. PICK a : a = ctx[t].ptr.addr
  OBVIOUS
<1>4. a \in HeapAddr /\ pc[t] \in Reallocating
  <2>1. pc[t] \in Reallocating
    BY DEF Realloc, ReallocLookup, ReallocOldSize, ReallocRevoke, ReallocShadow, SysRealloc,
           SysReallocFails, SysReallocFault, ReallocDrawKey, ReallocRegister, ReallocRestore,
           Reallocating
  <2>2. QED
    BY <1>3, <2>1, StepLocals DEF LocalOK, Releasers
<1>5. ASSUME NEW label, NEW l, Goto(t, label, l), SizeOK(label, l)',
             \A b \in HeapAddr : heap'[b] # heap[b] => heap[b] = Unallocated \/ Keeps(t, b),
             \A b \in HeapAddr : keyTable'[b] # NoKey =>
                \/ /\ keyTable'[b] = keyTable[b] /\ shadowTable'[b] = shadowTable[b]
                   /\ heap'[b] = heap[b]
                \/ shadowTable'[b] = Entry(b, heap'[b], keyTable'[b])
      PROVE  SizesKnown' /\ Recorded'
  <2>1. SizesKnown'
    BY <1>5, SizesAfter
  <2>2. pc[t] # "m_shadow"
    BY <1>4 DEF Reallocating
  <2>3. Recorded'
    BY <1>5, <2>2, RecordedAfter
  <2>4. QED
    BY <2>1, <2>3
<1>6. CASE ReallocLookup(t)
  <2>1. PICK label, l : label \in {"r_size", "invalid_realloc"} /\ Goto(t, label, l)
    BY <1>6 DEF ReallocLookup, Fail
  <2>2. UNCHANGED <<heap, keyTable, shadowTable>> /\ SizeOK(label, l)'
    BY <1>6, <2>1 DEF ReallocLookup, SizeOK, tables, system
  <2>3. QED
    BY <1>5, <2>1, <2>2
<1>7. CASE ReallocOldSize(t)
  <2>1. pc[t] = "r_size" /\ shadowTable[a].size = heap[a]
    BY <1>3, <1>4, <1>7, EntryOfOwnBlock DEF ReallocOldSize, NeedsKey
  <2>2. PICK l : l = [ctx[t] EXCEPT !.oldSize = shadowTable[a].size]
    OBVIOUS
  <2>3. /\ Goto(t, "r_revoke", l) /\ l.oldSize = heap[a] /\ l.ptr = ctx[t].ptr
        /\ UNCHANGED <<heap, keyTable, shadowTable>>
    BY <1>1, <1>3, <1>7, <2>1, <2>2 DEF ReallocOldSize, Context, tables, system
  <2>4. SizeOK("r_revoke", l)'
    BY <1>3, <2>3 DEF SizeOK
  <2>5. QED
    BY <1>5, <2>3, <2>4
<1>8. CASE ReallocRevoke(t) \/ ReallocShadow(t) \/ SysReallocFails(t)
  <2>1. PICK l : l = ctx[t]
    OBVIOUS
  <2>2. PICK label \in {"r_shadow", "r_sys", "r_restore"} : Goto(t, label, l)
    BY <1>8, <2>1 DEF ReallocRevoke, ReallocShadow, SysReallocFails
  <2>3. UNCHANGED heap /\ pc[t] \in {"r_revoke", "r_shadow", "r_sys"}
    BY <1>8 DEF ReallocRevoke, ReallocShadow, SysReallocFails, system
  <2>4. SizeOK(label, l)'
    BY <1>1, <2>1, <2>2, <2>3 DEF SizeOK
  <2>5. pc[t] = "r_shadow" => keyTable[a] = NoKey
    BY <1>2, <1>3, <1>4 DEF OneKeeper, Keeps
  <2>6. \A b \in HeapAddr : keyTable'[b] # NoKey =>
           keyTable'[b] = keyTable[b] /\ shadowTable'[b] = shadowTable[b]
    BY <1>2, <1>3, <1>4, <1>8, <2>5
       DEF ReallocRevoke, ReallocShadow, SysReallocFails, TypeOK, DataOK, Addr, tables
  <2>7. QED
    BY <1>5, <2>2, <2>3, <2>4, <2>6
<1>9. CASE SysRealloc(t)
  <2>1. PICK b \in HeapAddr :
           /\ b = a \/ heap[b] = Unallocated
           /\ heap' = [heap EXCEPT ![a] = Unallocated, ![b] = ctx[t].size]
           /\ Goto(t, "r_key", [ctx[t] EXCEPT !.addr = b])
    BY <1>3, <1>9 DEF SysRealloc
  <2>2. PICK l : l = [ctx[t] EXCEPT !.addr = b]
    OBVIOUS
  <2>3. Goto(t, "r_key", l) /\ l.addr = b /\ l.size = ctx[t].size
    BY <1>1, <2>1, <2>2 DEF Context
  <2>4. pc[t] = "r_sys" /\ UNCHANGED <<keyTable, shadowTable>>
    BY <1>9 DEF SysRealloc, tables
  <2>5. \A c \in HeapAddr : heap'[c] = IF c = b THEN ctx[t].size
                                       ELSE IF c = a THEN Unallocated ELSE heap[c]
    BY <1>2, <1>4, <2>1 DEF TypeOK, DataOK
  <2>6. SizeOK("r_key", l)'
    BY <2>3, <2>5 DEF SizeOK
  <2>7. Keeps(t, a) /\ keyTable[a] = NoKey
    BY <1>2, <1>3, <1>4, <2>4 DEF OneKeeper, Keeps
  <2>8. b # a => keyTable[b] = NoKey
    BY <1>2, <2>1 DEF OneKeeper
  <2>9. QED
    BY <1>5, <2>1, <2>3, <2>4, <2>5, <2>6, <2>7, <2>8
<1>10. ~SysReallocFault(t)
  BY <1>2, <1>3, <1>4 DEF SysReallocFault, OneKeeper, Keeps, Allocated
<1>11. CASE ReallocDrawKey(t)
  <2>1. PICK l : l = [ctx[t] EXCEPT !.key = nextKey]
    OBVIOUS
  <2>2. /\ Goto(t, "r_register", l) /\ l.addr = ctx[t].addr /\ l.size = ctx[t].size
        /\ pc[t] = "r_key" /\ UNCHANGED <<heap, keyTable, shadowTable>>
    BY <1>1, <1>11, <2>1 DEF ReallocDrawKey, Context, system
  <2>3. SizeOK("r_register", l)'
    BY <1>1, <2>2 DEF SizeOK
  <2>4. QED
    BY <1>5, <2>2, <2>3
<1>12. CASE ReallocRegister(t)
  <2> DEFINE b == ctx[t].addr
  <2>1. PICK l : l = ctx[t]
    OBVIOUS
  <2>2. /\ Goto(t, "m_ret", l) /\ UNCHANGED heap /\ b \in HeapAddr /\ heap[b] = ctx[t].size
        /\ \A c \in HeapAddr :
              /\ keyTable'[c] = IF c = b THEN ctx[t].key ELSE keyTable[c]
              /\ shadowTable'[c] = IF c = b THEN Entry(b, ctx[t].size, ctx[t].key)
                                            ELSE shadowTable[c]
    BY <1>1, <1>2, <1>12, <2>1 DEF ReallocRegister, LocalsSet, SizeOK, TypeOK, DataOK, Addr, system
  <2>3. SizeOK("m_ret", l)'
    BY DEF SizeOK
  <2>4. shadowTable'[b] = Entry(b, heap'[b], keyTable'[b])
    BY <2>2
  <2>5. \A c \in HeapAddr : c # b =>
           keyTable'[c] = keyTable[c] /\ shadowTable'[c] = shadowTable[c] /\ heap'[c] = heap[c]
    BY <2>2
  <2>6. QED
    BY <1>5, <2>2, <2>3, <2>4, <2>5
<1>13. CASE ReallocRestore(t)
  <2>1. /\ Goto(t, "idle", NoCtx) /\ UNCHANGED heap /\ heap[a] = ctx[t].oldSize
        /\ \A c \in HeapAddr :
              /\ keyTable'[c] = IF c = a THEN ctx[t].oldKey ELSE keyTable[c]
              /\ shadowTable'[c] = IF c = a THEN Entry(a, ctx[t].oldSize, ctx[t].oldKey)
                                            ELSE shadowTable[c]
    BY <1>1, <1>2, <1>3, <1>4, <1>13
       DEF ReallocRestore, Return, SizeOK, TypeOK, DataOK, Addr, system
  <2>2. SizeOK("idle", NoCtx)'
    BY DEF SizeOK
  <2>3. shadowTable'[a] = Entry(a, heap'[a], keyTable'[a])
    BY <1>4, <2>1
  <2>4. \A c \in HeapAddr : c # a =>
           keyTable'[c] = keyTable[c] /\ shadowTable'[c] = shadowTable[c] /\ heap'[c] = heap[c]
    BY <2>1
  <2>5. QED
    BY <1>5, <2>1, <2>2, <2>3, <2>4
<1>14. QED
  BY <1>6, <1>7, <1>8, <1>9, <1>10, <1>11, <1>12, <1>13 DEF Realloc

\* The steps that change no block and neither table at a heap address.
LEMMA HeapSame ==
    ASSUME ShadowInv, NEW t \in Threads, NEW label, NEW l, pc[t] # "m_shadow",
           Goto(t, label, l) \/ Begin(t, label, l), UNCHANGED <<heap, shadowTable>>,
           \A b \in HeapAddr : keyTable'[b] = keyTable[b],
           label \notin {"m_key", "m_register", "m_shadow"} \cup (Reallocating \ {"r_lookup"})
    PROVE  SizesKnown' /\ Recorded'
<1>1. SizeOK(label, l)'
  BY DEF SizeOK, Reallocating
<1>2. SizesKnown'
  BY <1>1, SizesAfter DEF ShadowInv
<1>3. QED
  BY <1>2, RecordedAfter DEF ShadowInv

LEMMA CallShadowInv ==
    ASSUME ShadowInv, NEW t \in Threads, Call(t)
    PROVE  SizesKnown' /\ Recorded'
<1>1. CASE DeregisterStackKey(t)
  <2>1. UNCHANGED <<heap, shadowTable, pc, ctx>> /\ \A b \in HeapAddr : keyTable'[b] = keyTable[b]
    BY <1>1 DEF DeregisterStackKey, ShadowInv, Inv, TypeOK, DataOK, Addr, system
  <2>2. QED
    BY <2>1 DEF ShadowInv, SizesKnown, SizeOK, Recorded, Recording, Entry
<1>2. CASE \E label \in FirstLabels : \E l : Begin(t, label, l)
  <2>1. PICK label, l : label \in FirstLabels /\ Begin(t, label, l)
    BY <1>2
  <2>2. pc[t] # "m_shadow" /\ UNCHANGED <<heap, keyTable, shadowTable>>
    BY <2>1 DEF Begin, tables, system
  <2>3. QED
    BY <2>1, <2>2, HeapSame DEF FirstLabels, Reallocating
<1>3. QED
  BY <1>1, <1>2, CallBegins

LEMMA CheckedAccessShadowInv ==
    ASSUME ShadowInv, NEW t \in Threads, CheckedAccess(t)
    PROVE  SizesKnown' /\ Recorded'
<1>1. PICK label, l : label \in {"access", "use_after_free", "w_shadow", "idle"} /\ Goto(t, label, l)
  BY DEF CheckedAccess, CheckKey, Access, StoreShadow, Fail, Return
<1>2. ~StoreShadow(t)
  BY DEF StoreShadow, ShadowInv, NoStores
<1>3. UNCHANGED <<heap, keyTable, shadowTable>> /\ pc[t] # "m_shadow"
  BY <1>2 DEF CheckedAccess, CheckKey, Access, tables, system
<1>4. QED
  BY <1>1, <1>3, HeapSame DEF Reallocating

LEMMA DeclarationShadowInv ==
    ASSUME ShadowInv, NEW t \in Threads, Declaration(t)
    PROVE  SizesKnown' /\ Recorded'
<1>1. pc[t] \in Declaring /\ LocalsSet(pc[t], ctx[t])
  BY StepLocals DEF Declaration, GetNextKey, RegisterStackKey, Declaring, ShadowInv
<1>2. PICK label, l : label \in {"s_register", "idle"} /\ Goto(t, label, l)
  BY DEF Declaration, GetNextKey, RegisterStackKey, Return
<1>3. UNCHANGED <<heap, shadowTable>> /\ \A b \in HeapAddr : keyTable'[b] = keyTable[b]
  BY <1>1 DEF Declaration, GetNextKey, RegisterStackKey, LocalsSet, ShadowInv, Inv, TypeOK,
     DataOK, system, Addr
<1>4. QED
  BY <1>1, <1>2, <1>3, HeapSame DEF Reallocating, Declaring

LEMMA NoStoresStep ==
    ASSUME "store" \notin Ops, TypeOK, NoStores, NEW t \in Threads, Call(t) \/ Continue(t)
    PROVE  NoStores'
<1>1. ctx[t] \in Context /\ NoCtx \in Context
  BY ConstantTypes DEF TypeOK, ControlOK
<1>2. NoCtx.store = FALSE
  BY DEF NoCtx
<1>3. ASSUME NEW label, NEW l, label # "w_shadow", ~l.store, Goto(t, label, l) \/ Begin(t, label, l)
      PROVE  NoStores'
  BY <1>3 DEF NoStores, Goto, Begin, TypeOK, ControlOK
<1>5. ~ctx[t].store
  BY DEF NoStores
<1>6. CASE Call(t)
  <2>1. CASE DeregisterStackKey(t)
    BY <2>1 DEF DeregisterStackKey, NoStores
  <2>2. CASE \E label \in FirstLabels : \E l : ~l.store /\ Begin(t, label, l)
    BY <1>3, <2>2 DEF FirstLabels
  <2>3. CASE CallMalloc(t) \/ CallAlignedAlloc(t) \/ CallFree(t) \/ CallRealloc(t) \/ CallDeref(t) \/ CallDecl(t)
    BY <1>1, <1>2, <2>2, <2>3 DEF CallMalloc, CallAlignedAlloc, CallFree, CallRealloc, CallDeref,
       CallDecl, BeginAccess, FirstLabels, NoCtx
  <2>4. QED
    BY <1>6, <2>1, <2>3 DEF Call, CallStore
<1>7. CASE Malloc(t)
  <2>1. \E label, l : label # "w_shadow" /\ ~l.store /\ Goto(t, label, l)
    BY <1>1, <1>2, <1>5, <1>7 DEF Malloc, SysAlloc, OutOfMemory, MallocDrawKey, MallocRegister,
       MallocShadow, LoadResult, Return, Context
  <2>2. QED
    BY <1>3, <2>1
<1>8. CASE FreeBlock(t)
  BY <1>1, <1>2, <1>3, <1>5, <1>8 DEF FreeBlock, FreeRevoke, FreeShadow, SysFree, Fail, Return,
     Context
<1>9. CASE Realloc(t)
  <2>1. CASE SysReallocFault(t)
    BY <2>1 DEF SysReallocFault, NoStores
  <2>2. CASE SysRealloc(t)
    <3>1. \E l : ~l.store /\ Goto(t, "r_key", l)
      BY <1>1, <1>5, <2>2 DEF SysRealloc, Context
    <3>2. QED
      BY <1>3, <3>1
  <2>3. CASE \/ ReallocLookup(t) \/ ReallocOldSize(t) \/ ReallocDrawKey(t)
             \/ ReallocRevoke(t) \/ ReallocShadow(t) \/ SysReallocFails(t)
             \/ ReallocRegister(t) \/ ReallocRestore(t)
    <3>1. \E label, l : label # "w_shadow" /\ ~l.store /\ Goto(t, label, l)
      BY <1>1, <1>2, <1>5, <2>3 DEF ReallocLookup, ReallocOldSize, ReallocDrawKey, ReallocRevoke,
         ReallocShadow, SysReallocFails, ReallocRegister, ReallocRestore, Fail, Return, Context
    <3>2. QED
      BY <1>3, <3>1
  <2>4. QED
    BY <1>9, <2>1, <2>2, <2>3 DEF Realloc
<1>10. CASE CheckedAccess(t)
  BY <1>2, <1>3, <1>5, <1>10 DEF CheckedAccess, CheckKey, Access, StoreShadow, NoStores, Fail,
     Return
<1>11. CASE Declaration(t)
  BY <1>1, <1>2, <1>3, <1>5, <1>11 DEF Declaration, GetNextKey, RegisterStackKey, Return, Context
<1>12. CASE Abort(t)
  BY <1>12 DEF Abort, NoStores
<1>13. QED
  BY <1>6, <1>7, <1>8, <1>9, <1>10, <1>11, <1>12 DEF Continue

LEMMA ShadowInvariant ==
    ASSUME Disciplined, "store" \notin Ops
    PROVE  Spec => []ShadowInv
<1>1. Init => ShadowInv
  <2>1. Init => SizesKnown /\ Recorded /\ NoStores
    BY DEF Init, SizesKnown, SizeOK, Recorded, NoStores, NoCtx, Addr
  <2>2. Init => LocksFollow
    BY DEF Init, LocksFollow, Locks, HoldsNextKey, HoldsKeyTable, HoldsShadowTable
  <2>3. QED
    BY <2>1, <2>2, DisciplineInit DEF ShadowInv
<1>2. ShadowInv /\ [Next]_vars => ShadowInv'
  <2> SUFFICES ASSUME ShadowInv, [Next]_vars PROVE ShadowInv'
    OBVIOUS
  <2>1. Inv' /\ LocksFollow'
    BY DisciplineStep, LocksFollowStep DEF ShadowInv, Inv
  <2>2. ASSUME UNCHANGED <<tables, heap, pc, ctx>> PROVE SizesKnown' /\ Recorded' /\ NoStores'
    BY <2>2 DEF ShadowInv, SizesKnown, SizeOK, Recorded, Recording, NoStores, Entry, tables
  <2>3. ASSUME NEW t \in Threads, Step(t) PROVE SizesKnown' /\ Recorded' /\ NoStores'
    <3>1. NoStores'
      BY <2>3, NoStoresStep DEF Step, ShadowInv, Inv
    <3>2. CASE Call(t)
      BY <3>1, <3>2, CallShadowInv
    <3>3. CASE Malloc(t) \/ FreeBlock(t) \/ Realloc(t)
      BY <3>1, <3>3, MallocShadowInv, FreeBlockShadowInv, ReallocShadowInv
    <3>4. CASE CheckedAccess(t) \/ Declaration(t)
      BY <3>1, <3>4, CheckedAccessShadowInv, DeclarationShadowInv
    <3>5. CASE Abort(t)
      BY <2>2, <3>5 DEF Abort, system
    <3>6. QED
      BY <2>3, <3>2, <3>3, <3>4, <3>5 DEF Step, Continue
  <2>4. CASE UNCHANGED vars
    BY <2>1, <2>2, <2>4 DEF vars, system, ShadowInv
  <2>5. QED
    BY <2>1, <2>3, <2>4 DEF Next, Terminated, ShadowInv
<1>3. QED
  BY <1>1, <1>2, PTL DEF Spec

\* In a disciplined program that stores no pointers, whoever finds KEY_TABLE free
\* and a key under a block finds the block's address, size and key in SHADOW_TABLE.
THEOREM MetadataIsRecorded ==
    ASSUME Disciplined, "store" \notin Ops
    PROVE  Spec => []AllocationMetadata
<1>1. ShadowInv => AllocationMetadata
  <2> SUFFICES ASSUME ShadowInv, NEW a \in HeapAddr, keyTable[a] # NoKey, Available("KEY_TABLE")
               PROVE  shadowTable[a] = Entry(a, heap[a], keyTable[a])
    BY DEF AllocationMetadata
  <2>1. ~Recording(a)
    BY DEF Recording, Available, ShadowInv, LocksFollow, HoldsKeyTable
  <2>2. QED
    BY <2>1 DEF ShadowInv, Recorded
<1>2. QED
  BY <1>1, ShadowInvariant, PTL

\* ... and a realloc that fails gives the block its own size back, although it
\* read that size from SHADOW_TABLE three sections earlier.
THEOREM SizeIsRestored ==
    ASSUME Disciplined, "store" \notin Ops
    PROVE  Spec => []RestoresSize
<1>1. ShadowInv => RestoresSize
  BY DEF ShadowInv, SizesKnown, SizeOK, RestoresSize
<1>2. QED
  BY <1>1, ShadowInvariant, PTL

-----------------------------------------------------------------------------
(* RuntimeHeap implements TemporalKeys for a disciplined program: every    *)
(* step of the library is a step of a key of the abstract specification or *)
(* leaves all keys as they are.                                            *)

-----------------------------------------------------------------------------
(* The refinement mapping *)

SuspendedAt == {"r_shadow", "r_sys", "r_restore"}

\* What a thread at a label, with locals c, has drawn and is accessing.
DrawnAt(label, c) ==
    IF label \in {"m_register", "r_register", "s_register"} THEN c.key ELSE NoKey

AccessAt(label, c) == IF label \in {"access", "w_shadow"} THEN c.ptr.meta.key ELSE NoKey

LEMMA SuspendedBlock ==
    ASSUME Inv, NEW u \in Threads, NEW a, Suspended(u, a)
    PROVE  /\ a \in HeapAddr /\ keyTable[a] = NoKey
           /\ ctx[u].ptr.addr = a /\ ctx[u].ptr.meta.key # NoKey
           /\ ctx[u].oldKey = ctx[u].ptr.meta.key
           /\ \A v \in Threads : Keeps(v, a) => v = u
<1>1. LocalOK(u, pc[u], ctx[u])
  BY StepLocals
<1>2. a \in HeapAddr /\ ctx[u].ptr \in ptrs /\ ctx[u].oldKey = ctx[u].ptr.meta.key
  BY <1>1 DEF LocalOK, Suspended, Holding, Releasers, Reallocating
<1>3. Keeps(u, a)
  BY DEF Suspended, Keeps
<1>4. QED
  BY <1>2, <1>3 DEF Inv, OneKeeper, Discipline, PointersDistinct, Suspended

\* At most one thread has suspended the key of a place.
HomeValues ==
    \A a \in Addr :
        /\ \A u \in Threads : Suspended(u, a) => Home(a) = ctx[u].oldKey
        /\ (\A u \in Threads : ~Suspended(u, a)) => Home(a) = keyTable[a]

LEMMA HomeValue == Inv => HomeValues
<1> SUFFICES ASSUME Inv, NEW a \in Addr
             PROVE  /\ \A u \in Threads : Suspended(u, a) => Home(a) = ctx[u].oldKey
                    /\ (\A u \in Threads : ~Suspended(u, a)) => Home(a) = keyTable[a]
  BY DEF HomeValues
<1>1. ASSUME NEW u \in Threads, Suspended(u, a) PROVE Home(a) = ctx[u].oldKey
  <2>1. \A v \in Threads : Suspended(v, a) => v = u
    BY <1>1, SuspendedBlock DEF Suspended, Keeps
  <2>2. (CHOOSE v \in Threads : Suspended(v, a)) = u
    BY <1>1, <2>1
  <2>3. QED
    BY <1>1, <2>2 DEF Home
<1>2. QED
  BY <1>1 DEF Home

\* What a step of t to a label, with locals l, does to the home of a place.
LEMMA HomeAfter ==
    ASSUME Inv, Inv', NEW t \in Threads, NEW label, NEW l,
           Goto(t, label, l) \/ Begin(t, label, l), NEW a \in Addr
    PROVE  /\ label \in SuspendedAt /\ l.ptr.addr = a => Home(a)' = l.oldKey
           /\ ~(label \in SuspendedAt /\ l.ptr.addr = a) =>
                 /\ (\A u \in Threads \ {t} : ~Suspended(u, a)) => Home(a)' = keyTable'[a]
                 /\ ~Suspended(t, a) /\ keyTable'[a] = keyTable[a] => Home(a)' = Home(a)
<1>1. \A u \in Threads : /\ pc'[u] = IF u = t THEN label ELSE pc[u]
                         /\ ctx'[u] = IF u = t THEN l ELSE ctx[u]
  BY DEF Goto, Begin, Inv, TypeOK, ControlOK
<1>2. Suspended(t, a)' <=> label \in SuspendedAt /\ l.ptr.addr = a
  BY <1>1 DEF Suspended, SuspendedAt
<1>3. \A u \in Threads \ {t} : Suspended(u, a)' <=> Suspended(u, a)
  BY <1>1 DEF Suspended
<1>4. /\ \A u \in Threads : Suspended(u, a)' => Home(a)' = ctx'[u].oldKey
      /\ (\A u \in Threads : ~Suspended(u, a)') => Home(a)' = keyTable'[a]
  <2>1. HomeValues'
    BY HomeValue, PTL
  <2>2. QED
    BY <2>1 DEF HomeValues
<1>5. QED
  BY <1>1, <1>2, <1>3, <1>4, HomeValue DEF HomeValues

\* ... and to the keys that threads have drawn and are using.
LEMMA ThreadsAfter ==
    ASSUME Inv, NEW t \in Threads, NEW label, NEW l, Goto(t, label, l) \/ Begin(t, label, l)
    PROVE  \A u \in Threads :
              /\ Drawn(u)' = IF u = t THEN DrawnAt(label, l) ELSE Drawn(u)
              /\ AccessKey(u)' = IF u = t THEN AccessAt(label, l) ELSE AccessKey(u)
<1>1. \A u \in Threads : /\ pc'[u] = IF u = t THEN label ELSE pc[u]
                         /\ ctx'[u] = IF u = t THEN l ELSE ctx[u]
  BY DEF Goto, Begin, Inv, TypeOK, ControlOK
<1>2. QED
  BY <1>1 DEF Drawn, DrawnAt, AccessKey, AccessAt

LEMMA Stutters ==
    ASSUME \A u \in Threads : Drawn(u)' = Drawn(u) /\ AccessKey(u)' = AccessKey(u),
           \A a \in Addr : Home(a)' = Home(a), UNCHANGED nextKey
    PROVE  UNCHANGED Keys!vars
<1>1. UNCHANGED [u \in Threads |-> Drawn(u)]
  OBVIOUS
<1>2. UNCHANGED [u \in Threads |-> AccessKey(u)]
  OBVIOUS
<1>3. UNCHANGED [a \in Addr |-> Home(a)]
  OBVIOUS
<1>4. QED
  BY <1>1, <1>2, <1>3 DEF Keys!vars

LEMMA Draws ==
    ASSUME NEW t \in Threads, Drawn(t) = NoKey, nextKey' = nextKey + 1,
           \A u \in Threads : /\ Drawn(u)' = IF u = t THEN nextKey ELSE Drawn(u)
                              /\ AccessKey(u)' = AccessKey(u),
           \A a \in Addr : Home(a)' = Home(a)
    PROVE  Keys!Draw(t)
<1>1. [u \in Threads |-> Drawn(u)]' = [[u \in Threads |-> Drawn(u)] EXCEPT ![t] = nextKey]
  OBVIOUS
<1>2. UNCHANGED [u \in Threads |-> AccessKey(u)]
  OBVIOUS
<1>3. UNCHANGED [a \in Addr |-> Home(a)]
  OBVIOUS
<1>4. QED
  BY <1>1, <1>2, <1>3 DEF Keys!Draw

LEMMA Activates ==
    ASSUME NEW t \in Threads, NEW a \in Addr, Drawn(t) # NoKey, Home(a) = NoKey,
           \A u \in Threads : /\ Drawn(u)' = IF u = t THEN NoKey ELSE Drawn(u)
                              /\ AccessKey(u)' = AccessKey(u),
           \A b \in Addr : Home(b)' = IF b = a THEN Drawn(t) ELSE Home(b), UNCHANGED nextKey
    PROVE  Keys!Activate(t, a)
<1>1. [u \in Threads |-> Drawn(u)]' = [[u \in Threads |-> Drawn(u)] EXCEPT ![t] = NoKey]
  OBVIOUS
<1>2. UNCHANGED [u \in Threads |-> AccessKey(u)]
  OBVIOUS
<1>3. [b \in Addr |-> Home(b)]' = [[b \in Addr |-> Home(b)] EXCEPT ![a] = Drawn(t)]
  OBVIOUS
<1>4. QED
  BY <1>1, <1>2, <1>3 DEF Keys!Activate

LEMMA Retires ==
    ASSUME NEW a \in Addr, Home(a) # NoKey, \A u \in Threads : AccessKey(u) # Home(a),
           \A u \in Threads : Drawn(u)' = Drawn(u) /\ AccessKey(u)' = AccessKey(u),
           \A b \in Addr : Home(b)' = IF b = a THEN NoKey ELSE Home(b), UNCHANGED nextKey
    PROVE  Keys!Retire(a)
<1>1. UNCHANGED [u \in Threads |-> Drawn(u)]
  OBVIOUS
<1>2. UNCHANGED [u \in Threads |-> AccessKey(u)]
  OBVIOUS
<1>3. [b \in Addr |-> Home(b)]' = [[b \in Addr |-> Home(b)] EXCEPT ![a] = NoKey]
  OBVIOUS
<1>4. QED
  BY <1>1, <1>2, <1>3 DEF Keys!Retire

LEMMA Enters ==
    ASSUME NEW t \in Threads, NEW a \in Addr, AccessKey(t) = NoKey, Home(a) # NoKey,
           \A u \in Threads : /\ Drawn(u)' = Drawn(u)
                              /\ AccessKey(u)' = IF u = t THEN Home(a) ELSE AccessKey(u),
           \A b \in Addr : Home(b)' = Home(b), UNCHANGED nextKey
    PROVE  Keys!Enter(t)
<1>1. UNCHANGED [u \in Threads |-> Drawn(u)]
  OBVIOUS
<1>2. [u \in Threads |-> AccessKey(u)]' = [[u \in Threads |-> AccessKey(u)] EXCEPT ![t] = Home(a)]
  OBVIOUS
<1>3. UNCHANGED [b \in Addr |-> Home(b)]
  OBVIOUS
<1>4. QED
  BY <1>1, <1>2, <1>3 DEF Keys!Enter

LEMMA Leaves ==
    ASSUME NEW t \in Threads, AccessKey(t) # NoKey,
           \A u \in Threads : /\ Drawn(u)' = Drawn(u)
                              /\ AccessKey(u)' = IF u = t THEN NoKey ELSE AccessKey(u),
           \A b \in Addr : Home(b)' = Home(b), UNCHANGED nextKey
    PROVE  Keys!Leave(t)
<1>1. UNCHANGED [u \in Threads |-> Drawn(u)]
  OBVIOUS
<1>2. [u \in Threads |-> AccessKey(u)]' = [[u \in Threads |-> AccessKey(u)] EXCEPT ![t] = NoKey]
  OBVIOUS
<1>3. UNCHANGED [b \in Addr |-> Home(b)]
  OBVIOUS
<1>4. QED
  BY <1>1, <1>2, <1>3 DEF Keys!Leave

-----------------------------------------------------------------------------
(* One group of steps at a time *)

Kept == Keys!Next \/ UNCHANGED Keys!vars

\* A step between labels at which a thread has drawn no key, suspended none and
\* uses none.
Plain == Labels \ ({"m_register", "r_register", "s_register", "access", "w_shadow"}
                      \cup SuspendedAt)

LEMMA PlainStep ==
    ASSUME Inv, Inv', NEW t \in Threads, NEW label \in Plain, NEW l,
           Goto(t, label, l) \/ Begin(t, label, l), pc[t] \in Plain,
           UNCHANGED <<nextKey, keyTable>>
    PROVE  Kept
<1>1. \A a \in Addr : Home(a)' = Home(a)
  BY HomeAfter DEF Plain, Suspended, SuspendedAt
<1>2. \A u \in Threads : Drawn(u)' = Drawn(u) /\ AccessKey(u)' = AccessKey(u)
  BY ThreadsAfter DEF Plain, Drawn, DrawnAt, AccessKey, AccessAt
<1>3. QED
  BY <1>1, <1>2, Stutters DEF Kept

LEMMA DrawStep ==
    ASSUME Inv, Inv', NEW t \in Threads, pc[t] \in {"m_key", "r_key", "s_key"},
           NEW label \in {"m_register", "r_register", "s_register"}, NEW l, Goto(t, label, l),
           l.key = nextKey, nextKey' = nextKey + 1, UNCHANGED keyTable
    PROVE  Kept
<1>1. \A a \in Addr : Home(a)' = Home(a)
  BY HomeAfter DEF Suspended, SuspendedAt
<1>2. \A u \in Threads : /\ Drawn(u)' = IF u = t THEN nextKey ELSE Drawn(u)
                         /\ AccessKey(u)' = AccessKey(u)
  BY ThreadsAfter DEF DrawnAt, AccessKey, AccessAt
<1>3. Keys!Draw(t)
  BY <1>1, <1>2, Draws DEF Drawn
<1>4. QED
  BY <1>3 DEF Kept, Keys!Next

LEMMA RegisterStep ==
    ASSUME Inv, Inv', NEW t \in Threads, pc[t] \in {"m_register", "r_register", "s_register"},
           NEW label \in Plain, NEW l, Goto(t, label, l), UNCHANGED nextKey,
           ctx[t].key # NoKey, ctx[t].addr \in Addr, keyTable[ctx[t].addr] = NoKey,
           keyTable' = [keyTable EXCEPT ![ctx[t].addr] = ctx[t].key]
    PROVE  Kept
<1>1. PICK a \in Addr : a = ctx[t].addr
  OBVIOUS
<1>2. /\ Drawn(t) = ctx[t].key /\ keyTable[a] = NoKey
      /\ \A b \in Addr : keyTable'[b] = IF b = a THEN ctx[t].key ELSE keyTable[b]
  BY <1>1 DEF Drawn, Inv, TypeOK, DataOK
<1>3. \A b \in Addr : ~Suspended(t, b)
  BY DEF Suspended
<1>4. \A u \in Threads : ~Suspended(u, a)
  <2> SUFFICES ASSUME NEW u \in Threads, Suspended(u, a) PROVE FALSE
    OBVIOUS
  <2>1. a \in HeapAddr /\ u # t /\ \A v \in Threads : Keeps(v, a) => v = u
    BY <1>3, SuspendedBlock
  <2>2. LocalsSet(pc[t], ctx[t])
    BY StepLocals
  <2>3. pc[t] # "s_register"
    BY <1>1, <2>1, <2>2, AddrAssumption DEF LocalsSet, Declaring
  <2>4. Keeps(t, a)
    BY <1>1, <2>3 DEF Keeps
  <2>5. QED
    BY <2>1, <2>4
<1>5. Home(a) = NoKey
  BY <1>2, <1>4, HomeValue DEF HomeValues
<1>6. \A b \in Addr : Home(b)' = IF b = a THEN Drawn(t) ELSE Home(b)
  BY <1>2, <1>3, <1>4, HomeAfter DEF Plain
<1>7. \A u \in Threads : /\ Drawn(u)' = IF u = t THEN NoKey ELSE Drawn(u)
                         /\ AccessKey(u)' = AccessKey(u)
  BY ThreadsAfter DEF Plain, DrawnAt, AccessKey, AccessAt
<1>8. Keys!Activate(t, a)
  BY <1>2, <1>5, <1>6, <1>7, Activates
<1>9. QED
  BY <1>8 DEF Kept, Keys!Next

\* The block of a release goes away, and no thread is using its key.
LEMMA RetireStep ==
    ASSUME Inv, Inv', NEW t \in Threads, pc[t] \in {"f_key", "r_sys"},
           NEW label \in Plain, NEW l, Goto(t, label, l), UNCHANGED nextKey,
           keyTable' = [keyTable EXCEPT ![ctx[t].ptr.addr] = NoKey]
    PROVE  Kept
<1>1. PICK a : a = ctx[t].ptr.addr
  OBVIOUS
<1>2. /\ LocalOK(t, pc[t], ctx[t]) /\ ctx[t].ptr \in ptrs /\ a \in HeapAddr /\ a \in Addr
  BY <1>1, StepLocals DEF LocalOK, Holding, Releasers, Deallocating, Reallocating, Addr
<1>3. \A b \in Addr : keyTable'[b] = IF b = a THEN NoKey ELSE keyTable[b]
  BY <1>1 DEF Inv, TypeOK, DataOK
<1>4. \A u \in Threads \ {t} : ~Suspended(u, a)
  <2> SUFFICES ASSUME NEW u \in Threads \ {t}, Suspended(u, a) PROVE FALSE
    OBVIOUS
  <2>1. keyTable[a] = NoKey /\ ~Keeps(t, a)
    BY SuspendedBlock
  <2>2. QED
    BY <1>1, <1>2, <2>1 DEF Keeps, LocalOK, NeedsKey, Inv, Discipline, PointersDistinct
<1>5. Home(a) = ctx[t].ptr.meta.key /\ Home(a) # NoKey
  <2>1. CASE pc[t] = "f_key"
    <3>1. \A u \in Threads : ~Suspended(u, a)
      BY <1>4, <2>1 DEF Suspended
    <3>2. QED
      BY <1>1, <1>2, <2>1, <3>1, HomeValue
         DEF HomeValues, LocalOK, NeedsKey, Inv, Discipline, PointersDistinct
  <2>2. CASE pc[t] = "r_sys"
    <3>1. Suspended(t, a)
      BY <1>1, <2>2 DEF Suspended
    <3>2. QED
      BY <1>2, <3>1, HomeValue, SuspendedBlock DEF HomeValues
  <2>3. QED
    BY <2>1, <2>2
<1>6. ASSUME NEW u \in Threads PROVE AccessKey(u) # Home(a)
  <2> SUFFICES ASSUME pc[u] \in {"access", "w_shadow"}, ctx[u].ptr.meta.key = ctx[t].ptr.meta.key
               PROVE  FALSE
    BY <1>5 DEF AccessKey
  <2>1. ctx[u].ptr \in ptrs
    BY StepLocals DEF LocalOK, Holding, Accessing
  <2>2. ctx[u].ptr = ctx[t].ptr
    BY <1>2, <2>1 DEF Inv, Discipline, PointersDistinct
  <2>3. QED
    BY <2>2 DEF Inv, Discipline, Exclusive, Holding, Releasers, Deallocating, Reallocating,
       Accessing
<1>7. \A b \in Addr : Home(b)' = IF b = a THEN NoKey ELSE Home(b)
  <2>1. \A b \in Addr : b # a => ~Suspended(t, b)
    BY <1>1 DEF Suspended
  <2>2. QED
    BY <1>2, <1>3, <1>4, <2>1, HomeAfter DEF Plain
<1>8. \A u \in Threads : Drawn(u)' = Drawn(u) /\ AccessKey(u)' = AccessKey(u)
  BY ThreadsAfter DEF Plain, Drawn, DrawnAt, AccessKey, AccessAt
<1>9. Keys!Retire(a)
  BY <1>2, <1>5, <1>6, <1>7, <1>8, Retires
<1>10. QED
  BY <1>2, <1>9 DEF Kept, Keys!Next

LEMMA MallocKept ==
    ASSUME Inv, Inv', NEW t \in Threads, Malloc(t)
    PROVE  Kept
<1>1. ctx[t] \in Context /\ LocalsSet(pc[t], ctx[t])
  BY StepLocals
<1>2. CASE SysAlloc(t)
  <2>1. PICK l : Goto(t, "m_key", l)
    BY <1>2 DEF SysAlloc
  <2>2. QED
    BY <1>2, <2>1, PlainStep DEF SysAlloc, Plain, Labels, Allocating, SuspendedAt, tables
<1>3. CASE OutOfMemory(t) \/ MallocShadow(t) \/ LoadResult(t)
  <2>1. PICK label, l : label \in {"idle", "m_ret"} /\ Goto(t, label, l)
    BY <1>3 DEF OutOfMemory, MallocShadow, LoadResult, Return
  <2>2. UNCHANGED <<nextKey, keyTable>> /\ pc[t] \in {"m_sys", "m_shadow", "m_ret"}
    BY <1>3 DEF OutOfMemory, MallocShadow, LoadResult, tables
  <2>3. QED
    BY <2>1, <2>2, PlainStep DEF Plain, Labels, Allocating, SuspendedAt
<1>4. CASE MallocDrawKey(t)
  <2>1. PICK l : l = [ctx[t] EXCEPT !.key = nextKey]
    OBVIOUS
  <2>2. /\ pc[t] = "m_key" /\ Goto(t, "m_register", l) /\ l.key = nextKey
        /\ nextKey' = nextKey + 1 /\ UNCHANGED keyTable
    BY <1>1, <1>4, <2>1 DEF MallocDrawKey, Context
  <2>3. QED
    BY <2>2, DrawStep
<1>5. CASE MallocRegister(t)
  <2>1. PICK l : l = ctx[t]
    OBVIOUS
  <2>2. /\ pc[t] = "m_register" /\ Goto(t, "m_shadow", l) /\ UNCHANGED nextKey
        /\ ctx[t].addr \in HeapAddr /\ ctx[t].key # NoKey
        /\ keyTable' = [keyTable EXCEPT ![ctx[t].addr] = ctx[t].key]
    BY <1>1, <1>5, <2>1 DEF MallocRegister, LocalsSet
  <2>3. keyTable[ctx[t].addr] = NoKey /\ ctx[t].addr \in Addr
    BY <2>2 DEF Keeps, Inv, OneKeeper, Addr
  <2>4. QED
    BY <2>2, <2>3, RegisterStep DEF Plain, Labels, Allocating, SuspendedAt
<1>6. QED
  BY <1>2, <1>3, <1>4, <1>5 DEF Malloc

LEMMA FreeBlockKept ==
    ASSUME Inv, Inv', NEW t \in Threads, FreeBlock(t)
    PROVE  Kept
<1>1. CASE FreeRevoke(t)
  <2>1. PICK label, l : label \in {"double_free", "f_shadow"} /\ Goto(t, label, l)
    BY <1>1 DEF FreeRevoke, Fail
  <2>2. QED
    BY <1>1, <2>1, RetireStep DEF FreeRevoke, Plain, Labels, Deallocating, Aborting, SuspendedAt
<1>2. CASE FreeShadow(t) \/ SysFree(t)
  <2>1. PICK label, l : label \in {"f_sys", "idle"} /\ Goto(t, label, l)
    BY <1>2 DEF FreeShadow, SysFree, Return
  <2>2. UNCHANGED <<nextKey, keyTable>> /\ pc[t] \in {"f_shadow", "f_sys"}
    BY <1>2 DEF FreeShadow, SysFree, tables
  <2>3. QED
    BY <2>1, <2>2, PlainStep DEF Plain, Labels, Deallocating, SuspendedAt
<1>3. QED
  BY <1>1, <1>2 DEF FreeBlock

LEMMA ReallocKept ==
    ASSUME Inv, Inv', NEW t \in Threads, Realloc(t)
    PROVE  Kept
<1>1. /\ ctx[t] \in Context /\ LocalsSet(pc[t], ctx[t]) /\ LocalOK(t, pc[t], ctx[t])
      /\ keyTable \in [Addr -> Nat]
  BY StepLocals DEF Inv, TypeOK, DataOK
<1>2. PICK a : a = ctx[t].ptr.addr
  OBVIOUS
<1>3. pc[t] \in Reallocating
  BY DEF Realloc, ReallocLookup, ReallocOldSize, ReallocRevoke, ReallocShadow, SysRealloc,
         SysReallocFails, SysReallocFault, ReallocDrawKey, ReallocRegister, ReallocRestore,
         Reallocating
<1>4. a \in HeapAddr /\ a \in Addr
  BY <1>1, <1>2, <1>3 DEF LocalOK, Releasers, Addr
<1>5. CASE ReallocLookup(t) \/ ReallocOldSize(t)
  <2>1. PICK label, l : label \in {"r_size", "r_revoke", "invalid_realloc"} /\ Goto(t, label, l)
    BY <1>5 DEF ReallocLookup, ReallocOldSize, Fail
  <2>2. UNCHANGED <<nextKey, keyTable>> /\ pc[t] \in {"r_lookup", "r_size"}
    BY <1>5 DEF ReallocLookup, ReallocOldSize, tables
  <2>3. QED
    BY <2>1, <2>2, PlainStep DEF Plain, Labels, Reallocating, Aborting, SuspendedAt
\* A key goes from KEY_TABLE into the locals of t, and back.
<1>6. ASSUME NEW label, NEW l, Goto(t, label, l), UNCHANGED nextKey,
             pc[t] \in SuspendedAt \cup {"r_revoke"}, label \in SuspendedAt \cup {"idle"},
             \A b \in Addr \ {a} : keyTable'[b] = keyTable[b],
             pc[t] = "r_revoke" => Home(a) = ctx[t].oldKey,
             label \in SuspendedAt => l = ctx[t],
             label = "idle" => pc[t] \in SuspendedAt /\ l = NoCtx /\ keyTable'[a] = ctx[t].oldKey
      PROVE  Kept
  <2>1. pc[t] \in SuspendedAt => Suspended(t, a)
    BY <1>2 DEF Suspended, SuspendedAt
  <2>2. \A b \in Addr \ {a} : ~Suspended(t, b)
    BY <1>2 DEF Suspended
  <2>3. Home(a) = ctx[t].oldKey
    BY <1>4, <1>6, <2>1, HomeValue DEF HomeValues
  <2>4. label = "idle" => \A u \in Threads \ {t} : ~Suspended(u, a)
    BY <1>6, <2>1, SuspendedBlock DEF Suspended, Keeps
  <2>5. Home(a)' = Home(a)
    BY <1>2, <1>4, <1>6, <2>3, <2>4, HomeAfter DEF SuspendedAt
  <2>6. \A b \in Addr \ {a} : Home(b)' = Home(b)
    BY <1>2, <1>6, <2>2, HomeAfter DEF SuspendedAt
  <2>7. \A u \in Threads : Drawn(u)' = Drawn(u) /\ AccessKey(u)' = AccessKey(u)
    BY <1>6, ThreadsAfter DEF SuspendedAt, Drawn, DrawnAt, AccessKey, AccessAt
  <2>8. \A b \in Addr : Home(b)' = Home(b)
    BY <2>5, <2>6
  <2>9. QED
    BY <1>6, <2>7, <2>8, Stutters DEF Kept
<1>7. CASE ReallocRevoke(t)
  <2>1. PICK l : l = ctx[t]
    OBVIOUS
  <2>2. /\ pc[t] = "r_revoke" /\ Goto(t, "r_shadow", l) /\ UNCHANGED nextKey
        /\ \A b \in Addr \ {a} : keyTable'[b] = keyTable[b]
    BY <1>1, <1>2, <1>7, <2>1 DEF ReallocRevoke
  <2>3. keyTable[a] = ctx[t].oldKey /\ keyTable[a] # NoKey
    BY <1>1, <1>2, <2>2 DEF LocalOK, NeedsKey, Holding, Releasers, Reallocating, Inv, Discipline,
       PointersDistinct
  <2>4. \A u \in Threads : ~Suspended(u, a)
    BY <2>3, SuspendedBlock
  <2>5. Home(a) = ctx[t].oldKey
    BY <1>4, <2>3, <2>4, HomeValue DEF HomeValues
  <2>6. QED
    BY <1>6, <2>1, <2>2, <2>5 DEF SuspendedAt
<1>8. CASE ReallocShadow(t) \/ SysReallocFails(t)
  <2>1. PICK l : l = ctx[t]
    OBVIOUS
  <2>2. PICK label \in {"r_sys", "r_restore"} : Goto(t, label, l)
    BY <1>8, <2>1 DEF ReallocShadow, SysReallocFails
  <2>3. pc[t] \in {"r_shadow", "r_sys"} /\ UNCHANGED <<nextKey, keyTable>>
    BY <1>8 DEF ReallocShadow, SysReallocFails, tables
  <2>4. QED
    BY <1>6, <2>1, <2>2, <2>3 DEF SuspendedAt
<1>9. CASE SysRealloc(t)
  <2>1. PICK l : Goto(t, "r_key", l)
    BY <1>9 DEF SysRealloc
  <2>2. pc[t] = "r_sys" /\ UNCHANGED <<nextKey, keyTable>>
    BY <1>9 DEF SysRealloc, tables
  <2>3. keyTable[a] = NoKey
    BY <1>2, <2>2, <1>4 DEF Inv, OneKeeper, Keeps
  <2>4. keyTable' = [keyTable EXCEPT ![ctx[t].ptr.addr] = NoKey]
    BY <1>1, <1>2, <2>2, <2>3
  <2>5. QED
    BY <2>1, <2>2, <2>4, RetireStep DEF Plain, Labels, Reallocating, SuspendedAt
<1>10. ~SysReallocFault(t)
  BY <1>2, <1>4 DEF SysReallocFault, Inv, OneKeeper, Keeps, Allocated
<1>11. CASE ReallocDrawKey(t)
  <2>1. PICK l : l = [ctx[t] EXCEPT !.key = nextKey]
    OBVIOUS
  <2>2. /\ pc[t] = "r_key" /\ Goto(t, "r_register", l) /\ l.key = nextKey
        /\ nextKey' = nextKey + 1 /\ UNCHANGED keyTable
    BY <1>1, <1>11, <2>1 DEF ReallocDrawKey, Context
  <2>3. QED
    BY <2>2, DrawStep
<1>12. CASE ReallocRegister(t)
  <2>1. PICK l : l = ctx[t]
    OBVIOUS
  <2>2. /\ pc[t] = "r_register" /\ Goto(t, "m_ret", l) /\ UNCHANGED nextKey
        /\ ctx[t].addr \in HeapAddr /\ ctx[t].key # NoKey
        /\ keyTable' = [keyTable EXCEPT ![ctx[t].addr] = ctx[t].key]
    BY <1>1, <1>12, <2>1 DEF ReallocRegister, LocalsSet
  <2>3. keyTable[ctx[t].addr] = NoKey /\ ctx[t].addr \in Addr
    BY <2>2 DEF Keeps, Inv, OneKeeper, Addr
  <2>4. QED
    BY <2>2, <2>3, RegisterStep DEF Plain, Labels, Allocating, SuspendedAt
<1>13. CASE ReallocRestore(t)
  <2>1. /\ pc[t] = "r_restore" /\ Goto(t, "idle", NoCtx) /\ UNCHANGED nextKey
        /\ \A b \in Addr : keyTable'[b] = IF b = a THEN ctx[t].oldKey ELSE keyTable[b]
    BY <1>1, <1>2, <1>13 DEF ReallocRestore, Return
  <2>2. QED
    BY <1>4, <1>6, <2>1 DEF SuspendedAt
<1>14. QED
  BY <1>5, <1>7, <1>8, <1>9, <1>10, <1>11, <1>12, <1>13 DEF Realloc

LEMMA CheckedAccessKept ==
    ASSUME Inv, Inv', NEW t \in Threads, CheckedAccess(t)
    PROVE  Kept
<1>1. PICK label, l : label \in {"access", "use_after_free", "w_shadow", "idle"} /\
         /\ Goto(t, label, l)
         /\ label \in {"access", "w_shadow"} => l = ctx[t]
         /\ label = "access" => CheckKey(t)
         /\ label = "use_after_free" => CheckKey(t)
         /\ label = "w_shadow" => pc[t] = "access"
         /\ label = "idle" => pc[t] \in {"access", "w_shadow"}
  BY DEF CheckedAccess, CheckKey, Access, StoreShadow, Fail, Return
<1>2. UNCHANGED <<nextKey, keyTable>> /\ pc[t] \in Accessing
  BY DEF CheckedAccess, CheckKey, Access, StoreShadow, tables, Accessing
<1>3. \A b \in Addr : Home(b)' = Home(b)
  BY <1>1, <1>2, HomeAfter DEF Suspended, SuspendedAt, Accessing
<1>4. /\ ctx[t].ptr \in ptrs /\ ctx[t].ptr \in Pointer /\ ctx[t].ptr.meta.key # NoKey
      /\ ctx[t].ptr.meta.base = ctx[t].ptr.addr
  BY <1>2, StepLocals DEF LocalOK, LocalsSet, Holding, Inv, Discipline, PointersDistinct
<1>5. CASE label = "access"
  <2>1. PICK a \in Addr : a = ctx[t].ptr.addr
    BY <1>4 DEF Pointer
  <2>2. pc[t] = "c_key" /\ keyTable[a] = ctx[t].ptr.meta.key
    BY <1>1, <1>4, <1>5, <2>1 DEF CheckKey, Goto, Fail, Inv, TypeOK, ControlOK
  <2>3. \A u \in Threads : ~Suspended(u, a)
    BY <1>4, <2>2, SuspendedBlock
  <2>4. Home(a) = ctx[t].ptr.meta.key
    BY <2>2, <2>3, HomeValue DEF HomeValues
  <2>5. \A u \in Threads : /\ Drawn(u)' = Drawn(u)
                           /\ AccessKey(u)' = IF u = t THEN Home(a) ELSE AccessKey(u)
    BY <1>1, <1>5, <2>2, <2>4, ThreadsAfter DEF Drawn, DrawnAt, AccessAt
  <2>6. Keys!Enter(t)
    BY <1>2, <1>3, <1>4, <2>2, <2>4, <2>5, Enters DEF AccessKey
  <2>7. QED
    BY <2>6 DEF Kept, Keys!Next
<1>6. CASE label = "idle"
  <2>1. \A u \in Threads : /\ Drawn(u)' = Drawn(u)
                           /\ AccessKey(u)' = IF u = t THEN NoKey ELSE AccessKey(u)
    BY <1>1, <1>6, ThreadsAfter DEF Drawn, DrawnAt, AccessAt
  <2>2. Keys!Leave(t)
    BY <1>1, <1>2, <1>3, <1>4, <1>6, <2>1, Leaves DEF AccessKey
  <2>3. QED
    BY <2>2 DEF Kept, Keys!Next
<1>7. CASE label \in {"use_after_free", "w_shadow"}
  <2>1. label = "use_after_free" => pc[t] = "c_key"
    BY <1>1 DEF CheckKey
  <2>2. \A u \in Threads : Drawn(u)' = Drawn(u) /\ AccessKey(u)' = AccessKey(u)
    BY <1>1, <1>7, <2>1, ThreadsAfter DEF Drawn, DrawnAt, AccessKey, AccessAt
  <2>3. QED
    BY <1>2, <1>3, <2>2, Stutters DEF Kept
<1>8. QED
  BY <1>1, <1>5, <1>6, <1>7

LEMMA DeclarationKept ==
    ASSUME Inv, Inv', NEW t \in Threads, Declaration(t)
    PROVE  Kept
<1>1. ctx[t] \in Context /\ LocalsSet(pc[t], ctx[t]) /\ LocalOK(t, pc[t], ctx[t])
  BY StepLocals
<1>2. CASE GetNextKey(t)
  <2>1. PICK l : l = [ctx[t] EXCEPT !.key = nextKey]
    OBVIOUS
  <2>2. /\ pc[t] = "s_key" /\ Goto(t, "s_register", l) /\ l.key = nextKey
        /\ nextKey' = nextKey + 1 /\ UNCHANGED keyTable
    BY <1>1, <1>2, <2>1 DEF GetNextKey, Context
  <2>3. QED
    BY <2>2, DrawStep
<1>3. CASE RegisterStackKey(t)
  <2>1. /\ pc[t] = "s_register" /\ Goto(t, "idle", NoCtx) /\ UNCHANGED nextKey
        /\ ctx[t].addr \in Addr /\ ctx[t].key # NoKey /\ keyTable[ctx[t].addr] = NoKey
        /\ keyTable' = [keyTable EXCEPT ![ctx[t].addr] = ctx[t].key]
    BY <1>1, <1>3 DEF RegisterStackKey, Return, LocalsSet, LocalOK, Declaring, Addr
  <2>2. QED
    BY <2>1, RegisterStep DEF Plain, Labels, SuspendedAt
<1>4. QED
  BY <1>2, <1>3 DEF Declaration

LEMMA CallKept ==
    ASSUME Disciplined, Inv, Inv', NEW t \in Threads, Call(t)
    PROVE  Kept
<1>1. CASE \E label \in FirstLabels : \E l : Begin(t, label, l)
  <2>1. PICK label, l : label \in FirstLabels /\ Begin(t, label, l)
    BY <1>1
  <2>2. pc[t] = "idle" /\ UNCHANGED <<nextKey, keyTable>>
    BY <2>1 DEF Begin, tables
  <2>3. QED
    BY <2>1, <2>2, PlainStep DEF FirstLabels, Plain, Labels, Allocating, Deallocating,
       Reallocating, Accessing, Declaring, Aborting, SuspendedAt
<1>2. CASE DeregisterStackKey(t)
  <2>1. PICK x \in StackAddr : /\ MayLeaveScope(t, x)
                               /\ keyTable' = [keyTable EXCEPT ![x] = NoKey]
    BY <1>2 DEF DeregisterStackKey
  <2>2. /\ pc[t] = "idle" /\ UNCHANGED <<nextKey, pc, ctx>> /\ x \in Addr
        /\ \A b \in Addr : keyTable'[b] = IF b = x THEN NoKey ELSE keyTable[b]
    BY <1>2, <2>1 DEF DeregisterStackKey, Addr, Inv, TypeOK, DataOK
  <2>3. \A u \in Threads : Drawn(u)' = Drawn(u) /\ AccessKey(u)' = AccessKey(u)
    BY <2>2 DEF Drawn, AccessKey
  <2>4. \A u \in Threads, b \in Addr : Suspended(u, b)' <=> Suspended(u, b)
    BY <2>2 DEF Suspended
  <2>5. HomeValues'
    BY HomeValue, PTL
  <2>6. \A u \in Threads : ~Suspended(u, x)
    BY SuspendedBlock, AddrAssumption
  <2>7. Home(x) = keyTable[x]
    BY <2>2, <2>6, HomeValue DEF HomeValues
  <2>8. \A b \in Addr : Home(b)' = IF b = x THEN NoKey ELSE Home(b)
    BY <2>2, <2>4, <2>5, <2>6, HomeValue DEF HomeValues
  <2>9. CASE keyTable[x] = NoKey
    BY <2>2, <2>3, <2>7, <2>8, <2>9, Stutters DEF Kept
  <2>10. CASE keyTable[x] # NoKey
    <3>1. \A u \in Threads : AccessKey(u) # Home(x)
      BY <2>1, <2>2, <2>7, <2>10 DEF AccessKey, MayLeaveScope, Using, Accessing
    <3>2. Keys!Retire(x)
      BY <2>2, <2>3, <2>7, <2>8, <2>10, <3>1, Retires
    <3>3. QED
      BY <2>2, <3>2 DEF Kept, Keys!Next
  <2>11. QED
    BY <2>9, <2>10
<1>3. QED
  BY <1>1, <1>2, CallBegins

-----------------------------------------------------------------------------

LEMMA KeysInitially == Init => Keys!Init
<1> SUFFICES ASSUME Init PROVE Keys!Init
  OBVIOUS
<1>1. [t \in Threads |-> Drawn(t)] = [t \in Threads |-> NoKey]
  BY DEF Init, Drawn
<1>2. [t \in Threads |-> AccessKey(t)] = [t \in Threads |-> NoKey]
  BY DEF Init, AccessKey
<1>3. [a \in Addr |-> Home(a)] = [a \in Addr |-> NoKey]
  BY DEF Init, Home, Suspended
<1>4. QED
  BY <1>1, <1>2, <1>3 DEF Keys!Init, Init

LEMMA KeysKept ==
    ASSUME Disciplined, Inv, Inv', [Next]_vars
    PROVE  [Keys!Next]_(Keys!vars)
<1> SUFFICES Kept
  BY DEF Kept
<1>1. ASSUME UNCHANGED <<tables, pc, ctx>> PROVE Kept
  <2>1. \A t \in Threads : Drawn(t)' = Drawn(t) /\ AccessKey(t)' = AccessKey(t)
    BY <1>1 DEF Drawn, AccessKey
  <2>2. \A t \in Threads, a \in Addr : Suspended(t, a)' <=> Suspended(t, a)
    BY <1>1 DEF Suspended
  <2>3. HomeValues'
    BY HomeValue, PTL
  <2>4. \A a \in Addr : Home(a)' = Home(a)
    BY <1>1, <2>2, <2>3, HomeValue DEF HomeValues, tables
  <2>5. QED
    BY <1>1, <2>1, <2>4, Stutters DEF Kept, tables
<1>2. ASSUME NEW t \in Threads, Step(t) PROVE Kept
  <2>1. CASE Call(t)
    BY <2>1, CallKept
  <2>2. CASE Malloc(t) \/ FreeBlock(t) \/ Realloc(t)
    BY <2>2, MallocKept, FreeBlockKept, ReallocKept
  <2>3. CASE CheckedAccess(t) \/ Declaration(t)
    BY <2>3, CheckedAccessKept, DeclarationKept
  <2>4. CASE Abort(t)
    BY <1>1, <2>4 DEF Abort
  <2>5. QED
    BY <1>2, <2>1, <2>2, <2>3, <2>4 DEF Step, Continue
<1>3. CASE UNCHANGED vars
  BY <1>1, <1>3 DEF vars
<1>4. QED
  BY <1>2, <1>3 DEF Next, Terminated

\* The two tables and the three mutexes, taken one by one, implement keys that
\* are drawn, given to an object, used and retired in one step each.
THEOREM ImplementsKeys ==
    ASSUME Disciplined
    PROVE  Spec => ImplementsTemporalKeys
<1>1. Inv /\ Inv' /\ [Next]_vars => [Keys!Next]_(Keys!vars)
  BY KeysKept
<1>2. QED
  BY <1>1, KeysInitially, DisciplineInvariant, PTL DEF Spec, ImplementsTemporalKeys, Keys!Spec

\* What the steps of TemporalKeys leave of a retired key.
LEMMA KeysStayRetired ==
    ASSUME nextKey \in Nat, [Keys!Next]_(Keys!vars), NEW k \in 1 .. nextKey - 1, Keys!Retired(k)
    PROVE  Keys!Retired(k)'
<1>1. k \in Nat /\ k < nextKey
  OBVIOUS
<1>2. /\ \A t \in Threads : Drawn(t) # k /\ AccessKey(t) # k
      /\ \A a \in Addr : Home(a) # k
  BY DEF Keys!Retired
<1>3. ASSUME /\ nextKey' \in {nextKey, nextKey + 1}
             /\ \A t \in Threads : Drawn(t)' \in {Drawn(t), nextKey, NoKey}
             /\ \A t \in Threads : AccessKey(t)' \in {AccessKey(t), NoKey}
                                     \cup {Home(a) : a \in Addr}
             /\ \A a \in Addr : Home(a)' \in {Home(a), NoKey} \cup {Drawn(t) : t \in Threads}
      PROVE  Keys!Retired(k)'
  BY <1>1, <1>2, <1>3 DEF Keys!Retired, NoKey
<1>4. CASE UNCHANGED Keys!vars
  <2>1. /\ nextKey' = nextKey
        /\ [t \in Threads |-> Drawn(t)'] = [t \in Threads |-> Drawn(t)]
        /\ [a \in Addr |-> Home(a)'] = [a \in Addr |-> Home(a)]
        /\ [t \in Threads |-> AccessKey(t)'] = [t \in Threads |-> AccessKey(t)]
    BY <1>4 DEF Keys!vars
  <2>2. /\ \A t \in Threads : Drawn(t)' = Drawn(t) /\ AccessKey(t)' = AccessKey(t)
        /\ \A a \in Addr : Home(a)' = Home(a)
    BY <2>1
  <2>3. QED
    BY <1>3, <2>1, <2>2
<1>5. ASSUME NEW t \in Threads, Keys!Draw(t)
      PROVE  Keys!Retired(k)'
  <2>1. /\ nextKey' = nextKey + 1
        /\ [u \in Threads |-> Drawn(u)'] = [[u \in Threads |-> Drawn(u)] EXCEPT ![t] = nextKey]
        /\ [a \in Addr |-> Home(a)'] = [a \in Addr |-> Home(a)]
        /\ [u \in Threads |-> AccessKey(u)'] = [u \in Threads |-> AccessKey(u)]
    BY <1>5 DEF Keys!Draw
  <2>2. /\ \A u \in Threads : Drawn(u)' \in {Drawn(u), nextKey} /\ AccessKey(u)' = AccessKey(u)
        /\ \A a \in Addr : Home(a)' = Home(a)
    BY <2>1
  <2>3. QED
    BY <1>3, <2>1, <2>2
<1>6. ASSUME NEW t \in Threads, Keys!Enter(t) \/ Keys!Leave(t)
      PROVE  Keys!Retired(k)'
  <2>1. PICK v \in {Home(a) : a \in Addr} \cup {NoKey} :
          [u \in Threads |-> AccessKey(u)']
            = [[u \in Threads |-> AccessKey(u)] EXCEPT ![t] = v]
    BY <1>6 DEF Keys!Enter, Keys!Leave
  <2>2. /\ nextKey' = nextKey
        /\ [u \in Threads |-> Drawn(u)'] = [u \in Threads |-> Drawn(u)]
        /\ [a \in Addr |-> Home(a)'] = [a \in Addr |-> Home(a)]
    BY <1>6 DEF Keys!Enter, Keys!Leave
  <2>3. /\ \A u \in Threads : Drawn(u)' = Drawn(u) /\ AccessKey(u)' \in {AccessKey(u), v}
        /\ \A a \in Addr : Home(a)' = Home(a)
    BY <2>1, <2>2
  <2>4. QED
    BY <1>3, <2>2, <2>3
<1>7. ASSUME NEW t \in Threads, NEW a \in Addr, Keys!Activate(t, a)
      PROVE  Keys!Retired(k)'
  <2>1. /\ nextKey' = nextKey
        /\ [u \in Threads |-> Drawn(u)'] = [[u \in Threads |-> Drawn(u)] EXCEPT ![t] = NoKey]
        /\ [b \in Addr |-> Home(b)'] = [[b \in Addr |-> Home(b)] EXCEPT ![a] = Drawn(t)]
        /\ [u \in Threads |-> AccessKey(u)'] = [u \in Threads |-> AccessKey(u)]
    BY <1>7 DEF Keys!Activate
  <2>2. /\ \A u \in Threads : Drawn(u)' \in {Drawn(u), NoKey} /\ AccessKey(u)' = AccessKey(u)
        /\ \A b \in Addr : Home(b)' \in {Home(b), Drawn(t)}
    BY <2>1
  <2>3. QED
    BY <1>3, <2>1, <2>2
<1>8. ASSUME NEW a \in Addr, Keys!Retire(a)
      PROVE  Keys!Retired(k)'
  <2>1. /\ nextKey' = nextKey
        /\ [u \in Threads |-> Drawn(u)'] = [u \in Threads |-> Drawn(u)]
        /\ [b \in Addr |-> Home(b)'] = [[b \in Addr |-> Home(b)] EXCEPT ![a] = NoKey]
        /\ [u \in Threads |-> AccessKey(u)'] = [u \in Threads |-> AccessKey(u)]
    BY <1>8 DEF Keys!Retire
  <2>2. /\ \A u \in Threads : Drawn(u)' = Drawn(u) /\ AccessKey(u)' = AccessKey(u)
        /\ \A b \in Addr : Home(b)' \in {Home(b), NoKey}
    BY <2>1
  <2>3. QED
    BY <1>3, <2>1, <2>2
<1>9. QED
  BY <1>4, <1>5, <1>6, <1>7, <1>8 DEF Keys!Next

\* A key that has left KEY_TABLE and every call, by a free, a realloc or the end of a scope,
\* is never drawn again, never given to a block or variable, and never passes a check.
THEOREM KeysNeverReturn ==
    ASSUME Disciplined
    PROVE  Spec => KeysRetiredForGood
<1>1. Inv /\ Inv' /\ [Next]_vars
        => [\A k \in 1 .. nextKey - 1 : Keys!Retired(k) => Keys!Retired(k)']_(Keys!vars)
  <2>1. Inv => nextKey \in Nat
    BY DEF Inv, TypeOK, DataOK
  <2>2. QED
    BY <2>1, KeysKept, KeysStayRetired
<1>2. QED
  BY <1>1, DisciplineInvariant, PTL DEF Spec, KeysRetiredForGood, Keys!RetiredForGood
=============================================================================
