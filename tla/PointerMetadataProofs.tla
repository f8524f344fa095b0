------------------------ MODULE PointerMetadataProofs ------------------------
(***************************************************************************)
(* What holds of PointerMetadata for any word size, variables, blocks and  *)
(* number of statements, of programs without p = *p and p = p->m.          *)
(***************************************************************************)
EXTENDS PointerMetadata, TLAPS

USE WordAssumption, LayoutAssumption

-----------------------------------------------------------------------------
(* Words and metadata *)

\* A sum of two words is a word, whether or not it wraps.
LEMMA PlusType ==
    ASSUME NEW a \in Word, NEW b \in Word
    PROVE  Plus(a, b) \in Word
BY DEF Plus, Word

\* Where nothing wraps, a sum is the sum.
LEMMA PlusExact ==
    ASSUME NEW a \in Nat, NEW b \in Nat, a + b < WordLimit
    PROVE  Plus(a, b) = a + b
BY DEF Plus

\* The assumption on addresses, taken apart.
LEMMA Layout ==
    /\ Local \in Word /\ Constant \in Word /\ Literal \in Word
    /\ Local + 2 < WordLimit /\ Constant + 2 < WordLimit /\ Literal + 2 < WordLimit
    /\ Bases \subseteq Word /\ Cells \subseteq Word /\ Offsets \subseteq Word
    /\ 0 \in Word /\ 1 \in Word /\ WordLimit - 1 \in Word
<1>1. {Local, Constant, Literal} \subseteq Word
  OBVIOUS
<1>2. Bases \cup Cells \cup Offsets \subseteq Word
  OBVIOUS
<1>3. \A a \in {Local, Constant, Literal} : a + 2 < WordLimit
  OBVIOUS
<1>4. 0 \in Word /\ 1 \in Word /\ WordLimit - 1 \in Word
  BY DEF Word
<1>5. QED
  BY <1>1, <1>2, <1>3, <1>4

LEMMA ConstantMetadata ==
    /\ Null \in Word
    /\ {Wildcard, NullMeta, Absent, LocalObject, ConstantObject, LiteralObject} \subseteq Metadata
<1>1. 2 \in Word
  BY Layout DEF Word
<1>2. QED
  BY <1>1, Layout DEF Null, SizeMax, NoKey, Meta, Metadata, Wildcard, NullMeta, Absent,
                      LocalObject, ConstantObject, LiteralObject

LEMMA MetaFields ==
    ASSUME NEW m \in Metadata
    PROVE  m.base \in Nat /\ m.size \in Nat /\ m.key \in Nat /\ m.const \in BOOLEAN
BY DEF Metadata, Word

LEMMA BlockMetadata ==
    ASSUME NEW b \in Bases, NEW n \in 1 .. MaxBlock, NEW k \in Nat
    PROVE  /\ b \in Word /\ b \in Cells
           /\ Meta(b, n, k, FALSE) \in Metadata
BY DEF Meta, Metadata, Word, Cells

-----------------------------------------------------------------------------
(* Expressions *)

\* An expression of any form: which variable and which offset it names.
LEMMA ExpressionForms ==
    ASSUME NEW e \in Expressions
    PROVE  /\ e.form \in {"null", "local", "constant", "string", "variable", "other", "plus"}
           /\ e.form \in {"variable", "other", "plus"} => e.of \in Vars
           /\ e.form = "plus" => e.by \in Offsets
BY DEF Expressions

LEMMA ExpressionTypes ==
    ASSUME TypeOK, NEW e \in Expressions
    PROVE  Value(e) \in Word /\ MetadataOf(e) \in Metadata /\ Object(e) \in Metadata
<1>1. /\ e.form \in {"null", "local", "constant", "string", "variable", "other", "plus"}
      /\ e.form \in {"variable", "other", "plus"} => e.of \in Vars
      /\ e.form = "plus" => e.by \in Offsets
  BY ExpressionForms
<1>2. CASE e.form \in {"null", "local", "constant", "string"}
  BY <1>2, ConstantMetadata DEF Value, MetadataOf, Object, Named
<1>3. CASE e.form \in {"variable", "other"}
  BY <1>1, <1>3, ConstantMetadata DEF Value, MetadataOf, Object, TypeOK
<1>4. CASE e.form = "plus"
  <2>1. value[e.of] \in Word /\ e.by \in Word
    BY <1>1, <1>4 DEF TypeOK
  <2>2. QED
    BY <1>1, <1>4, <2>1, PlusType DEF Value, MetadataOf, Object, TypeOK
<1>5. QED
  BY <1>1, <1>2, <1>3, <1>4

LEMMA LoadType ==
    ASSUME TypeOK, NEW a
    PROVE  shadow_load(a) \in Metadata
BY ConstantMetadata DEF TypeOK, shadow_load

-----------------------------------------------------------------------------
(* Type correctness *)

LEMMA SetLocalType ==
    ASSUME TypeOK, NEW p \in Vars, NEW val \in Word, NEW m \in Metadata, NEW o \in Metadata,
           SetLocal(p, val, m, o)
    PROVE  value' \in [Vars -> Word] /\ meta' \in [Vars -> Metadata] /\ object' \in [Vars -> Metadata]
BY DEF SetLocal, TypeOK

LEMMA SetCellType ==
    ASSUME TypeOK, NEW c \in Cells, NEW val \in Word, NEW m \in Metadata, NEW o \in Metadata,
           SetCell(c, val, m, o)
    PROVE  /\ mem' \in [Cells -> Word]
           /\ shadow' \in [Cells -> Metadata]
           /\ cellObject' \in [Cells -> Metadata]
BY DEF SetCell, TypeOK

LEMMA OutcomeType ==
    ASSUME TypeOK, NEW v, NEW isWrite, Passes(v, isWrite) \/ Aborts(v, isWrite)
    PROVE  outcome' \in {"none", "done", "missed", "wrapped", "false alarm", "reported"}
BY DEF Passes, Aborts

LEMMA AbortType ==
    ASSUME TypeOK, NEW v, NEW isWrite, Aborts(v, isWrite), stmts' \in Nat
    PROVE  TypeOK'
BY OutcomeType DEF Aborts, TypeOK, locals, memory, tables

LEMMA InitType == Init => TypeOK
<1> SUFFICES ASSUME Init PROVE TypeOK
  OBVIOUS
<1>1. keyTable \in [Word -> Nat]
  BY DEF Init, LocalObject, ConstantObject, Meta, NoKey
<1>2. QED
  BY <1>1, ConstantMetadata DEF Init, TypeOK

\* One case per statement.
LEMMA NextType == TypeOK /\ [Next]_vars => TypeOK'
<1> SUFFICES ASSUME TypeOK, [Next]_vars PROVE TypeOK'
  OBVIOUS
<1>1. CASE UNCHANGED vars
  BY <1>1 DEF TypeOK, vars, locals, memory, tables
<1>2. CASE Next
  <2>0. stmts' \in Nat
    <3>1. stmts \in Nat
      BY DEF TypeOK
    <3>2. stmts' = stmts + 1
      BY <1>2 DEF Next
    <3>3. QED
      BY <3>1, <3>2
  <2>1. ASSUME NEW p \in Vars, NEW e \in Expressions, Assign(p, e) PROVE TypeOK'
    BY <2>0, <2>1, ExpressionTypes, SetLocalType DEF Assign, TypeOK, memory, tables
  <2>2. ASSUME NEW q \in Vars, NEW e \in Expressions, Store(q, e) PROVE TypeOK'
    <3>1. CASE Aborts(q, TRUE)
      BY <2>0, <3>1, AbortType
    <3>2. CASE value[q] \in Cells /\ Passes(q, TRUE) /\ UNCHANGED <<locals, tables>>
               /\ SetCell(value[q], Value(e), MetadataOf(e), Object(e))
      BY <2>0, <3>2, ExpressionTypes, SetCellType, OutcomeType DEF TypeOK, locals, tables
    <3>3. QED
      BY <2>2, <3>1, <3>2 DEF Store
  <2>3. ASSUME NEW p \in Vars, NEW k \in Offsets, IncDec(p, k) PROVE TypeOK'
    <3>1. Plus(value[p], k) \in Word
      BY Layout, PlusType DEF TypeOK
    <3>2. meta[p] \in Metadata /\ object[p] \in Metadata
      BY DEF TypeOK
    <3>3. QED
      BY <2>0, <2>3, <3>1, <3>2, SetLocalType DEF IncDec, TypeOK, memory, tables
  <2>4. ASSUME NEW q \in Vars, NEW k \in Offsets, IncDecCell(q, k) PROVE TypeOK'
    <3>1. value[q] \in Cells
      BY <2>4 DEF IncDecCell
    <3>2. Plus(mem[value[q]], k) \in Word
      BY <3>1, Layout, PlusType DEF TypeOK
    <3>3. shadow_load(value[q]) \in Metadata /\ cellObject[value[q]] \in Metadata
      BY <3>1, LoadType DEF TypeOK
    <3>4. QED
      BY <2>0, <2>4, <3>1, <3>2, <3>3, SetCellType DEF IncDecCell, TypeOK, locals, tables
  <2>5. ASSUME NEW p \in Vars, NEW b \in Bases, NEW n \in 1 .. MaxBlock, Malloc(p, b, n) PROVE TypeOK'
    <3> DEFINE block == Meta(b, n, nextKey, FALSE)
    <3>1. block \in Metadata /\ b \in Word /\ b \in Cells
      BY BlockMetadata DEF TypeOK
    <3>2. /\ keyTable' = [keyTable EXCEPT ![b] = nextKey]
          /\ shadow' = [shadow EXCEPT ![b] = block]
          /\ SetLocal(p, b, block, block)
          /\ nextKey' = nextKey + 1
          /\ UNCHANGED outcome
          /\ mem' = [c \in Cells |-> IF c \in b .. b + n - 1 THEN Null ELSE mem[c]]
          /\ cellObject' = [c \in Cells |-> IF c \in b .. b + n - 1 THEN NullMeta ELSE cellObject[c]]
      BY <2>5 DEF Malloc
    <3> HIDE DEF block
    <3>3. value' \in [Vars -> Word] /\ meta' \in [Vars -> Metadata] /\ object' \in [Vars -> Metadata]
      BY <3>1, <3>2, SetLocalType
    <3>4. mem' \in [Cells -> Word] /\ cellObject' \in [Cells -> Metadata] /\ shadow' \in [Cells -> Metadata]
      BY <3>1, <3>2, ConstantMetadata DEF TypeOK
    <3>5. keyTable' \in [Word -> Nat] /\ nextKey' \in Nat /\ outcome' = outcome
      <4>1. nextKey \in Nat /\ keyTable \in [Word -> Nat]
        BY DEF TypeOK
      <4>2. QED
        BY <3>1, <3>2, <4>1
    <3>6. QED
      BY <2>0, <3>3, <3>4, <3>5 DEF TypeOK
  <2>6. ASSUME NEW p \in Vars, MallocFails(p) PROVE TypeOK'
    BY <2>0, <2>6, ConstantMetadata, LoadType, SetLocalType DEF MallocFails, TypeOK, memory, tables
  <2>7. ASSUME NEW p \in Vars, Free(p) PROVE TypeOK'
    BY <2>0, <2>7, ConstantMetadata, Layout DEF Free, TypeOK, locals, NoKey
  <2>8. ASSUME NEW q \in Vars, NEW isWrite \in BOOLEAN, Deref(q, isWrite) PROVE TypeOK'
    <3>1. CASE Aborts(q, isWrite)
      BY <2>0, <3>1, AbortType
    <3>2. CASE Passes(q, isWrite) /\ UNCHANGED <<locals, tables>> /\ isWrite /\ value[q] \in Cells
               /\ SetCell(value[q], Null, shadow[value[q]], NullMeta)
      <4>1. shadow[value[q]] \in Metadata
        BY <3>2 DEF TypeOK
      <4>2. QED
        BY <2>0, <3>2, <4>1, ConstantMetadata, SetCellType, OutcomeType DEF TypeOK, locals, tables
    <3>3. CASE Passes(q, isWrite) /\ UNCHANGED <<locals, tables, memory>>
      BY <2>0, <3>3, OutcomeType DEF TypeOK, locals, tables, memory
    <3>4. QED
      BY <2>8, <3>1, <3>2, <3>3 DEF Deref
  <2>9. ASSUME NEW p \in Vars, NEW q \in Vars, Load(p, q) PROVE TypeOK'
    <3>1. CASE Aborts(q, FALSE)
      BY <2>0, <3>1, AbortType
    <3>2. CASE /\ value[q] \in Cells
               /\ Passes(q, FALSE)
               /\ SetLocal(p, mem[value[q]], shadow_load(LoadedFrom(p, q)), cellObject[value[q]])
               /\ UNCHANGED <<memory, tables>>
      <4>1. mem[value[q]] \in Word /\ cellObject[value[q]] \in Metadata
        BY <3>2 DEF TypeOK
      <4>2. QED
        BY <2>0, <3>2, <4>1, LoadType, SetLocalType, OutcomeType DEF TypeOK, memory, tables
    <3>3. QED
      BY <2>9, <3>1, <3>2 DEF Load
  <2>10. ASSUME NEW p \in Vars, NEW q \in Vars, NEW k \in 0 .. MaxBlock - 1, LoadMember(p, q, k)
         PROVE  TypeOK'
    <3> DEFINE c == value[q] + k
               from == IF p = q THEN Plus(mem[c], k) ELSE c
    <3>1. c \in Cells /\ SetLocal(p, mem[c], shadow_load(from), cellObject[c])
      BY <2>10 DEF LoadMember
    <3> HIDE DEF c, from
    <3>2. mem[c] \in Word /\ cellObject[c] \in Metadata /\ shadow_load(from) \in Metadata
      BY <3>1, LoadType DEF TypeOK
    <3>3. QED
      BY <2>0, <2>10, <3>1, <3>2, SetLocalType DEF LoadMember, TypeOK, memory, tables
  <2>11. ASSUME NEW q \in Vars, NEW k \in 0 .. MaxBlock - 1, NEW e \in Expressions, StoreMember(q, k, e)
         PROVE  TypeOK'
    BY <2>0, <2>11, ExpressionTypes, SetCellType DEF StoreMember, TypeOK, locals, tables
  <2>12. QED
    BY <1>2, <2>1, <2>2, <2>3, <2>4, <2>5, <2>6, <2>7, <2>8, <2>9, <2>10, <2>11 DEF Next
<1>3. QED
  BY <1>1, <1>2

\* Every slot, entry and key stays a value of its kind, sums that wrap included.
THEOREM TypeCorrect == Spec => []TypeOK
<1>1. Init => TypeOK
  BY InitType
<1>2. TypeOK /\ [Next]_vars => TypeOK'
  BY NextType
<1>3. QED
  BY <1>1, <1>2, PTL DEF Spec

-----------------------------------------------------------------------------
(* The metadata are true *)

LEMMA SetLocalTrue ==
    ASSUME TypeOK, MetadataTrue, NEW p \in Vars, NEW val, NEW m, NEW o,
           Describes(m, val, o), SetLocal(p, val, m, o), UNCHANGED memory
    PROVE  MetadataTrue'
<1>1. ASSUME NEW v \in Vars PROVE Describes(meta'[v], value'[v], object'[v])
  <2>1. CASE v = p
    BY <2>1 DEF SetLocal, TypeOK, Describes
  <2>2. CASE v # p
    BY <2>2 DEF SetLocal, TypeOK, Describes, MetadataTrue
  <2>3. QED
    BY <2>1, <2>2
<1>2. ASSUME NEW c \in Cells PROVE Describes(shadow_load(c)', mem'[c], cellObject'[c])
  BY DEF memory, MetadataTrue, shadow_load, Describes
<1>3. QED
  BY <1>1, <1>2 DEF MetadataTrue, Describes

LEMMA SetCellTrue ==
    ASSUME TypeOK, MetadataTrue, NEW a \in Cells, NEW val, NEW m, NEW o,
           Describes(m, val, o), SetCell(a, val, m, o), UNCHANGED locals
    PROVE  MetadataTrue'
<1>1. ASSUME NEW v \in Vars PROVE Describes(meta'[v], value'[v], object'[v])
  BY DEF locals, MetadataTrue, Describes
<1>2. ASSUME NEW c \in Cells PROVE Describes(shadow_load(c)', mem'[c], cellObject'[c])
  <2>1. CASE c = a
    <3>1. shadow'[c] = m /\ mem'[c] = val /\ cellObject'[c] = o
      BY <2>1 DEF SetCell, TypeOK
    <3>2. shadow_load(c)' = Wildcard \/ shadow_load(c)' = m
      BY <3>1 DEF shadow_load
    <3>3. QED
      BY <3>1, <3>2 DEF Describes
  <2>2. CASE c # a
    <3>1. shadow'[c] = shadow[c] /\ mem'[c] = mem[c] /\ cellObject'[c] = cellObject[c]
      BY <2>2 DEF SetCell, TypeOK
    <3>2. shadow_load(c)' = shadow_load(c)
      BY <3>1 DEF shadow_load
    <3>3. QED
      BY <3>1, <3>2 DEF Describes, MetadataTrue
  <2>3. QED
    BY <2>1, <2>2
<1>3. QED
  BY <1>1, <1>2 DEF MetadataTrue, Describes

LEMMA ExpressionTrue ==
    ASSUME MetadataTrue, NEW e \in Expressions, Defined(e)
    PROVE  Describes(MetadataOf(e), Value(e), Object(e))
<1>1. /\ e.form \in {"null", "local", "constant", "string", "variable", "other", "plus"}
      /\ e.form \in {"variable", "other", "plus"} => e.of \in Vars
  BY ExpressionForms
<1>2. CASE e.form \in {"null", "local", "constant", "string"}
  BY <1>2 DEF Describes, MetadataOf, Object, Named
<1>3. CASE e.form = "variable"
  BY <1>1, <1>3 DEF Describes, MetadataOf, Object, Value, MetadataTrue
<1>4. CASE e.form = "other"
  BY <1>4 DEF Describes, MetadataOf
<1>5. CASE e.form = "plus"
  BY <1>1, <1>5 DEF Describes, MetadataOf, Object, Defined, MetadataTrue
<1>6. QED
  BY <1>1, <1>2, <1>3, <1>4, <1>5

\* What an access does to memory besides the access itself, when it is stopped.
LEMMA AbortTrue ==
    ASSUME MetadataTrue, NEW v, NEW isWrite, Aborts(v, isWrite)
    PROVE  MetadataTrue'
BY DEF Aborts, locals, memory, MetadataTrue, shadow_load, Describes

LEMMA NextTrue == SelfLoads = FALSE /\ TypeOK /\ MetadataTrue /\ [Next]_vars => MetadataTrue'
<1> SUFFICES ASSUME SelfLoads = FALSE, TypeOK, MetadataTrue, [Next]_vars PROVE MetadataTrue'
  OBVIOUS
<1>1. CASE UNCHANGED vars
  BY <1>1 DEF vars, locals, memory, MetadataTrue, shadow_load, Describes
<1>2. CASE Next
  <2>1. ASSUME NEW p \in Vars, NEW e \in Expressions, Assign(p, e) PROVE MetadataTrue'
    BY <2>1, ExpressionTrue, SetLocalTrue DEF Assign
  <2>2. ASSUME NEW q \in Vars, NEW e \in Expressions, Store(q, e) PROVE MetadataTrue'
    <3>1. CASE Aborts(q, TRUE)
      BY <3>1, AbortTrue
    <3>2. CASE Defined(e) /\ value[q] \in Cells /\ UNCHANGED <<locals, tables>>
               /\ SetCell(value[q], Value(e), MetadataOf(e), Object(e))
      BY <3>2, ExpressionTrue, SetCellTrue
    <3>3. QED
      BY <2>2, <3>1, <3>2 DEF Store
  <2>3. ASSUME NEW p \in Vars, NEW k \in Offsets, IncDec(p, k) PROVE MetadataTrue'
    <3>1. Describes(meta[p], Plus(value[p], k), object[p])
      BY <2>3 DEF IncDec, MetadataTrue, Describes
    <3>2. QED
      BY <2>3, <3>1, SetLocalTrue DEF IncDec
  <2>4. ASSUME NEW q \in Vars, NEW k \in Offsets, IncDecCell(q, k) PROVE MetadataTrue'
    <3>1. value[q] \in Cells /\ mem[value[q]] # Null
      BY <2>4 DEF IncDecCell
    <3>2. Describes(shadow_load(value[q]), Plus(mem[value[q]], k), cellObject[value[q]])
      BY <3>1 DEF MetadataTrue, Describes
    <3>3. QED
      BY <2>4, <3>1, <3>2, SetCellTrue DEF IncDecCell
  <2>5. ASSUME NEW p \in Vars, NEW b \in Bases, NEW n \in 1 .. MaxBlock, Malloc(p, b, n)
        PROVE  MetadataTrue'
    <3> DEFINE block == Meta(b, n, nextKey, FALSE)
    <3>1. b \in b .. b + n - 1
      BY Layout DEF Word
    <3>2. /\ shadow' = [shadow EXCEPT ![b] = block]
          /\ SetLocal(p, b, block, block)
          /\ mem' = [c \in Cells |-> IF c \in b .. b + n - 1 THEN Null ELSE mem[c]]
          /\ cellObject' = [c \in Cells |-> IF c \in b .. b + n - 1 THEN NullMeta ELSE cellObject[c]]
      BY <2>5 DEF Malloc
    <3> HIDE DEF block
    <3>3. ASSUME NEW v \in Vars PROVE Describes(meta'[v], value'[v], object'[v])
      <4>1. CASE v = p
        BY <3>2, <4>1 DEF SetLocal, TypeOK, Describes
      <4>2. CASE v # p
        BY <3>2, <4>2 DEF SetLocal, TypeOK, Describes, MetadataTrue
      <4>3. QED
        BY <4>1, <4>2
    <3>4. ASSUME NEW c \in Cells PROVE Describes(shadow_load(c)', mem'[c], cellObject'[c])
      <4>1. CASE c \in b .. b + n - 1
        BY <3>2, <4>1 DEF Describes
      <4>2. CASE c \notin b .. b + n - 1
        <5>1. mem'[c] = mem[c] /\ cellObject'[c] = cellObject[c] /\ c # b
          BY <3>1, <3>2, <4>2
        <5>2. shadow'[c] = shadow[c]
          BY <3>2, <5>1 DEF TypeOK
        <5>3. shadow_load(c)' = shadow_load(c)
          BY <5>2 DEF shadow_load
        <5>4. QED
          BY <5>1, <5>3 DEF MetadataTrue, Describes
      <4>3. QED
        BY <4>1, <4>2
    <3>5. QED
      BY <3>3, <3>4 DEF MetadataTrue, Describes
  <2>6. ASSUME NEW p \in Vars, MallocFails(p) PROVE MetadataTrue'
    <3>1. Describes(shadow_load(Null), Null, NullMeta)
      BY DEF Describes
    <3>2. QED
      BY <2>6, <3>1, SetLocalTrue DEF MallocFails
  <2>7. ASSUME NEW p \in Vars, Free(p) PROVE MetadataTrue'
    <3>1. ASSUME NEW c \in Cells PROVE Describes(shadow_load(c)', mem'[c], cellObject'[c])
      <4>1. mem'[c] = mem[c] /\ cellObject'[c] = cellObject[c]
        BY <2>7 DEF Free
      <4>2. shadow'[c] = Absent \/ shadow'[c] = shadow[c]
        BY <2>7 DEF Free, TypeOK
      <4>3. shadow_load(c)' = Wildcard \/ shadow_load(c)' = shadow_load(c)
        BY <4>2 DEF shadow_load
      <4>4. QED
        BY <4>1, <4>3 DEF MetadataTrue, Describes
    <3>2. ASSUME NEW v \in Vars PROVE Describes(meta'[v], value'[v], object'[v])
      BY <2>7 DEF Free, locals, MetadataTrue, Describes
    <3>3. QED
      BY <3>1, <3>2 DEF MetadataTrue, Describes
  <2>8. ASSUME NEW q \in Vars, NEW isWrite \in BOOLEAN, Deref(q, isWrite) PROVE MetadataTrue'
    <3>1. CASE Aborts(q, isWrite)
      BY <3>1, AbortTrue
    <3>2. CASE /\ UNCHANGED <<locals, tables>>
               /\ value[q] \in Cells
               /\ SetCell(value[q], Null, shadow[value[q]], NullMeta)
      BY <3>2, SetCellTrue DEF Describes
    <3>3. CASE UNCHANGED <<locals, tables, memory>>
      BY <3>3 DEF locals, memory, MetadataTrue, shadow_load, Describes
    <3>4. QED
      BY <2>8, <3>1, <3>2, <3>3 DEF Deref
  <2>9. ASSUME NEW p \in Vars, NEW q \in Vars, Load(p, q) PROVE MetadataTrue'
    <3>1. CASE Aborts(q, FALSE)
      BY <3>1, AbortTrue
    <3>2. CASE /\ value[q] \in Cells
               /\ SetLocal(p, mem[value[q]], shadow_load(LoadedFrom(p, q)), cellObject[value[q]])
               /\ UNCHANGED <<memory, tables>>
      <4>1. LoadedFrom(p, q) = value[q]
        BY <2>9 DEF Load, LoadedFrom
      <4>2. Describes(shadow_load(value[q]), mem[value[q]], cellObject[value[q]])
        BY <3>2 DEF MetadataTrue
      <4>3. QED
        BY <3>2, <4>1, <4>2, SetLocalTrue
    <3>3. QED
      BY <2>9, <3>1, <3>2 DEF Load
  <2>10. ASSUME NEW p \in Vars, NEW q \in Vars, NEW k \in 0 .. MaxBlock - 1, LoadMember(p, q, k)
         PROVE  MetadataTrue'
    <3> DEFINE c == value[q] + k
    <3>1. /\ c \in Cells /\ UNCHANGED memory
          /\ SetLocal(p, mem[c], shadow_load(c), cellObject[c])
      BY <2>10 DEF LoadMember
    <3> HIDE DEF c
    <3>2. Describes(shadow_load(c), mem[c], cellObject[c])
      BY <3>1 DEF MetadataTrue
    <3>3. QED
      BY <3>1, <3>2, SetLocalTrue
  <2>11. ASSUME NEW q \in Vars, NEW k \in 0 .. MaxBlock - 1, NEW e \in Expressions, StoreMember(q, k, e)
         PROVE  MetadataTrue'
    BY <2>11, ExpressionTrue, SetCellTrue DEF StoreMember
  <2>12. QED
    BY <1>2, <2>1, <2>2, <2>3, <2>4, <2>5, <2>6, <2>7, <2>8, <2>9, <2>10, <2>11 DEF Next
<1>3. QED
  BY <1>1, <1>2

LEMMA InitTrue == Init => MetadataTrue
BY DEF Init, MetadataTrue, Describes

\* In a program without p = *p and p = p->m, the metadata kept for a pointer are those of
\* the object it was made from, or none.
THEOREM MetadataAreTrue ==
    ASSUME SelfLoads = FALSE
    PROVE  Spec => []MetadataTrue
<1>1. Init => TypeOK /\ MetadataTrue
  BY InitType, InitTrue
<1>2. TypeOK /\ MetadataTrue /\ [Next]_vars => TypeOK' /\ MetadataTrue'
  BY NextType, NextTrue
<1>3. QED
  BY <1>1, <1>2, PTL DEF Spec

-----------------------------------------------------------------------------
(* Objects lie below the end of the address space *)

\* No sum that has to do with an object wraps.
Fits(o) == o.base + o.size < WordLimit
ObjectsFit ==
    /\ \A v \in Vars : Fits(object[v])
    /\ \A c \in Cells : Fits(cellObject[c])

LEMMA ConstantsFit ==
    Fits(NullMeta) /\ Fits(LocalObject) /\ Fits(ConstantObject) /\ Fits(LiteralObject)
BY Layout DEF Fits, NullMeta, LocalObject, ConstantObject, LiteralObject, Meta, Null, Word

LEMMA BlockFits ==
    ASSUME NEW b \in Bases, NEW n \in 1 .. MaxBlock, NEW k
    PROVE  Fits(Meta(b, n, k, FALSE))
<1>1. b \in Nat /\ b + MaxBlock < WordLimit
  BY Layout DEF Word
<1>2. QED
  BY <1>1 DEF Fits, Meta

LEMMA ExpressionFits ==
    ASSUME ObjectsFit, NEW e \in Expressions
    PROVE  Fits(Object(e))
<1>1. /\ e.form \in {"null", "local", "constant", "string", "variable", "other", "plus"}
      /\ e.form \in {"variable", "other", "plus"} => e.of \in Vars
  BY ExpressionForms
<1>2. CASE e.form \in {"variable", "other", "plus"}
  BY <1>1, <1>2 DEF Object, ObjectsFit
<1>3. CASE e.form \in {"null", "local", "constant", "string"}
  BY <1>3, ConstantsFit DEF Object, Named
<1>4. QED
  BY <1>1, <1>2, <1>3

LEMMA SetLocalFits ==
    ASSUME TypeOK, ObjectsFit, NEW p \in Vars, NEW val, NEW m, NEW o,
           Fits(o), SetLocal(p, val, m, o), UNCHANGED cellObject
    PROVE  ObjectsFit'
BY DEF SetLocal, TypeOK, ObjectsFit, Fits

LEMMA SetCellFits ==
    ASSUME TypeOK, ObjectsFit, NEW c \in Cells, NEW val, NEW m, NEW o,
           Fits(o), SetCell(c, val, m, o), UNCHANGED object
    PROVE  ObjectsFit'
BY DEF SetCell, TypeOK, ObjectsFit, Fits

LEMMA SameObjectsFit ==
    ASSUME ObjectsFit, UNCHANGED <<object, cellObject>>
    PROVE  ObjectsFit'
BY DEF ObjectsFit, Fits

LEMMA NextFits == TypeOK /\ ObjectsFit /\ [Next]_vars => ObjectsFit'
<1> SUFFICES ASSUME TypeOK, ObjectsFit, [Next]_vars PROVE ObjectsFit'
  OBVIOUS
<1>1. CASE UNCHANGED vars
  BY <1>1, SameObjectsFit DEF vars, locals, memory
<1>2. CASE Next
  <2>1. ASSUME NEW p \in Vars, NEW e \in Expressions, Assign(p, e) PROVE ObjectsFit'
    BY <2>1, ExpressionFits, SetLocalFits DEF Assign, memory
  <2>2. ASSUME NEW q \in Vars, NEW e \in Expressions, Store(q, e) PROVE ObjectsFit'
    BY <2>2, ExpressionFits, SetCellFits, SameObjectsFit DEF Store, Aborts, locals, memory
  <2>3. ASSUME NEW p \in Vars, NEW k \in Offsets, IncDec(p, k) PROVE ObjectsFit'
    BY <2>3, SetLocalFits DEF IncDec, memory, ObjectsFit
  <2>4. ASSUME NEW q \in Vars, NEW k \in Offsets, IncDecCell(q, k) PROVE ObjectsFit'
    BY <2>4, SetCellFits DEF IncDecCell, locals, ObjectsFit
  <2>5. ASSUME NEW p \in Vars, NEW b \in Bases, NEW n \in 1 .. MaxBlock, Malloc(p, b, n)
        PROVE  ObjectsFit'
    <3> DEFINE block == Meta(b, n, nextKey, FALSE)
    <3>1. Fits(block)
      BY BlockFits
    <3>2. /\ SetLocal(p, b, block, block)
          /\ cellObject' = [c \in Cells |-> IF c \in b .. b + n - 1 THEN NullMeta ELSE cellObject[c]]
      BY <2>5 DEF Malloc
    <3> HIDE DEF block
    <3>3. ASSUME NEW v \in Vars PROVE Fits(object'[v])
      BY <3>1, <3>2 DEF SetLocal, TypeOK, ObjectsFit
    <3>4. ASSUME NEW c \in Cells PROVE Fits(cellObject'[c])
      BY <3>2, ConstantsFit DEF ObjectsFit
    <3>5. QED
      BY <3>3, <3>4 DEF ObjectsFit, Fits
  <2>6. ASSUME NEW p \in Vars, MallocFails(p) PROVE ObjectsFit'
    BY <2>6, ConstantsFit, SetLocalFits DEF MallocFails, memory
  <2>7. ASSUME NEW p \in Vars, Free(p) PROVE ObjectsFit'
    BY <2>7, SameObjectsFit DEF Free, locals
  <2>8. ASSUME NEW q \in Vars, NEW isWrite \in BOOLEAN, Deref(q, isWrite) PROVE ObjectsFit'
    BY <2>8, ConstantsFit, SetCellFits, SameObjectsFit DEF Deref, Aborts, locals, memory
  <2>9. ASSUME NEW p \in Vars, NEW q \in Vars, Load(p, q) PROVE ObjectsFit'
    <3>1. CASE Aborts(q, FALSE)
      BY <3>1, SameObjectsFit DEF Aborts, locals, memory
    <3>2. CASE /\ value[q] \in Cells
               /\ SetLocal(p, mem[value[q]], shadow_load(LoadedFrom(p, q)), cellObject[value[q]])
               /\ UNCHANGED <<memory, tables>>
      BY <3>2, SetLocalFits DEF memory, ObjectsFit
    <3>3. QED
      BY <2>9, <3>1, <3>2 DEF Load
  <2>10. ASSUME NEW p \in Vars, NEW q \in Vars, NEW k \in 0 .. MaxBlock - 1, LoadMember(p, q, k)
         PROVE  ObjectsFit'
    <3> DEFINE c == value[q] + k
               from == IF p = q THEN Plus(mem[c], k) ELSE c
    <3>1. /\ c \in Cells /\ UNCHANGED memory
          /\ SetLocal(p, mem[c], shadow_load(from), cellObject[c])
      BY <2>10 DEF LoadMember
    <3> HIDE DEF c, from
    <3>2. QED
      BY <3>1, SetLocalFits DEF memory, ObjectsFit
  <2>11. ASSUME NEW q \in Vars, NEW k \in 0 .. MaxBlock - 1, NEW e \in Expressions, StoreMember(q, k, e)
         PROVE  ObjectsFit'
    BY <2>11, ExpressionFits, SetCellFits DEF StoreMember, locals
  <2>12. QED
    BY <1>2, <2>1, <2>2, <2>3, <2>4, <2>5, <2>6, <2>7, <2>8, <2>9, <2>10, <2>11 DEF Next
<1>3. QED
  BY <1>1, <1>2

LEMMA InitFits == Init => ObjectsFit
BY ConstantsFit DEF Init, ObjectsFit

-----------------------------------------------------------------------------
(* The check is exact *)

\* Of the object a pointer was made from, the check accepts the accesses C permits, and no
\* others: unless the end of the access wraps.
LEMMA CheckIsExact ==
    ASSUME NEW a \in Word, NEW o \in Metadata, NEW isWrite \in BOOLEAN,
           Fits(o), ~IsWildcard(o), a + 1 < WordLimit
    PROVE  check_bounds(a, o, 1, isWrite, keyTable) = "ok" <=> Permitted(a, o, isWrite)
<1>1. a \in Nat /\ o.base \in Nat /\ o.size \in Nat
  BY MetaFields DEF Word
<1>2. Plus(a, 1) = a + 1 /\ Plus(o.base, o.size) = o.base + o.size
  BY <1>1, PlusExact DEF Fits
<1>3. InBounds(a, o, 1) <=> a >= o.base /\ a < o.base + o.size
  BY <1>1, <1>2 DEF InBounds
<1>4. QED
  BY <1>3 DEF check_bounds, Permitted

\* What C permits does not wrap.
LEMMA PermittedEnds ==
    ASSUME NEW a \in Word, NEW o \in Metadata, NEW isWrite, Fits(o), Permitted(a, o, isWrite)
    PROVE  a + 1 < WordLimit
<1>1. a \in Nat /\ o.base \in Nat /\ o.size \in Nat
  BY MetaFields DEF Word
<1>2. QED
  BY <1>1 DEF Permitted, Fits

Verdicts == MissesNothing /\ NoFalseAlarm

\* With true metadata, neither of the two ways an access ends is a wrong one.
LEMMA AccessJudged ==
    ASSUME TypeOK, MetadataTrue, ObjectsFit, NEW v \in Vars, NEW isWrite \in BOOLEAN,
           Passes(v, isWrite) \/ Aborts(v, isWrite)
    PROVE  Verdicts'
<1> DEFINE a == value[v]
           o == object[v]
<1>1. a \in Word /\ o \in Metadata /\ Fits(o) /\ Describes(meta[v], a, o)
  BY DEF TypeOK, MetadataTrue, ObjectsFit
<1>2. CASE a = Null
  <2>1. Check(v, isWrite) = "null" /\ ~Permitted(a, o, isWrite)
    BY <1>2 DEF Check, check_bounds, Permitted
  <2>2. QED
    BY <2>1 DEF Passes, Aborts, Verdicts, MissesNothing, NoFalseAlarm
<1>3. CASE a # Null /\ IsWildcard(meta[v])
  <2>1. Check(v, isWrite) = "ok"
    BY <1>3 DEF Check, check_bounds
  <2>2. Permitted(a, o, isWrite)
    BY <1>3, <2>1 DEF Passes, Aborts, Unchecked
  <2>3. QED
    BY <2>1, <2>2 DEF Passes, Aborts, Verdicts, MissesNothing, NoFalseAlarm
<1>4. CASE a # Null /\ ~IsWildcard(meta[v])
  <2>1. meta[v] = o /\ ~IsWildcard(o)
    BY <1>1, <1>4 DEF Describes, IsWildcard, Wildcard, Meta
  <2>2. CASE a + 1 < WordLimit
    <3>1. Check(v, isWrite) = "ok" <=> Permitted(a, o, isWrite)
      BY <1>1, <2>1, <2>2, CheckIsExact DEF Check
    <3>2. a + 1 # WordLimit
      BY <2>2
    <3>3. QED
      BY <3>1, <3>2 DEF Passes, Aborts, Verdicts, MissesNothing, NoFalseAlarm
  <2>3. CASE ~(a + 1 < WordLimit)
    <3>1. a + 1 = WordLimit
      BY <1>1, <2>3 DEF Word
    <3>2. ~Permitted(a, o, isWrite)
      BY <1>1, <2>3, PermittedEnds
    <3>3. QED
      BY <3>1, <3>2 DEF Passes, Aborts, Verdicts, MissesNothing, NoFalseAlarm
  <2>4. QED
    BY <2>2, <2>3
<1>5. QED
  BY <1>2, <1>3, <1>4

LEMMA NextJudged ==
    TypeOK /\ MetadataTrue /\ ObjectsFit /\ Verdicts /\ [Next]_vars => Verdicts'
<1> SUFFICES ASSUME TypeOK, MetadataTrue, ObjectsFit, Verdicts, [Next]_vars PROVE Verdicts'
  OBVIOUS
<1>1. CASE UNCHANGED outcome
  BY <1>1 DEF Verdicts, MissesNothing, NoFalseAlarm
<1>2. CASE Next
  <2>1. ASSUME NEW q \in Vars, NEW e \in Expressions, Store(q, e) PROVE Verdicts'
    BY <2>1, AccessJudged DEF Store
  <2>2. ASSUME NEW q \in Vars, NEW isWrite \in BOOLEAN, Deref(q, isWrite) PROVE Verdicts'
    BY <2>2, AccessJudged DEF Deref
  <2>3. ASSUME NEW p \in Vars, NEW q \in Vars, Load(p, q) PROVE Verdicts'
    BY <2>3, AccessJudged DEF Load
  <2>4. ASSUME NEW p \in Vars, NEW e \in Expressions, Assign(p, e) PROVE Verdicts'
    BY <1>1, <2>4 DEF Assign
  <2>5. ASSUME NEW p \in Vars, NEW k \in Offsets, IncDec(p, k) \/ IncDecCell(p, k) PROVE Verdicts'
    BY <1>1, <2>5 DEF IncDec, IncDecCell
  <2>6. ASSUME NEW p \in Vars, NEW b \in Bases, NEW n \in 1 .. MaxBlock, Malloc(p, b, n) PROVE Verdicts'
    BY <1>1, <2>6 DEF Malloc
  <2>7. ASSUME NEW p \in Vars, MallocFails(p) \/ Free(p) PROVE Verdicts'
    BY <1>1, <2>7 DEF MallocFails, Free
  <2>8. ASSUME NEW p \in Vars, NEW q \in Vars, NEW k \in 0 .. MaxBlock - 1, LoadMember(p, q, k)
        PROVE  Verdicts'
    BY <1>1, <2>8 DEF LoadMember
  <2>9. ASSUME NEW q \in Vars, NEW k \in 0 .. MaxBlock - 1, NEW e \in Expressions, StoreMember(q, k, e)
        PROVE  Verdicts'
    BY <1>1, <2>9 DEF StoreMember
  <2>10. QED
    BY <1>2, <2>1, <2>2, <2>3, <2>4, <2>5, <2>6, <2>7, <2>8, <2>9 DEF Next
<1>3. QED
  BY <1>1, <1>2 DEF vars

IInv == TypeOK /\ MetadataTrue /\ ObjectsFit /\ Verdicts

LEMMA Invariant ==
    ASSUME SelfLoads = FALSE
    PROVE  Spec => []IInv
<1>1. Init => IInv
  BY InitType, InitTrue, InitFits DEF IInv, Verdicts, MissesNothing, NoFalseAlarm, Init
<1>2. IInv /\ [Next]_vars => IInv'
  BY NextType, NextTrue, NextFits, NextJudged DEF IInv
<1>3. QED
  BY <1>1, <1>2, PTL DEF Spec

\* An access that is checked by metadata stays in the object the pointer was made from,
\* and within its life, unless the end of the access wraps: for any words and programs.
THEOREM ChecksMissNothing ==
    ASSUME SelfLoads = FALSE
    PROVE  Spec => []MissesNothing
BY Invariant, PTL DEF IInv, Verdicts

\* No program is stopped at an access C permits.
THEOREM ChecksAreSilent ==
    ASSUME SelfLoads = FALSE
    PROVE  Spec => []NoFalseAlarm
BY Invariant, PTL DEF IInv, Verdicts
=============================================================================
