--------------------------- MODULE PointerMetadata ---------------------------
(***************************************************************************)
(* What the compiled program knows of its pointers.  A local pointer has   *)
(* its metadata in three slots beside it, a pointer in memory has them in  *)
(* SHADOW_TABLE under its address, and every assignment works out the      *)
(* metadata of its right side anew, after it has stored the value.         *)
(*                                                                         *)
(* A program is a sequence of statements about any of its pointers.  Every *)
(* pointer also has, as history, the object it was made from: C lets it be *)
(* used within that object, while that lives.  A cell of the heap holds a  *)
(* pointer or one element; an access is of one cell; blocks are calloc'ed. *)
(***************************************************************************)
EXTENDS BoundsCheck, FiniteSets

CONSTANTS
    Vars,        \* local pointer variables
    Bases,       \* where the allocator places blocks
    MaxBlock,    \* largest size asked for
    Local,       \* address of an int variable
    Constant,    \* address of a const int variable
    Literal,     \* address of a string literal of two characters
    Offsets,     \* what is added to a pointer
    Forms,       \* the forms of expressions the program uses
    SelfLoads,   \* TRUE: p = *p and p = p->m occur
    MaxKeys,     \* bound on the keys issued
    MaxStmts     \* bound on the statements of the program

Cells == {b + n : b \in Bases, n \in 0 .. MaxBlock - 1}

ASSUME LayoutAssumption ==
    /\ MaxBlock \in Nat \ {0} /\ {MaxKeys, MaxStmts} \subseteq Nat /\ SelfLoads \in BOOLEAN
    /\ Bases \cup Cells \cup Offsets \cup {Local, Constant, Literal} \subseteq Word
    /\ Null \notin Cells \cup {Local, Constant, Literal}
    /\ \A b \in Bases : b + MaxBlock < WordLimit
    /\ \A a \in {Local, Constant, Literal} : a + 2 < WordLimit

VARIABLES
    value,     \* value of each local pointer
    meta,      \* its metadata slots
    mem,       \* pointers the cells of the heap hold, Null where one holds none
    shadow,    \* SHADOW_TABLE for the cells, Absent where it has no entry
    keyTable,  \* KEY_TABLE, NoKey where it has no entry
    nextKey,   \* NEXT_KEY
    object, cellObject,  \* history: the object each pointer was made from
    outcome,   \* history: what came of the last access
    stmts      \* statements run

tables  == <<keyTable, nextKey>>
locals  == <<value, meta, object>>
memory  == <<mem, shadow, cellObject>>
vars == <<locals, memory, tables, outcome, stmts>>

Absent == NullMeta   \* to store a null base and a zero size is to remove the entry

LocalObject    == Meta(Local, 1, 1, FALSE)
ConstantObject == Meta(Constant, 1, 2, TRUE)
LiteralObject  == Meta(Literal, 2, NoKey, TRUE)

Init ==
    /\ value = [v \in Vars |-> Null]
    /\ meta = [v \in Vars |-> NullMeta]
    /\ mem = [c \in Cells |-> Null]
    /\ shadow = [c \in Cells |-> Absent]
    /\ keyTable = [a \in Word |-> CASE a = Local -> LocalObject.key
                                    [] a = Constant -> ConstantObject.key
                                    [] OTHER -> NoKey]
    /\ nextKey = 3
    /\ object = [v \in Vars |-> NullMeta]
    /\ cellObject = [c \in Cells |-> NullMeta]
    /\ outcome = "none"
    /\ stmts = 0

-----------------------------------------------------------------------------
(* Expressions of pointer type that touch no memory.                       *)

Expressions ==
    {e \in [form : {"null", "local", "constant", "string"}]
           \cup [form : {"variable", "other"}, of : Vars]
           \cup [form : {"plus"}, of : Vars, by : Offsets] : e.form \in Forms}

Value(e) ==
    CASE e.form = "null" -> Null
      [] e.form = "local" -> Local
      [] e.form = "constant" -> Constant
      [] e.form = "string" -> Literal
      [] e.form \in {"variable", "other"} -> value[e.of]
      [] e.form = "plus" -> Plus(value[e.of], e.by)

Named(e) ==
    CASE e.form = "null" -> NullMeta
      [] e.form = "local" -> LocalObject
      [] e.form = "constant" -> ConstantObject
      [] e.form = "string" -> LiteralObject

\* The object the value is made from, which arithmetic and passing on do not change.
Object(e) == IF e.form \in {"variable", "other", "plus"} THEN object[e.of] ELSE Named(e)

\* Mutant of MetadataOf: the sum is taken for an object of its own.
ShiftedMetadata(e) ==
    CASE e.form \in {"null", "local", "constant", "string"} -> Named(e)
      [] e.form = "variable" -> meta[e.of]
      [] e.form = "plus" -> [meta[e.of] EXCEPT !.base = Plus(@, e.by)]
      [] e.form = "other" -> Wildcard

\* A sum has the metadata of its left operand; a parameter, an increment within an
\* expression and whatever else is of none of the known forms is a wildcard.
MetadataOf(e) ==
    CASE e.form \in {"null", "local", "constant", "string"} -> Named(e)
      [] e.form \in {"variable", "plus"} -> meta[e.of]
      [] e.form = "other" -> Wildcard

\* __stricc_rt_shadow_load.
shadow_load(a) == IF a \notin Cells THEN Wildcard
                  ELSE IF shadow[a] = Absent THEN Wildcard ELSE shadow[a]

-----------------------------------------------------------------------------
(* Accesses. *)

Running == outcome \in {"none", "done", "missed", "wrapped"}

\* What C allows: the object the pointer was made from lives and has the cell.
Permitted(a, o, isWrite) ==
    /\ a # Null
    /\ a >= o.base /\ a < o.base + o.size
    /\ Current(o, keyTable)
    /\ ~(isWrite /\ o.const)

Check(v, isWrite) == check_bounds(value[v], meta[v], 1, isWrite, keyTable)

\* An access that is not checked, for want of metadata or of a check, is a correct one.
Unchecked(v, a, isWrite) == Permitted(a, object[v], isWrite)

Passes(v, isWrite) ==
    /\ Check(v, isWrite) = "ok"
    /\ IsWildcard(meta[v]) => Unchecked(v, value[v], isWrite)
    /\ outcome' = IF Permitted(value[v], object[v], isWrite) THEN "done"
                  ELSE IF value[v] + 1 = WordLimit THEN "wrapped" ELSE "missed"

Aborts(v, isWrite) ==
    /\ Check(v, isWrite) # "ok"
    /\ outcome' = IF Permitted(value[v], object[v], isWrite) THEN "false alarm"
                  ELSE "reported"
    /\ UNCHANGED <<locals, memory, tables>>

-----------------------------------------------------------------------------
(* Statements. *)

SetLocal(p, val, m, o) ==
    /\ value' = [value EXCEPT ![p] = val]
    /\ meta' = [meta EXCEPT ![p] = m]
    /\ object' = [object EXCEPT ![p] = o]

SetCell(c, val, m, o) ==
    /\ mem' = [mem EXCEPT ![c] = val]
    /\ shadow' = [shadow EXCEPT ![c] = m]
    /\ cellObject' = [cellObject EXCEPT ![c] = o]

\* There is no arithmetic on a null pointer.
Defined(e) == e.form = "plus" => value[e.of] # Null

\* p = e
Assign(p, e) ==
    /\ Defined(e)
    /\ SetLocal(p, Value(e), MetadataOf(e), Object(e))
    /\ UNCHANGED <<memory, tables, outcome>>

\* p++ and p--: a pointer keeps its metadata.
IncDec(p, k) ==
    /\ value[p] # Null
    /\ SetLocal(p, Plus(value[p], k), meta[p], object[p])
    /\ UNCHANGED <<memory, tables, outcome>>

\* p = f(...) looks the result up by its value: an allocation is found, its entry is at
\* its base.
Malloc(p, b, n) ==
    /\ nextKey <= MaxKeys
    /\ keyTable[b] = NoKey
    /\ LET block == Meta(b, n, nextKey, FALSE)
           within == b .. b + n - 1
       IN  /\ keyTable' = [keyTable EXCEPT ![b] = nextKey]
           /\ mem' = [c \in Cells |-> IF c \in within THEN Null ELSE mem[c]]
           /\ cellObject' = [c \in Cells |-> IF c \in within THEN NullMeta ELSE cellObject[c]]
           /\ shadow' = [shadow EXCEPT ![b] = block]
           /\ SetLocal(p, b, block, block)
    /\ nextKey' = nextKey + 1
    /\ UNCHANGED outcome

MallocFails(p) ==
    /\ SetLocal(p, Null, shadow_load(Null), NullMeta)
    /\ UNCHANGED <<memory, tables, outcome>>

\* free(p), of a live block.
Free(p) ==
    /\ value[p] \in Bases
    /\ value[p] = object[p].base
    /\ Permitted(value[p], object[p], FALSE)
    /\ keyTable' = [keyTable EXCEPT ![value[p]] = NoKey]
    /\ shadow' = [shadow EXCEPT ![value[p]] = Absent]
    /\ UNCHANGED <<locals, mem, cellObject, nextKey, outcome>>

\* x = *q and *q = x, of an element; a cell written so holds no pointer any more, but
\* keeps its shadow entry.
Deref(q, isWrite) ==
    \/ Aborts(q, isWrite)
    \/ /\ Passes(q, isWrite)
       /\ IF isWrite /\ value[q] \in Cells
          THEN SetCell(value[q], Null, shadow[value[q]], NullMeta)
          ELSE UNCHANGED memory
       /\ UNCHANGED <<locals, tables>>

\* Mutant of LoadedFrom: the address is worked out after the assignment.
LoadedFromAfter(p, q) == mem[value[q]]

\* The address whose shadow entry p = *q loads: that of the expression *q, worked out
\* when p has its new value already.
LoadedFrom(p, q) == IF p = q THEN mem[value[q]] ELSE value[q]

\* p = *q
Load(p, q) ==
    /\ SelfLoads \/ p # q
    /\ \/ Aborts(q, FALSE)
       \/ /\ value[q] \in Cells
          /\ Passes(q, FALSE)
          /\ SetLocal(p, mem[value[q]], shadow_load(LoadedFrom(p, q)), cellObject[value[q]])
          /\ UNCHANGED <<memory, tables>>

\* *q = e
Store(q, e) ==
    \/ Aborts(q, TRUE)
    \/ /\ Defined(e)
       /\ value[q] \in Cells
       /\ Passes(q, TRUE)
       /\ SetCell(value[q], Value(e), MetadataOf(e), Object(e))
       /\ UNCHANGED <<locals, tables>>

\* p = q->m and q->m = e, where m is k cells into the structure.
LoadMember(p, q, k) ==
    /\ SelfLoads \/ p # q
    /\ LET c == value[q] + k
       IN  /\ c \in Cells
           /\ Unchecked(q, c, FALSE)
           /\ SetLocal(p, mem[c], shadow_load(IF p = q THEN Plus(mem[c], k) ELSE c), cellObject[c])
    /\ UNCHANGED <<memory, tables, outcome>>

StoreMember(q, k, e) ==
    /\ Defined(e)
    /\ LET c == value[q] + k
       IN  /\ c \in Cells
           /\ Unchecked(q, c, TRUE)
           /\ SetCell(c, Value(e), MetadataOf(e), Object(e))
    /\ UNCHANGED <<locals, tables, outcome>>

\* (*q)++, where *q is a pointer to something: no check, and the entry is stored as it was loaded.
IncDecCell(q, k) ==
    /\ value[q] \in Cells
    /\ Unchecked(q, value[q], TRUE)
    /\ mem[value[q]] # Null
    /\ SetCell(value[q], Plus(mem[value[q]], k), shadow_load(value[q]), cellObject[value[q]])
    /\ UNCHANGED <<locals, tables, outcome>>

Next ==
    /\ Running
    /\ stmts < MaxStmts
    /\ stmts' = stmts + 1
    /\ \/ \E p \in Vars, e \in Expressions : Assign(p, e) \/ Store(p, e)
       \/ \E p \in Vars, k \in Offsets : IncDec(p, k) \/ IncDecCell(p, k)
       \/ \E p \in Vars, b \in Bases, n \in 1 .. MaxBlock : Malloc(p, b, n)
       \/ \E p \in Vars : MallocFails(p) \/ Free(p)
       \/ \E p \in Vars, isWrite \in BOOLEAN : Deref(p, isWrite)
       \/ \E p, q \in Vars : Load(p, q)
       \/ \E p, q \in Vars, k \in 0 .. MaxBlock - 1 : LoadMember(p, q, k)
       \/ \E q \in Vars, k \in 0 .. MaxBlock - 1, e \in Expressions : StoreMember(q, k, e)

Spec == Init /\ [][Next]_vars

-----------------------------------------------------------------------------
(* Properties *)

TypeOK ==
    /\ value \in [Vars -> Word]
    /\ meta \in [Vars -> Metadata]
    /\ object \in [Vars -> Metadata]
    /\ mem \in [Cells -> Word]
    /\ shadow \in [Cells -> Metadata]
    /\ cellObject \in [Cells -> Metadata]
    /\ keyTable \in [Word -> Nat]
    /\ nextKey \in Nat /\ stmts \in Nat
    /\ outcome \in {"none", "done", "missed", "wrapped", "false alarm", "reported"}

Describes(m, val, o) == val = Null \/ m = o \/ m = Wildcard

\* The metadata kept for a pointer, in its slots or in the shadow table, are those of
\* the object it was made from, or none: through assignments, arithmetic, stores and
\* loads, frees and new blocks at old addresses, whose cells have old entries.
MetadataTrue ==
    /\ \A v \in Vars : Describes(meta[v], value[v], object[v])
    /\ \A c \in Cells : Describes(shadow_load(c), mem[c], cellObject[c])

\* An access through metadata never leaves the object the pointer was made from, nor
\* reaches it after its end, unless the sum of the address and the size wraps.
MissesNothing == outcome # "missed"

\* No access that C allows is reported.
NoFalseAlarm == outcome # "false alarm"
=============================================================================
