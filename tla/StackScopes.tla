----------------------------- MODULE StackScopes -----------------------------
(***************************************************************************)
(* The life of stack variables: gen_function and gen_stmt walk a function  *)
(* body and emit calls that register a key where a variable is declared    *)
(* and deregister it where codegen takes its scope to end; the emitted     *)
(* code then runs, and is called again in the same frame.  The type        *)
(* checker's scopes say where a scope really ends.                         *)
(*                                                                         *)
(* A program is any sequence of at most MaxStmts statements of the forms   *)
(* in Forms: it is chosen while it is compiled.  Conditions are not        *)
(* evaluated, a branch goes either way.  A declaration is known by its     *)
(* number, which also stands for its alloca: every alloca is in the entry  *)
(* block, so it has one address per call, and the same one in every call.  *)
(* A statement after a return in the same block emits code nothing         *)
(* reaches, and is left out; so are arrays, parameters and break, continue *)
(* and switch, for which gen_stmt emits nothing.                           *)
(***************************************************************************)
EXTENDS Integers, Sequences, SequencesExt

CONSTANTS
    Ints,       \* names of int variables
    Ptrs,       \* names of pointer variables
    Forms,      \* statement forms the program uses
    Shadowing,  \* TRUE: a block may redeclare a name of an enclosing one
    MaxStmts,   \* bound on the statements of the function
    MaxCalls,   \* bound on its calls
    MaxKeys     \* bound on the keys drawn

ASSUME NamesAssumption ==
    /\ Ints \cap Ptrs = {}
    /\ Shadowing \in BOOLEAN
    /\ MaxStmts \in Nat
    /\ MaxCalls \in Nat
    /\ MaxKeys \in Nat

Names == Ints \cup Ptrs
Decls == 1 .. MaxStmts
None  == 0

VARIABLES
    \* the type checker and the code generator
    scopes,           \* local_vars: the declaration of each name, per open scope
    open,             \* the statements being compiled, innermost last
    variables,        \* variables and variable_keys: one map for the function
    block_locals,     \* names to deregister at the end of each open block
    function_locals,  \* names to deregister at a return
    declared,         \* declarations so far
    code,             \* what has been emitted
    stmts,            \* statements compiled
    \* the compiled program
    status,           \* "compiling", "running", "returned", "aborted" or "rejected"
    pc,               \* the next instruction
    nextKey,          \* NEXT_KEY
    keyTable,         \* KEY_TABLE, NoKey where the map has no entry
    keySlot,          \* <name>_stack_key of each declaration
    pointer,          \* value and metadata of each pointer variable
    cell,             \* a pointer in memory that outlives the function
    result,           \* the pointer the caller was given
    alive,            \* the instance of each variable that is alive in C
    births,           \* instances so far
    calls

compiler == <<scopes, open, variables, block_locals, function_locals, declared, code, stmts>>
frame    == <<keySlot, pointer>>
library  == <<nextKey, keyTable>>
lives    == <<alive, births>>
vars     == <<compiler, status, pc, frame, library, cell, result, lives, calls>>

NoKey == 0
Dead  == 0
Junk  == -1   \* the frame's memory before it is written

\* A pointer to a declaration's variable: the key it carries and, which the
\* program does not know, the instance of the variable it was taken from.
NullPtr == [to |-> None, key |-> NoKey, of |-> Dead]
Pointer == [to : Decls \cup {None}, key : Nat, of : Nat]

-----------------------------------------------------------------------------
(* Names *)

Empty == [n \in Names |-> None]

Innermost(n) ==
    LET bound == {i \in DOMAIN scopes : scopes[i][n] # None}
    IN  IF bound = {} THEN None ELSE scopes[CHOOSE i \in bound : \A j \in bound : j <= i][n]

Visible(n) == Innermost(n) # None

\* C lets a block redeclare a name, but not twice.
MayDeclare(n) == IF Shadowing THEN Last(scopes)[n] = None ELSE ~Visible(n)

Allocas(names) == {variables[n] : n \in names}

-----------------------------------------------------------------------------
(* Emitted instructions *)

Declare(d)        == [op |-> "declare", var |-> d]
DeclareCounter(d) == [op |-> "declare", var |-> d, counter |-> TRUE]
AddrOf(p, x)      == [op |-> "addr", ptr |-> p, var |-> x]
Copy(p, q)        == [op |-> "copy", ptr |-> p, from |-> q]
Deref(p)          == [op |-> "deref", ptr |-> p]
Save(p)           == [op |-> "save", ptr |-> p]
Load(p)           == [op |-> "load", ptr |-> p]
Branch            == [op |-> "branch", to |-> 0]
Jump(to)          == [op |-> "jump", to |-> to]
\* The calls of deregister_stack_key for the allocas in `release', at a place
\* where the lifetime of the variables in `ends' is over.
Exit(release, ends) == [op |-> "exit", release |-> release, ends |-> ends]
Ret(p)            == [op |-> "ret", ptr |-> p]

Here == Len(code) + 1

\* Mutant of Patch: the block after a statement is never given to its branch.
Unpatched(instrs, i) == instrs

\* The instruction at i is a branch or a jump to what is emitted next.
Patch(instrs, i) == [instrs EXCEPT ![i].to = Len(instrs) + 1]

Ends(scope) == {scope[n] : n \in Names} \ {None}

-----------------------------------------------------------------------------
Init ==
    /\ scopes = <<Empty>>
    /\ open = <<>>
    /\ variables = Empty
    /\ block_locals = <<{}>>
    /\ function_locals = {}
    /\ declared = 0
    /\ code = <<>>
    /\ stmts = 0
    /\ status = "compiling"
    /\ pc = 1
    /\ nextKey = 1
    /\ keyTable = [d \in Decls |-> NoKey]
    /\ keySlot = [d \in Decls |-> Junk]
    /\ pointer = [d \in Decls |-> NullPtr]
    /\ cell = NullPtr
    /\ result = NullPtr
    /\ alive = [d \in Decls |-> Dead]
    /\ births = 0
    /\ calls = 0

-----------------------------------------------------------------------------
(* Compiling: the type checker's scopes and what gen_stmt emits. *)

\* A statement of the form; the one after a return is not compiled.
Compile(form) ==
    /\ status = "compiling"
    /\ form \in Forms
    /\ stmts < MaxStmts
    /\ code # <<>> => Last(code).op # "ret"
    /\ stmts' = stmts + 1
    /\ UNCHANGED <<status, pc, frame, library, cell, result, lives, calls>>

Emit(instrs) == code' = code \o instrs

\* Codegen's part of a declaration, in the block that is innermost for it.
AddLocal(n, d, blocks) ==
    /\ variables' = [variables EXCEPT ![n] = d]
    /\ function_locals' = function_locals \cup {n}
    /\ block_locals' = blocks

WithLocal(n) == [block_locals EXCEPT ![Len(block_locals)] = @ \cup {n}]

Decl(n) ==
    LET d == declared + 1
    IN  /\ Compile(IF n \in Ints THEN "int" ELSE "ptr")
        /\ MayDeclare(n)
        /\ scopes' = [scopes EXCEPT ![Len(scopes)][n] = d]
        /\ declared' = d
        /\ AddLocal(n, d, WithLocal(n))
        /\ Emit(<<Declare(d)>>)
        /\ UNCHANGED open

\* Expression statements: p = &x, p = q, if (p) *p, *c = p, p = *c, where c holds
\* the address of the cell.
Expr ==
    /\ \E p \in Ptrs :
          /\ Visible(p)
          /\ \/ \E x \in Ints : /\ Compile("addr")
                                /\ Visible(x)
                                /\ Emit(<<AddrOf(variables[p], variables[x])>>)
             \/ \E q \in Ptrs \ {p} : /\ Compile("copy")
                                      /\ Visible(q)
                                      /\ Emit(<<Copy(variables[p], variables[q])>>)
             \/ Compile("deref") /\ Emit(<<Deref(variables[p])>>)
             \/ Compile("save") /\ Emit(<<Save(variables[p])>>)
             \/ Compile("load") /\ Emit(<<Load(variables[p])>>)
    /\ UNCHANGED <<scopes, open, variables, block_locals, function_locals, declared>>

\* The beginning of a statement that holds a block.
OpenBlock(kind, instrs) ==
    /\ Compile(kind)
    /\ open' = Append(open, [kind |-> kind, head |-> Here])
    /\ scopes' = Append(scopes, Empty)
    /\ block_locals' = Append(block_locals, {})
    /\ Emit(instrs)
    /\ UNCHANGED <<variables, function_locals, declared>>

Compound == OpenBlock("block", <<>>)
If       == OpenBlock("if", <<Branch>>)
While    == OpenBlock("while", <<Branch>>)

\* Mutant of For: n is a local of the body.
ForInBody(n) ==
    LET d == declared + 1
    IN  /\ Compile("for")
        /\ Shadowing \/ ~Visible(n)
        /\ open' = Append(open, [kind |-> "for", head |-> Here + 1])
        /\ scopes' = scopes \o <<[Empty EXCEPT ![n] = d], Empty>>
        /\ declared' = d
        /\ AddLocal(n, d, Append(block_locals, {n}))
        /\ Emit(<<DeclareCounter(d), Branch>>)

\* for (int n ...; ...; ...) { : the type checker opens a scope for n, codegen
\* adds it to the locals of the block around the loop.
For(n) ==
    LET d == declared + 1
    IN  /\ Compile("for")
        /\ Shadowing \/ ~Visible(n)
        /\ open' = Append(open, [kind |-> "for", head |-> Here + 1])
        /\ scopes' = scopes \o <<[Empty EXCEPT ![n] = d], Empty>>
        /\ declared' = d
        /\ AddLocal(n, d, Append(WithLocal(n), {}))
        /\ Emit(<<DeclareCounter(d), Branch>>)

\* Mutant of BlockExit: a block keeps its keys.
BlockExitKeepsKeys == Exit({}, Ends(Last(scopes)))

\* What gen_stmt emits at the end of a compound statement.
BlockExit == Exit(Allocas(Last(block_locals)), Ends(Last(scopes)))

CloseScopes(n) ==
    /\ scopes' = SubSeq(scopes, 1, Len(scopes) - n)
    /\ block_locals' = Front(block_locals)
    /\ UNCHANGED <<variables, function_locals, declared, stmts>>
    /\ UNCHANGED <<status, pc, frame, library, cell, result, lives, calls>>

Close ==
    LET top == Last(open)
    IN  /\ status = "compiling"
        /\ open # <<>>
        /\ open' = Front(open)
        /\ CASE top.kind = "block" -> CloseScopes(1) /\ Emit(<<BlockExit>>)
             [] top.kind \in {"if", "else"} ->
                  /\ CloseScopes(1)
                  /\ code' = Patch(Append(code, BlockExit), top.head)
             [] top.kind = "while" ->
                  /\ CloseScopes(1)
                  /\ code' = Patch(code \o <<BlockExit, Jump(top.head)>>, top.head)
             [] top.kind = "for" ->
                  /\ CloseScopes(2)
                  /\ code' = Append(Patch(code \o <<BlockExit, Jump(top.head)>>, top.head),
                                    Exit({}, Ends(scopes[Len(scopes) - 1])))

\* } else {
Else ==
    LET top == Last(open)
        then == code \o <<BlockExit, Jump(0)>>
    IN  /\ open # <<>>
        /\ top.kind = "if"
        /\ status = "compiling"
        /\ stmts < MaxStmts
        /\ stmts' = stmts + 1
        /\ code' = Patch(then, top.head)
        /\ open' = Append(Front(open), [kind |-> "else", head |-> Len(then)])
        /\ scopes' = Append(Front(scopes), Empty)
        /\ block_locals' = Append(Front(block_locals), {})
        /\ UNCHANGED <<variables, function_locals, declared>>
        /\ UNCHANGED <<status, pc, frame, library, cell, result, lives, calls>>

\* return (of nothing, or of a constant), return *p unless p is null, return p.  Every local
\* declared so far is deregistered before the expression is evaluated.  return &x
\* is a type error.
Return ==
    LET release == Exit(Allocas(function_locals), {})
    IN  /\ \/ Compile("return") /\ Emit(<<release, Ret(None)>>)
           \/ \E p \in Ptrs :
                 /\ Visible(p)
                 /\ \/ /\ Compile("return_deref")
                       /\ Emit(<<release, Deref(variables[p]), Ret(None)>>)
                    \/ Compile("return_ptr") /\ Emit(<<release, Ret(variables[p])>>)
        /\ UNCHANGED <<scopes, open, variables, block_locals, function_locals, declared>>

\* Definite return, which here asks for a return at the end of the body.
ReturnsValue      == {"return_deref", "return_ptr"} \cap Forms # {}
DefinitelyReturns == code # <<>> /\ Last(code).op = "ret"

\* The type checker rejects a function that may end without its value.
Reject ==
    /\ status = "compiling"
    /\ open = <<>>
    /\ ReturnsValue /\ ~DefinitelyReturns
    /\ status' = "rejected"
    /\ UNCHANGED <<compiler, pc, frame, library, cell, result, lives, calls>>

\* The end of the body: the deregistrations of its block, and those of a
\* function that has not returned.
Finish ==
    /\ status = "compiling"
    /\ open = <<>>
    /\ ReturnsValue => DefinitelyReturns
    /\ Emit(<<BlockExit, Exit(Allocas(function_locals), {}), Ret(None)>>)
    /\ status' = "running"
    /\ UNCHANGED <<scopes, open, variables, block_locals, function_locals, declared, stmts>>
    /\ UNCHANGED <<pc, frame, library, cell, result, lives, calls>>

-----------------------------------------------------------------------------
(* Running *)

Live(p)   == p.to # None /\ p.of # Dead /\ alive[p.to] = p.of

\* __stricc_rt_check_bounds; a pointer without a key is not checked further.
Passes(p) == p.to # None /\ (p.key = NoKey \/ keyTable[p.to] = p.key)

At(op) == status = "running" /\ code[pc].op = op

Advance == pc' = pc + 1 /\ UNCHANGED <<compiler, calls>>

\* Mutant of RunDeclare: a key slot that has a key keeps it, so that every
\* iteration and every call declares under the same key.
RunDeclareOnce ==
    LET d == code[pc].var
        k == IF keyTable[d] # NoKey THEN keyTable[d] ELSE d
    IN  /\ At("declare")
        /\ nextKey <= MaxKeys
        /\ nextKey' = nextKey + 1
        /\ keySlot' = [keySlot EXCEPT ![d] = k]
        /\ keyTable' = [keyTable EXCEPT ![d] = k]
        /\ pointer' = [pointer EXCEPT ![d] = NullPtr]
        /\ births' = births + 1
        /\ alive' = [alive EXCEPT ![d] = births + 1]
        /\ Advance
        /\ UNCHANGED <<status, cell, result>>

\* get_next_key, the key slot, register_stack_key; a pointer starts as NULL.
RunDeclare ==
    LET d == code[pc].var
    IN  /\ At("declare")
        /\ nextKey <= MaxKeys
        /\ nextKey' = nextKey + 1
        /\ keySlot' = [keySlot EXCEPT ![d] = nextKey]
        /\ keyTable' = [keyTable EXCEPT ![d] = nextKey]
        /\ pointer' = [pointer EXCEPT ![d] = NullPtr]
        /\ births' = births + 1
        /\ alive' = [alive EXCEPT ![d] = births + 1]
        /\ Advance
        /\ UNCHANGED <<status, cell, result>>

\* What a load of a key slot gives: anything, if it has not been written.
KeyIn(d) == IF keySlot[d] = Junk THEN 0 .. nextKey - 1 ELSE {keySlot[d]}

Point(p, value) == pointer' = [pointer EXCEPT ![p] = value]

RunAssign ==
    LET i == code[pc]
    IN  /\ \/ /\ At("addr")
              /\ \E k \in KeyIn(i.var) :
                    Point(i.ptr, [to |-> i.var, key |-> k, of |-> alive[i.var]])
           \/ At("copy") /\ Point(i.ptr, pointer[i.from])
           \/ At("load") /\ Point(i.ptr, cell)
        /\ Advance
        /\ UNCHANGED <<status, keySlot, library, cell, result, lives>>

RunSave ==
    /\ At("save")
    /\ cell' = pointer[code[pc].ptr]
    /\ Advance
    /\ UNCHANGED <<status, frame, library, result, lives>>

\* The function tests its pointers for NULL; its caller does not.
RunDeref ==
    LET p == pointer[code[pc].ptr]
    IN  /\ At("deref")
        /\ \/ (p.to = None \/ Passes(p)) /\ Advance /\ UNCHANGED status
           \/ /\ p.to # None /\ ~Passes(p)
              /\ status' = "aborted"
              /\ UNCHANGED <<compiler, pc, calls>>
        /\ UNCHANGED <<frame, library, cell, result, lives>>

RunBranch ==
    /\ \/ At("branch") /\ pc' \in {pc + 1, code[pc].to}
       \/ At("jump") /\ pc' = code[pc].to
    /\ UNCHANGED <<compiler, status, frame, library, cell, result, lives, calls>>

\* __stricc_rt_deregister_stack_key, and the end of a scope.
RunExit ==
    LET i == code[pc]
    IN  /\ At("exit")
        /\ keyTable' = [d \in Decls |-> IF d \in i.release THEN NoKey ELSE keyTable[d]]
        /\ alive' = [d \in Decls |-> IF d \in i.ends THEN Dead ELSE alive[d]]
        /\ Advance
        /\ UNCHANGED <<status, frame, nextKey, cell, result, births>>

\* The caller looks the metadata of the pointer up in SHADOW_TABLE under the
\* address it holds, where an int variable has no entry: a wildcard.
RunRet ==
    LET p == code[pc].ptr
    IN  /\ At("ret")
        /\ status' = "returned"
        /\ result' = IF p = None THEN NullPtr ELSE [pointer[p] EXCEPT !.key = NoKey]
        /\ alive' = [d \in Decls |-> Dead]
        /\ keySlot' = [d \in Decls |-> Junk]
        /\ pointer' = [d \in Decls |-> NullPtr]
        /\ UNCHANGED <<compiler, pc, library, cell, births, calls>>

\* The caller calls the function again, in the same frame.
Call ==
    /\ status = "returned"
    /\ calls < MaxCalls
    /\ calls' = calls + 1
    /\ status' = "running"
    /\ pc' = 1
    /\ result' = NullPtr
    /\ UNCHANGED <<compiler, frame, library, cell, lives>>

\* The caller of a function that returns a pointer dereferences it.
CallerDeref ==
    /\ status = "returned"
    /\ "return_ptr" \in Forms
    /\ ~Passes(result)
    /\ status' = "aborted"
    /\ UNCHANGED <<compiler, pc, frame, library, cell, result, lives, calls>>

Running ==
    \/ RunDeclare \/ RunAssign \/ RunSave \/ RunDeref \/ RunBranch \/ RunExit \/ RunRet
    \/ Call \/ CallerDeref

Compiling ==
    \/ Expr \/ Compound \/ If \/ While \/ Else \/ Close \/ Return \/ Finish \/ Reject
    \/ \E n \in Names : Decl(n)
    \/ \E n \in Ints : For(n)

\* The program has ended, or it is out of keys.
Over ==
    /\ \/ status \in {"aborted", "rejected"}
       \/ status = "returned" /\ calls = MaxCalls
       \/ At("declare") /\ nextKey > MaxKeys
    /\ UNCHANGED vars

Next == Compiling \/ Running \/ Over

Spec == Init /\ [][Next]_vars

-----------------------------------------------------------------------------
(* Properties *)

Targets == Decls \cup {None}

TypeOK ==
    /\ scopes \in Seq([Names -> Targets])
    /\ \A i \in DOMAIN open :
          open[i].kind \in {"block", "if", "else", "while", "for"}
              /\ open[i].head \in 1 .. Here
    /\ variables \in [Names -> Targets]
    /\ block_locals \in Seq(SUBSET Names)
    /\ function_locals \subseteq Names
    /\ declared \in 0 .. stmts
    /\ stmts \in 0 .. MaxStmts
    /\ status \in {"compiling", "running", "returned", "aborted", "rejected"}
    /\ pc \in 1 .. Here
    /\ nextKey \in 1 .. MaxKeys + 1
    /\ keyTable \in [Decls -> Nat]
    /\ keySlot \in [Decls -> Nat \cup {Junk}]
    /\ pointer \in [Decls -> Pointer]
    /\ {cell, result} \subseteq Pointer
    /\ alive \in [Decls -> Nat]
    /\ births \in Nat
    /\ calls \in 0 .. MaxCalls

\* What the next step of the function, or its caller, may dereference.
Dereferenced ==
    IF status = "returned" THEN {result}
    ELSE IF At("deref") THEN {pointer[code[pc].ptr]} ELSE {}

\* The variable of a for loop belongs, for codegen, to the block around the loop, and is
\* released there by its name: if another loop of that block took the name, never.
IsCounter(d) == \E i \in DOMAIN code : code[i] = DeclareCounter(d)

\* A dereference that is let through finds the variable the pointer was taken
\* from alive: not one whose block was left, not one of an earlier iteration or
\* of an earlier call at the same address.  Excepted are the variables of for loops,
\* and pointers a function returns, which lose their key.
AccessLive ==
    status # "returned" => \A p \in Dereferenced : Passes(p) => Live(p) \/ IsCounter(p.to)

\* A dereference of a live variable is not reported as a use after free.
NoFalseAlarm == \A p \in Dereferenced : Live(p) => Passes(p)

\* A variable whose scope was left, on any path, has no key in KEY_TABLE, but for those
\* of for loops.
DeadVariableHasNoKey == \A d \in Decls : alive[d] = Dead => keyTable[d] = NoKey \/ IsCounter(d)
=============================================================================
