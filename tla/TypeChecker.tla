----------------------------- MODULE TypeChecker -----------------------------
(***************************************************************************)
(* typechecker.rs as a walk over a program: the scopes, the depth and the  *)
(* unsafe flag it keeps while it goes through one function after another,  *)
(* which an error leaves as they are, and what it takes for a certain      *)
(* return.  The program is chosen as the walk goes on.                     *)
(*                                                                         *)
(* As history, each function is judged by C's rules of scope on its own.   *)
(* Types are left out but for one kind of error, a cast that is allowed    *)
(* only under __unsafe, and one that never is.                             *)
(***************************************************************************)
EXTENDS Naturals, FiniteSets, Sequences, SequencesExt

CONSTANTS
    Names,
    MaxStmts,       \* bound on the statements of the program
    MaxFunctions    \* bound on its functions

VARIABLES
    variables,     \* scopes of the symbol table of types, innermost last
    local_vars,    \* scopes of the table of depths
    scope_depth,
    in_unsafe,
    errors,        \* functions and declarations an error was recorded for
    open,          \* statements of the function the walk is in, innermost last
    function,      \* number of the function, 0 before the first
    returnsValue,  \* its return type is not void
    phase,         \* "toplevel", "body", "done"
    stmts,
    declared,      \* history: the names C has in scope, innermost last
    wrong,         \* history: functions and declarations C forbids
    fallsOff,      \* history: accepted functions whose end can be reached without a return
    loopReturn     \* history: a return was found in the body of a loop or a switch

tables  == <<variables, local_vars, scope_depth, in_unsafe>>
checker == <<tables, errors, open, function, returnsValue, phase, stmts>>
vars    == <<checker, declared, wrong, fallsOff, loopReturn>>

Init ==
    /\ variables = <<{}>>
    /\ local_vars = <<{}>>
    /\ scope_depth = 0
    /\ in_unsafe = FALSE
    /\ errors = {}
    /\ open = <<>>
    /\ function = 0
    /\ returnsValue = FALSE
    /\ phase = "toplevel"
    /\ stmts = 0
    /\ declared = <<{}>>
    /\ wrong = {}
    /\ fallsOff = {}
    /\ loopReturn = FALSE

-----------------------------------------------------------------------------
(* symbol_table.rs *)

lookup(table, n) == \E i \in DOMAIN table : n \in table[i]
insert(table, n) == [table EXCEPT ![Len(table)] = @ \cup {n}]
enter_scope(table) == Append(table, {})
exit_scope(table)  == IF table = <<>> THEN table ELSE Front(table)

EnterScope ==
    /\ variables' = enter_scope(variables)
    /\ local_vars' = enter_scope(local_vars)
    /\ scope_depth' = scope_depth + 1

ExitScope ==
    /\ variables' = exit_scope(variables)
    /\ local_vars' = exit_scope(local_vars)
    /\ scope_depth' = scope_depth - 1

-----------------------------------------------------------------------------
(* What a statement does to the walk. *)

Statement ==
    /\ phase = "body"
    /\ open # <<>>
    /\ stmts < MaxStmts
    /\ stmts' = stmts + 1

\* The statements so far in the innermost open one: whether the analysis takes a return
\* for certain, and whether control can come here.
Top == Last(open)
Fresh(kind, reached) ==
    [kind |-> kind, certain |-> FALSE, reached |-> reached,
     thenCertain |-> FALSE, thenReached |-> FALSE, prev_unsafe |-> in_unsafe]

SetTop(frame) == open' = [open EXCEPT ![Len(open)] = frame]

\* Mutant of Fail: the walk takes the tables up afresh after an error.
FailAfresh ==
    /\ errors' = errors \cup {<<"function", function>>}
    /\ phase' = "toplevel"
    /\ open' = <<>>
    /\ declared' = <<declared[1]>>
    /\ variables' = <<{}>> /\ local_vars' = <<{}>> /\ scope_depth' = 0 /\ in_unsafe' = FALSE
    /\ UNCHANGED <<function, returnsValue>>

\* An error is handed up by `?' to check_program: nothing is taken back.
Fail ==
    /\ errors' = errors \cup {<<"function", function>>}
    /\ phase' = "toplevel"
    /\ open' = <<>>
    /\ declared' = <<declared[1]>>
    /\ UNCHANGED <<tables, function, returnsValue>>

GoOn == UNCHANGED <<errors, phase, function, returnsValue>>

Forbid(illegal) == wrong' = IF illegal THEN wrong \cup {<<"function", function>>} ELSE wrong

InUnsafe == \E i \in DOMAIN open : open[i].kind = "unsafe"

-----------------------------------------------------------------------------
(* check_global_decl *)

\* A global variable, of one of two types when it has been declared before.
GlobalVar(n) ==
    /\ phase = "toplevel"
    /\ stmts < MaxStmts
    /\ stmts' = stmts + 1
    /\ \E sameType \in BOOLEAN :
          LET redeclared == lookup(variables, n)
              conflict == redeclared /\ ~sameType
              item == <<"global", stmts>>
          IN  /\ errors' = IF conflict THEN errors \cup {item} ELSE errors
              /\ variables' = IF redeclared THEN variables ELSE insert(variables, n)
              /\ wrong' = IF n \in declared[1] /\ ~sameType THEN wrong \cup {item} ELSE wrong
              /\ declared' = [declared EXCEPT ![1] = @ \cup {n}]
    /\ UNCHANGED <<local_vars, scope_depth, in_unsafe, open, function, returnsValue, phase>>
    /\ UNCHANGED <<fallsOff, loopReturn>>

\* A function and the compound statement that is its body.
Function(params, value) ==
    /\ phase = "toplevel"
    /\ function < MaxFunctions
    /\ function' = function + 1
    /\ returnsValue' = value
    /\ phase' = "body"
    /\ variables' = variables \o <<params, {}>>
    /\ local_vars' = local_vars \o <<params, {}>>
    /\ scope_depth' = 2
    /\ open' = <<Fresh("block", TRUE)>>
    /\ declared' = <<declared[1], params, {}>>
    /\ loopReturn' = FALSE
    /\ UNCHANGED <<in_unsafe, errors, stmts, wrong, fallsOff>>

\* The parameters' scope is closed after the definite return analysis only.
EndFunction ==
    /\ phase = "body"
    /\ Len(open) = 1
    /\ phase' = "toplevel"
    /\ open' = <<>>
    /\ IF returnsValue /\ ~Top.certain
       THEN /\ errors' = errors \cup {<<"function", function>>}
            /\ wrong' = wrong \cup {<<"function", function>>}
            /\ ExitScope
            /\ UNCHANGED fallsOff
       ELSE /\ variables' = exit_scope(exit_scope(variables))
            /\ local_vars' = exit_scope(exit_scope(local_vars))
            /\ scope_depth' = 0
            /\ fallsOff' = IF returnsValue /\ Top.reached /\ ~loopReturn
                           THEN fallsOff \cup {<<"function", function>>} ELSE fallsOff
            /\ UNCHANGED <<errors, wrong>>
    /\ declared' = <<declared[1]>>
    /\ UNCHANGED <<in_unsafe, function, returnsValue, stmts, loopReturn>>

-----------------------------------------------------------------------------
(* check_stmt *)

\* A declaration; with an initializer that takes the address of a variable, that variable
\* may not have a deeper scope, which no variable in scope has.
Decl(n) ==
    /\ Statement
    /\ variables' = insert(variables, n)
    /\ local_vars' = insert(local_vars, n)
    /\ declared' = insert(declared, n)
    /\ GoOn
    /\ UNCHANGED <<scope_depth, in_unsafe, open, wrong, fallsOff, loopReturn>>

\* An expression that names n.
Use(n) ==
    /\ Statement
    /\ IF lookup(variables, n) THEN GoOn /\ UNCHANGED <<tables, open, declared>> ELSE Fail
    /\ Forbid(~lookup(declared, n))
    /\ UNCHANGED <<fallsOff, loopReturn>>

\* A cast between pointer and integer.
Cast ==
    /\ Statement
    /\ IF in_unsafe THEN GoOn /\ UNCHANGED <<tables, open, declared>> ELSE Fail
    /\ Forbid(~InUnsafe)
    /\ UNCHANGED <<fallsOff, loopReturn>>

\* Whatever the checker refuses in any context.
IllTyped ==
    /\ Statement
    /\ Fail
    /\ Forbid(TRUE)
    /\ UNCHANGED <<fallsOff, loopReturn>>

Returned == [Top EXCEPT !.certain = TRUE, !.reached = FALSE]

\* return; or return e;
Return ==
    /\ Statement
    /\ \E value \in BOOLEAN :
          IF value = returnsValue
          THEN GoOn /\ SetTop(Returned) /\ UNCHANGED <<tables, declared, wrong>>
          ELSE Fail /\ Forbid(TRUE)
    /\ UNCHANGED <<fallsOff, loopReturn>>

\* return &n; from a function that returns a pointer.
ReturnAddress(n) ==
    /\ Statement
    /\ returnsValue
    /\ IF lookup(variables, n) /\ ~lookup(local_vars, n)
       THEN GoOn /\ SetTop(Returned) /\ UNCHANGED <<tables, declared>>
       ELSE Fail
    /\ Forbid(~lookup(declared, n) \/ lookup(Tail(declared), n))
    /\ UNCHANGED <<fallsOff, loopReturn>>

\* A statement with a block for its body.
Open(kind) ==
    /\ Statement
    /\ open' = Append(open, Fresh(kind, Top.reached))
    /\ declared' = enter_scope(declared)
    /\ GoOn
    /\ UNCHANGED <<wrong, fallsOff, loopReturn>>

Compound == Open("block") /\ EnterScope /\ UNCHANGED in_unsafe
If       == Open("if") /\ EnterScope /\ UNCHANGED in_unsafe
While    == Open("while") /\ EnterScope /\ UNCHANGED in_unsafe
Switch   == Open("switch") /\ EnterScope /\ UNCHANGED in_unsafe
Unsafe   == Open("unsafe") /\ EnterScope /\ in_unsafe' = TRUE

\* for (int n ...; ...; ...) { : a scope for n and one for the body.
For(n) ==
    /\ Statement
    /\ open' = Append(open, Fresh("for", Top.reached))
    /\ variables' = variables \o <<{n}, {}>>
    /\ local_vars' = local_vars \o <<{n}, {}>>
    /\ scope_depth' = scope_depth + 2
    /\ declared' = declared \o <<{n}, {}>>
    /\ GoOn
    /\ UNCHANGED <<in_unsafe, wrong, fallsOff, loopReturn>>

\* } else {
Else ==
    /\ Statement
    /\ Top.kind = "if"
    /\ open' = [open EXCEPT ![Len(open)] =
                   [Fresh("else", open[Len(open) - 1].reached) EXCEPT
                       !.thenCertain = Top.certain, !.thenReached = Top.reached,
                       !.prev_unsafe = Top.prev_unsafe]]
    /\ variables' = enter_scope(exit_scope(variables))
    /\ local_vars' = enter_scope(exit_scope(local_vars))
    /\ declared' = enter_scope(exit_scope(declared))
    /\ GoOn
    /\ UNCHANGED <<scope_depth, in_unsafe, wrong, fallsOff, loopReturn>>

\* Mutant of check_definite_return: an if without an else is taken for one with.
OneBranchIsEnough(s) == s.certain

\* check_definite_return of a statement whose body has been walked.
check_definite_return(s) ==
    CASE s.kind = "if"   -> FALSE
      [] s.kind = "else" -> s.thenCertain /\ s.certain
      [] OTHER           -> s.certain

\* Control can come behind it.
Passed(s, before) ==
    CASE s.kind = "if"   -> before
      [] s.kind = "else" -> s.thenReached \/ s.reached
      [] s.kind \in {"while", "for", "switch"} -> before
      [] OTHER           -> s.reached

\* Mutant of UnsafeAfter: the flag is left set.
UnsafeKept(s) == in_unsafe

UnsafeAfter(s) == IF s.kind = "unsafe" THEN s.prev_unsafe ELSE in_unsafe

ScopesOf(s) == IF s.kind = "for" THEN 2 ELSE 1
Without(table, k) == SubSeq(table, 1, Len(table) - k)

Close ==
    LET s == Top
        outer == open[Len(open) - 1]
        k == ScopesOf(s)
    IN  /\ phase = "body"
        /\ Len(open) > 1
        /\ open' = Append(Front(Front(open)),
               [outer EXCEPT !.certain = @ \/ check_definite_return(s),
                             !.reached = Passed(s, @)])
        /\ variables' = Without(variables, k)
        /\ local_vars' = Without(local_vars, k)
        /\ scope_depth' = scope_depth - k
        /\ declared' = Without(declared, k)
        /\ in_unsafe' = UnsafeAfter(s)
        /\ loopReturn' = (loopReturn \/ (s.kind \in {"while", "for", "switch"} /\ s.certain))
        /\ GoOn
        /\ UNCHANGED <<stmts, wrong, fallsOff>>

Finish ==
    /\ phase = "toplevel"
    /\ phase' = "done"
    /\ UNCHANGED <<tables, errors, open, function, returnsValue, stmts>>
    /\ UNCHANGED <<declared, wrong, fallsOff, loopReturn>>

Walk ==
    \/ \E n \in Names : GlobalVar(n) \/ Decl(n) \/ Use(n) \/ ReturnAddress(n) \/ For(n)
    \/ \E params \in SUBSET Names, value \in BOOLEAN : Function(params, value)
    \/ EndFunction \/ Cast \/ IllTyped \/ Return
    \/ Compound \/ If \/ Else \/ While \/ Switch \/ Unsafe \/ Close

Next == Walk \/ Finish

Spec == Init /\ [][Next]_vars

-----------------------------------------------------------------------------
(* Properties *)

Frame ==
    [kind : {"block", "if", "else", "while", "for", "switch", "unsafe"},
     certain : BOOLEAN, reached : BOOLEAN, thenCertain : BOOLEAN, thenReached : BOOLEAN,
     prev_unsafe : BOOLEAN]
Items == {"function", "global"} \X Nat

\* Among the rest: the depth of the scopes, a usize, never goes below zero.
TypeOK ==
    /\ variables \in Seq(SUBSET Names)
    /\ local_vars \in Seq(SUBSET Names)
    /\ scope_depth \in Nat
    /\ in_unsafe \in BOOLEAN
    /\ errors \subseteq Items
    /\ open \in Seq(Frame)
    /\ function \in Nat
    /\ returnsValue \in BOOLEAN
    /\ phase \in {"toplevel", "body", "done"}
    /\ stmts \in Nat
    /\ declared \in Seq(SUBSET Names)
    /\ wrong \subseteq Items
    /\ fallsOff \subseteq Items
    /\ loopReturn \in BOOLEAN

\* The program is accepted if and only if C, with the rules of the dialect, allows each
\* of its functions taken by itself: what the walk of one function leaves behind, after an
\* error or without one, neither lets anything pass in the next nor rejects it.
VerdictIsLocal == phase = "done" => (errors = {} <=> wrong = {})

\* An accepted function that returns a value does so on every path, unless the analysis
\* relied on the body of a loop or of a switch.
NeverFallsOff == phase = "done" /\ errors = {} => fallsOff = {}

\* What is in scope is found, and so never reported as undeclared, whatever errors the
\* walk met before and whatever scopes it left open then.
NoneForgotten == \A n \in Names : lookup(declared, n) => lookup(variables, n)
=============================================================================
