----------------------------- MODULE Expressions -----------------------------
(***************************************************************************)
(* An expression statement over variables of type int, or of type unsigned *)
(* int, in the three forms it has: what the type checker's sequence point  *)
(* analysis says of it, what the code generated for it does, and what C    *)
(* lets happen, where operands are evaluated in any order and a side       *)
(* effect takes place at any time before the next sequence point.          *)
(*                                                                         *)
(* The state machine is C's: it evaluates the expression by rewriting.     *)
(* f(a, b) is a call of a function that is only observed and returns its   *)
(* first argument.                                                         *)
(***************************************************************************)
EXTENDS Arithmetic, Sequences

CONSTANTS
    Vars,
    Initial    \* bit patterns the variables may hold before

-----------------------------------------------------------------------------
(* Expressions.  A value carries the side effects C still has to perform.  *)

Value(v, effects) == [op |-> "value", val |-> v, effects |-> effects]
Literal(v)   == Value(v, {})
Var(n)       == [op |-> "var", name |-> n]
IncDec(n, by, pre) == [op |-> "incdec", name |-> n, by |-> by, pre |-> pre]
Assign(n, e) == [op |-> "assign", name |-> n, right |-> e]
Binary(op, l, r) == [op |-> op, left |-> l, right |-> r]

-----------------------------------------------------------------------------
(* typechecker.rs *)

\* Mutant of Conflict: what the left side reads and the right side writes is overlooked.
WriteConflict(l, r) == l.writes \cap (r.writes \cup r.reads) # {}

\* check_conflicts.
Conflict(l, r) ==
    \/ l.writes \cap (r.writes \cup r.reads) # {}
    \/ r.writes \cap l.reads # {}

Joined(l, r, ok) ==
    [reads |-> l.reads \cup r.reads, writes |-> l.writes \cup r.writes,
     ok |-> l.ok /\ r.ok /\ ok]

\* get_effects; `ok' is false where it returns an error.
RECURSIVE Effects(_)
Effects(e) ==
    CASE e.op = "value"  -> [reads |-> {}, writes |-> {}, ok |-> TRUE]
      [] e.op = "var"    -> [reads |-> {e.name}, writes |-> {}, ok |-> TRUE]
      [] e.op = "incdec" -> [reads |-> {}, writes |-> {e.name}, ok |-> TRUE]
      [] e.op = "assign" ->
           LET right == Effects(e.right)
           IN  [reads |-> right.reads, writes |-> right.writes \cup {e.name},
                ok |-> right.ok /\ e.name \notin right.writes]
      [] e.op \in {"and", "or"} -> Joined(Effects(e.left), Effects(e.right), TRUE)
      [] OTHER ->
           LET l == Effects(e.left)
               r == Effects(e.right)
           IN  Joined(l, r, ~Conflict(l, r))

Accepted(e) == Effects(e).ok

-----------------------------------------------------------------------------
(* codegen.rs: what the generated code does, from left to right. *)

\* && and ||: of both operands, whatever the left one is.
Logical(op, a, b) == Truth(IF op = "and" THEN a # 0 /\ b # 0 ELSE a # 0 \/ b # 0)

Lowered(op, signed, a, b) ==
    CASE op \in ArithmeticOps -> Computed(op, signed, a, b)
      [] op \in Comparisons   -> Ok(Compared(op, a, b))
      [] op \in {"and", "or"} -> Ok(Logical(op, a, b))
      [] op = "call"          -> Ok(a)

\* The left operand decides on the operation; the type of a comparison is bool.
IsBool(e) == e.op \in Comparisons \cup {"and", "or"}

\* State of the program, result of the expression, and whether it got there.
RECURSIVE Gen(_, _, _)
Gen(e, signed, m) ==
    CASE e.op = "value" -> [ok |-> TRUE, val |-> e.val, mem |-> m]
      [] e.op = "var"   -> [ok |-> TRUE, val |-> m[e.name], mem |-> m]
      [] e.op = "incdec" ->
           LET new == Stepped(signed, m[e.name], e.by)
           IN  [ok |-> new.ok, val |-> IF e.pre THEN new.val ELSE m[e.name],
                mem |-> IF new.ok THEN [m EXCEPT ![e.name] = new.val] ELSE m]
      [] e.op = "assign" ->
           LET right == Gen(e.right, signed, m)
           IN  IF right.ok THEN [right EXCEPT !.mem[e.name] = right.val] ELSE right
      [] OTHER ->
           LET l == Gen(e.left, signed, m)
               r == Gen(e.right, signed, l.mem)
               v == Lowered(e.op, signed /\ ~IsBool(e.left), l.val, r.val)
           IN  IF ~l.ok THEN l ELSE IF ~r.ok THEN r ELSE [ok |-> v.ok, val |-> v.val, mem |-> r.mem]

-----------------------------------------------------------------------------
(* C. *)

Done(e)    == e.op = "value"
Settled(e) == Done(e) /\ e.effects = {}

To(e, m)     == [defined |-> TRUE, expr |-> e, mem |-> m]
Undefined(m) == [defined |-> FALSE, expr |-> Literal(0), mem |-> m]

Under(e, operand, steps) == {[s EXCEPT !.expr = [e EXCEPT ![operand] = s.expr]] : s \in steps}

\* What may happen next: one evaluation or one side effect.
RECURSIVE Steps(_, _, _)
Steps(e, signed, m) ==
    CASE e.op = "value" ->
           {To(Value(e.val, e.effects \ {w}), [m EXCEPT ![w.name] = w.val]) : w \in e.effects}
      [] e.op = "var" -> {To(Literal(m[e.name]), m)}
      [] e.op = "incdec" ->
           LET old == m[e.name]
               new == InC("add", signed, old, e.by)
           IN  {IF new.ok THEN To(Value(IF e.pre THEN new.val ELSE old,
                                           {[name |-> e.name, val |-> new.val]}), m)
                ELSE Undefined(m)}
      [] e.op = "assign" ->
           (IF Done(e.right)
            THEN {To(Value(e.right.val,
                              e.right.effects \cup {[name |-> e.name, val |-> e.right.val]}), m)}
            ELSE {})
           \cup Under(e, "right", Steps(e.right, signed, m))
      [] e.op \in {"and", "or"} ->
           IF ~Settled(e.left) THEN Under(e, "left", Steps(e.left, signed, m))
           ELSE IF (e.left.val = 0) = (e.op = "and") THEN {To(Literal(Truth(e.op = "or")), m)}
           ELSE (IF Done(e.right)
                 THEN {To(Value(Truth(e.right.val # 0), e.right.effects), m)} ELSE {})
                \cup Under(e, "right", Steps(e.right, signed, m))
      [] e.op = "call" /\ Settled(e.left) /\ Settled(e.right) -> {To(e.left, m)}
      [] OTHER ->
           (IF Done(e.left) /\ Done(e.right) /\ e.op # "call"
            THEN LET v == InC(e.op, signed, e.left.val, e.right.val)
                 IN  {IF v.ok THEN To(Value(v.val, e.left.effects \cup e.right.effects), m)
                      ELSE Undefined(m)}
            ELSE {})
           \cup Under(e, "left", Steps(e.left, signed, m))
           \cup Under(e, "right", Steps(e.right, signed, m))

-----------------------------------------------------------------------------
(* The expressions the program may be.                                     *)

\* int literals are signed, whatever is on the other side of an operator.
Atoms(signed) == {Var(n) : n \in Vars} \cup (IF signed THEN {Literal(1)} ELSE {})

Leaves(signed) ==
    Atoms(signed)
    \cup {IncDec(n, by, pre) : n \in Vars, by \in {1, -1}, pre \in BOOLEAN}
    \cup {Assign(n, e) : n \in Vars, e \in Atoms(signed)}

\* The right operand of && and || has no effect and cannot abort.
Pure(signed) == Atoms(signed) \cup {Binary("less", Var(n), Var(k)) : n, k \in Vars}

Pairs(signed) ==
    {Binary(op, l, r) : op \in ArithmeticOps \cup {"call"}, l, r \in Leaves(signed)}
    \cup {Binary(op, l, r) : op \in {"and", "or"}, l \in Leaves(signed), r \in Pure(signed)}

Programs(signed) ==
    Pairs(signed)
    \cup {Binary(op, l, r) : op \in Comparisons, l, r \in Leaves(signed)}
    \cup {Assign(n, e) : n \in Vars, e \in Pairs(signed)}
    \cup {Binary("and", p, l) : p \in Pairs(signed), l \in Pure(signed)}
    \cup {Binary("add", p, l) : p \in {q \in Pairs(signed) : q.op \in {"add", "call"}},
                                l \in Leaves(signed)}

-----------------------------------------------------------------------------
VARIABLES
    program,    \* the expression
    isSigned,   \* its variables are of type int
    before,     \* their values
    expr,       \* what is left to evaluate
    mem,        \* what the variables hold now
    defined     \* nothing undefined has happened

vars == <<program, isSigned, before, expr, mem, defined>>

Init ==
    /\ isSigned \in BOOLEAN
    /\ program \in Programs(isSigned)
    /\ before \in [Vars -> {Wrap(isSigned, v) : v \in Initial}]
    /\ expr = program
    /\ mem = before
    /\ defined = TRUE

Evaluate ==
    /\ Accepted(program)
    /\ defined
    /\ \E s \in Steps(expr, isSigned, mem) :
          expr' = s.expr /\ mem' = s.mem /\ defined' = s.defined
    /\ UNCHANGED <<program, isSigned, before>>

Next == Evaluate

Spec == Init /\ [][Next]_vars

-----------------------------------------------------------------------------
(* Properties *)

Compiled == Gen(program, isSigned, before)

\* Whatever order C evaluates an expression in that was accepted, the variables and the
\* result are in the end what the generated code makes them: the sequence point analysis
\* lets nothing pass whose outcome depends on the order, and no operation of the code
\* gives another result than C's.
OneOutcome ==
    defined /\ Settled(expr) /\ Accepted(program) =>
        Compiled = [ok |-> TRUE, val |-> expr.val, mem |-> mem]

\* Where C leaves the outcome undefined, the code aborts.
UndefinedAborts == ~defined => ~Compiled.ok
=============================================================================
