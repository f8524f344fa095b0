------------------------------- MODULE Parser -------------------------------
(***************************************************************************)
(* parser.rs: expressions and types by recursive descent, statements as    *)
(* the stack of the calls of parse_stmt that have not returned, and the    *)
(* recovery from errors, which unwinds to the innermost block or to        *)
(* parse_program and skips to where a statement may begin.                 *)
(*                                                                         *)
(* The tokens are those of a program of Syntax, with at most one token     *)
(* replaced, left out, or everything behind it cut off.                    *)
(***************************************************************************)
EXTENDS Syntax

CONSTANTS
    Sources,    \* programs written down without a slip
    Mistyped,   \* programs with one
    Slips       \* tokens put in the place of another

VARIABLES
    source,     \* the program the tokens were written from, <<>> with a slip
    tokens,     \* with "EOF" behind the last
    position,   \* the current token's
    errors,     \* whether there is any diagnostic
    calls,      \* what is being parsed: a function and statements, innermost last
    node,       \* the statement just parsed
    mode,       \* "global", "statement", "parsed", "done"
    decls

vars == <<source, tokens, position, errors, calls, node, mode, decls>>

Init ==
    /\ \/ source \in Sources /\ tokens = ProgramTokens(source) \o <<"EOF">>
       \/ /\ source = <<>>
          /\ \E program \in Mistyped :
                LET text == ProgramTokens(program)
                IN  \E i \in DOMAIN text :
                       \/ \E slip \in Slips : tokens = [text EXCEPT ![i] = slip] \o <<"EOF">>
                       \/ tokens = RemoveAt(text, i) \o <<"EOF">>
                       \/ tokens = SubSeq(text, 1, i - 1) \o <<"EOF">>
    /\ position = 1
    /\ errors = FALSE
    /\ calls = <<>>
    /\ node = None
    /\ mode = "global"
    /\ decls = <<>>

-----------------------------------------------------------------------------
(* The tokens *)

is_at_end(p) == p >= Len(tokens)
advance(p)   == IF is_at_end(p) THEN p ELSE p + 1
check(p, kinds) == ~is_at_end(p) /\ tokens[p] \in kinds

\* A call of the parser stands for the set of what it can return, which has one element:
\* the tree and the position it leaves.  A failed call has no tree.
Parsed(p, tree) == {[ok |-> TRUE, pos |-> p, tree |-> tree]}
Failed(p)       == {[ok |-> FALSE, pos |-> p, tree |-> None]}

\* The call r and, when it has not failed, Go on from its result.
Then(r, Go(_)) == UNION {IF result.ok THEN Go(result) ELSE {result} : result \in r}

\* r with its tree under a label.
As(r, Tree(_)) == Then(r, LAMBDA a : Parsed(a.pos, Tree(a.tree)))

\* r, another call made at the position r leaves, and the tree of both.
Both(r, Call(_), Tree(_, _)) ==
    Then(r, LAMBDA a : Then(Call(a.pos), LAMBDA b : Parsed(b.pos, Tree(a.tree, b.tree))))

\* r, and then a token of this kind.
consume(r, kind) ==
    Then(r, LAMBDA a : IF check(a.pos, {kind}) THEN Parsed(a.pos + 1, a.tree) ELSE Failed(a.pos))

Pair(a, b) == <<a, b>>
Second(a, b) == b

Identifier(p) == IF check(p, Identifiers) THEN Parsed(p + 1, <<tokens[p]>>) ELSE Failed(p)

TypeStarts == {"int", "char", "void", "unsigned", "const", "struct", "union", "enum", "typeof", "_Atomic"}
check_type_start(p) == check(p, TypeStarts)

-----------------------------------------------------------------------------
(* Expressions and types *)

\* Mutant of Levels: two levels in each other's place.
SwappedLevels == [Binding EXCEPT ![5] = Binding[6], ![6] = Binding[5]]

\* parse_logical_or down to parse_multiplicative.
Levels == <<{"||"}, {"&&"}, {"|"}, {"^"}, {"&"}, {"==", "!="}, {"<", "<=", ">", ">="},
            {"<<", ">>"}, {"+", "-"}, {"*", "/", "%"}>>

\* At the end of the input, advance returns the token before it.
parse_primary(p) ==
    LET q == advance(p)
    IN  IF q > 1 /\ tokens[q - 1] \in Identifiers \cup Literals
        THEN Parsed(q, <<tokens[q - 1]>>) ELSE Failed(q)

RECURSIVE parse_assignment(_), parse_level(_, _), MoreOf(_, _), parse_unary(_), parse_postfix(_),
          Arguments(_), parse_type(_), Pointers(_), SkipRestrict(_)

parse_expr(p) == parse_assignment(p)

parse_assignment(p) ==
    Then(parse_level(1, p), LAMBDA left :
        IF check(left.pos, {"="})
        THEN As(parse_assignment(left.pos + 1), LAMBDA right : <<"=", left.tree, right>>)
        ELSE {left})

parse_level(k, p) == IF k > Len(Levels) THEN parse_unary(p) ELSE MoreOf(k, parse_level(k + 1, p))

MoreOf(k, r) ==
    Then(r, LAMBDA left :
        IF check(left.pos, Levels[k])
        THEN MoreOf(k, As(parse_level(k + 1, left.pos + 1),
                          LAMBDA right : <<tokens[left.pos], left.tree, right>>))
        ELSE {left})

InParentheses(p, Call(_)) == consume(Both(consume(Parsed(p, None), "("), Call, Second), ")")
TypeOrExpr(p) == IF check_type_start(p) THEN parse_type(p) ELSE parse_expr(p)

parse_unary(p) ==
    CASE check(p, UnaryOps) -> As(parse_unary(p + 1), LAMBDA e : <<tokens[p], e>>)
      [] check(p, {"sizeof", "alignof"}) ->
             As(InParentheses(p + 1, TypeOrExpr), LAMBDA e : <<tokens[p], e>>)
      [] check(p, {"("}) /\ check_type_start(p + 1) ->
             Both(InParentheses(p, parse_type), parse_unary, LAMBDA t, e : <<"cast", t, e>>)
      [] check(p, {"("}) /\ ~check_type_start(p + 1) -> InParentheses(p, parse_expr)
      [] OTHER -> parse_postfix(parse_primary(p))

\* The expressions between commas, at least one, in one tuple.
Arguments(p) ==
    Then(parse_expr(p), LAMBDA first :
        IF check(first.pos, {","})
        THEN As(Arguments(first.pos + 1), LAMBDA rest : <<first.tree>> \o rest)
        ELSE Parsed(first.pos, <<first.tree>>))

parse_postfix(r) ==
    Then(r, LAMBDA e :
        CASE check(e.pos, {"["}) -> parse_postfix(consume(
                 As(parse_expr(e.pos + 1), LAMBDA i : <<"*", <<"+", e.tree, i>>>>), "]"))
          [] check(e.pos, {"("}) -> parse_postfix(
                 IF check(e.pos + 1, {")"}) THEN Parsed(e.pos + 2, <<"call", e.tree>>)
                 ELSE consume(As(Arguments(e.pos + 1), LAMBDA args : <<"call", e.tree>> \o args), ")"))
          [] check(e.pos, {".", "->"}) -> parse_postfix(
                 As(Identifier(e.pos + 1), LAMBDA m : <<tokens[e.pos], e.tree, m>>))
          [] check(e.pos, {"++", "--"}) -> parse_postfix(
                 Parsed(e.pos + 1, <<IF tokens[e.pos] = "++" THEN "post++" ELSE "post--", e.tree>>))
          [] OTHER -> {e})

\* unsigned and signed take the keyword behind them, when it is one of theirs.
parse_base_type(p) ==
    CASE check(p, {"int", "char", "void"}) -> Parsed(p + 1, <<tokens[p]>>)
      [] check(p, {"unsigned"}) ->
             IF check(p + 1, {"int", "char"})
             THEN Parsed(p + 2, <<IF tokens[p + 1] = "int" THEN "unsigned int" ELSE "unsigned char">>)
             ELSE Parsed(p + 1, <<"unsigned int">>)
      [] check(p, {"struct", "union", "enum"}) -> As(Identifier(p + 1), LAMBDA n : <<tokens[p], n>>)
      [] check(p, {"_Atomic"}) -> As(InParentheses(p + 1, parse_type), LAMBDA t : <<"_Atomic", t>>)
      [] check(p, {"typeof"}) -> As(InParentheses(p + 1, TypeOrExpr), LAMBDA t : <<"typeof", t>>)
      [] OTHER -> Failed(p)

SkipRestrict(p) == IF check(p, {"restrict"}) THEN SkipRestrict(p + 1) ELSE p
Pointers(r) ==
    Then(r, LAMBDA t :
        IF check(t.pos, {"*"})
        THEN Pointers(Parsed(SkipRestrict(t.pos + 1), <<"pointer", t.tree>>)) ELSE {t})

ArrayLength(p) == IF check(p, Literals) THEN Parsed(p + 1, <<tokens[p]>>) ELSE parse_expr(p)

ArraySize(r) ==
    Then(r, LAMBDA t :
        IF check(t.pos, {"["})
        THEN consume(As(ArrayLength(t.pos + 1), LAMBDA n : <<"array", t.tree, n>>), "]") ELSE {t})

parse_type(p) ==
    IF check(p, {"const"})
    THEN ArraySize(Pointers(As(parse_base_type(p + 1), LAMBDA t : <<"const", t>>)))
    ELSE ArraySize(Pointers(parse_base_type(p)))

\* type name
Named(p) == Both(parse_type(p), Identifier, Pair)

\* = e, when there is one.
Initializer(p) == IF check(p, {"="}) THEN parse_expr(p + 1) ELSE Parsed(p, None)

-----------------------------------------------------------------------------
(* Errors *)

\* Mutant of Recorded: the error is dropped.
NotRecorded(before) == before

Recorded(before) == TRUE

StatementStarts == {"struct", "union", "enum", "if", "while", "for", "switch", "return", "unsafe", "{", "}"}
SafePoint(p) == is_at_end(p) \/ tokens[p - 1] = ";" \/ tokens[p] \in StatementStarts

FirstSafe(p) == CHOOSE q \in p..Len(tokens) : SafePoint(q) /\ \A r \in p..(q - 1) : ~SafePoint(r)

\* Mutant of synchronize: it steps over the token at fault only when that is the first.
StaysPut(p) == FirstSafe(IF p = 1 THEN advance(p) ELSE p)

synchronize(p) == FirstSafe(advance(p))

\* An error raised at p leaves every call behind but the innermost block in these, where
\* parsing goes on.
Fail(p, within) ==
    LET blocks == {i \in DOMAIN within : within[i].kind = "block"}
    IN  /\ errors' = Recorded(errors)
        /\ position' = synchronize(p)
        /\ calls' = IF blocks = {} THEN <<>>
                    ELSE SubSeq(within, 1, CHOOSE i \in blocks : \A j \in blocks : j <= i)
        /\ mode' = IF blocks = {} THEN "global" ELSE "statement"
        /\ UNCHANGED <<source, tokens, node, decls>>

-----------------------------------------------------------------------------
(* Declarations of the program *)

\* type name; after type name; up to the brace.
RECURSIVE Fields(_)
Fields(r) ==
    Then(r, LAMBDA fields :
        IF check(fields.pos, {"}"}) \/ is_at_end(fields.pos) THEN {fields}
        ELSE Fields(consume(Both({fields}, Named, Append), ";")))

\* Parameters between commas; an ellipsis ends them.
RECURSIVE ParameterList(_)
ParameterList(before) ==
    IF check(before.pos, {"."})
    THEN As(consume(consume(consume({before}, "."), "."), "."), LAMBDA ps : Append(ps, <<"...">>))
    ELSE Then(Both({before}, Named, Append), LAMBDA ps :
             IF check(ps.pos, {","}) THEN ParameterList([ps EXCEPT !.pos = @ + 1]) ELSE {ps})

Parameters(p) ==
    Then(Parsed(p, <<>>), LAMBDA none : IF check(p, {")"}) THEN {none} ELSE ParameterList(none))

\* Where parsing goes on when struct or union and a name do not begin a definition.
Backtracked(p) == p

\* struct y { ... }; or union y { ... };
Definition(p) ==
    LET label == IF tokens[p] = "struct" THEN "struct definition" ELSE "union definition"
    IN  consume(consume(Fields(Parsed(p + 3, <<label, <<tokens[p + 1]>>>>)), "}"), ";")

Declares(call) ==
    \E r \in call :
        IF r.ok
        THEN /\ decls' = Append(decls, r.tree)
             /\ position' = r.pos
             /\ UNCHANGED <<source, tokens, errors, calls, node, mode>>
        ELSE Fail(r.pos, <<>>)

Variable(named) ==
    Declares(consume(Both({named}, Initializer, LAMBDA tn, e : <<"variable", tn[1], tn[2], e>>), ";"))

\* A prototype, or a function that goes on with its block.
Function(named) ==
    \E header \in consume(Both(consume({named}, "("), Parameters,
                               LAMBDA tn, ps : <<"function", tn[1], tn[2], ps>>), ")") :
        IF header.ok /\ check(header.pos, {"{"})
        THEN /\ calls' = <<[kind |-> "function", parts |-> header.tree]>>
             /\ position' = header.pos
             /\ mode' = "statement"
             /\ UNCHANGED <<source, tokens, errors, node, decls>>
        ELSE Declares(consume(As({header}, LAMBDA h : Append(h, None)), ";"))

FunctionOrVariable(p) ==
    \E named \in Named(p) :
        CASE ~named.ok -> Fail(named.pos, <<>>)
          [] named.ok /\ check(named.pos, {"("})  -> Function(named)
          [] named.ok /\ ~check(named.pos, {"("}) -> Variable(named)

IsTagged(p) == check(p, {"struct", "union"})

parse_global_decl(p) ==
    CASE ~IsTagged(p) -> FunctionOrVariable(p)
      [] IsTagged(p) /\ ~check(p + 1, Identifiers) -> Fail(p + 1, <<>>)
      [] IsTagged(p) /\ check(p + 1, Identifiers) /\ check(p + 2, {"{"}) -> Declares(Definition(p))
      [] OTHER -> FunctionOrVariable(Backtracked(p))

GlobalDecl ==
    /\ mode = "global"
    /\ ~is_at_end(position)
    /\ parse_global_decl(position)

ParseEnds ==
    /\ mode = "global"
    /\ is_at_end(position)
    /\ mode' = "done"
    /\ UNCHANGED <<source, tokens, position, errors, calls, node, decls>>

-----------------------------------------------------------------------------
(* Statements *)

Innermost == Last(calls)
AtBlockEnd == Innermost.kind = "block" /\ (check(position, {"}"}) \/ is_at_end(position))
Begins(kinds) == mode = "statement" /\ ~AtBlockEnd /\ check(position, kinds)

\* What has been parsed in front of the first statement inside goes with the call.
Enter(kind, call) ==
    \E r \in call :
        IF r.ok
        THEN /\ calls' = Append(calls, [kind |-> kind, parts |-> r.tree])
             /\ position' = r.pos
             /\ mode' = "statement"
             /\ UNCHANGED <<source, tokens, errors, node, decls>>
        ELSE Fail(r.pos, calls)

\* The innermost call returns a statement, or its error.
Return(call, outer) ==
    \E r \in call :
        IF r.ok
        THEN /\ calls' = outer
             /\ node' = r.tree
             /\ position' = r.pos
             /\ mode' = "parsed"
             /\ UNCHANGED <<source, tokens, errors, decls>>
        ELSE Fail(r.pos, outer)

Block ==
    /\ Begins({"{"})
    /\ Enter("block", Parsed(position + 1, <<"block">>))

\* The brace, or its absence at the end of the input.
BlockEnds ==
    /\ mode = "statement"
    /\ AtBlockEnd
    /\ Return(consume(Parsed(position, Innermost.parts), "}"), Front(calls))

Unsafe ==
    /\ Begins({"unsafe"})
    /\ Enter("unsafe", Parsed(position + 1, <<"unsafe">>))

IfWhileSwitch ==
    /\ Begins({"if", "while", "switch"})
    /\ Enter(tokens[position], As(InParentheses(position + 1, parse_expr),
                                 LAMBDA e : <<tokens[position], e>>))

Case ==
    /\ Begins({"case"})
    /\ Enter("case", consume(As(parse_expr(position + 1), LAMBDA e : <<"case", e>>), ":"))

Default ==
    /\ Begins({"default"})
    /\ Enter("default", consume(Parsed(position + 1, <<"default">>), ":"))

\* cond; post) of a for, with what comes before them.
ForCond(p) == IF check(p, {";"}) THEN Parsed(p + 1, None) ELSE consume(parse_expr(p), ";")
ForPost(p) == IF check(p, {")"}) THEN Parsed(p, None) ELSE parse_expr(p)
ForRest(p, init) ==
    consume(Both(ForCond(p), ForPost, LAMBDA cond, post : <<"for", init, cond, post>>), ")")

\* The first part is a statement of any kind, or its semicolon alone.
For ==
    /\ Begins({"for"})
    /\ IF check(position + 1, {"("}) /\ check(position + 2, {";"})
       THEN Enter("for", ForRest(position + 3, None))
       ELSE Enter("for init", consume(Parsed(position + 1, <<"for">>), "("))

ControlKinds == {"{", "unsafe", "if", "while", "switch", "case", "default", "for"}

\* int x[n] and its initializer.
Declaration(p) ==
    LET sized == Then(Named(p), LAMBDA tn :
            As(ArraySize(Parsed(tn.pos, tn.tree[1])), LAMBDA t : <<t, tn.tree[2]>>))
    IN  Both(sized, Initializer, LAMBDA tn, e : <<"decl", tn[1], tn[2], e>>)

Jump(p) ==
    IF check(p, {"return"})
    THEN IF check(p + 1, {";"}) THEN Parsed(p + 1, <<"return", None>>)
         ELSE As(parse_expr(p + 1), LAMBDA e : <<"return", e>>)
    ELSE Parsed(p + 1, <<tokens[p]>>)

\* Jumps, declarations and expressions; also where the input has ended.
SimpleStatement ==
    LET p == position
    IN  /\ mode = "statement"
        /\ ~AtBlockEnd
        /\ ~check(p, ControlKinds)
        /\ Return(consume(IF check(p, {"break", "continue", "return"}) THEN Jump(p)
                          ELSE IF check_type_start(p) THEN Declaration(p)
                          ELSE As(parse_expr(p), LAMBDA e : <<"expr", e>>), ";"), calls)

-----------------------------------------------------------------------------
(* The caller of parse_stmt goes on with the statement. *)

Goes(kind) == mode = "parsed" /\ Innermost.kind = kind
With(parts) == [Innermost EXCEPT !.parts = parts]

InBlock ==
    /\ Goes("block")
    /\ calls' = Append(Front(calls), With(Append(Innermost.parts, node)))
    /\ mode' = "statement"
    /\ UNCHANGED <<source, tokens, position, errors, node, decls>>

\* The branch of an if that an else follows.
InIf ==
    /\ Goes("if")
    /\ check(position, {"else"})
    /\ calls' = Append(Front(calls), [kind |-> "else", parts |-> Append(Innermost.parts, node)])
    /\ position' = position + 1
    /\ mode' = "statement"
    /\ UNCHANGED <<source, tokens, errors, node, decls>>

InForInit ==
    /\ Goes("for init")
    /\ \E r \in ForRest(position, node) :
           IF r.ok
           THEN /\ calls' = Append(Front(calls), [kind |-> "for", parts |-> r.tree])
                /\ position' = r.pos
                /\ mode' = "statement"
                /\ UNCHANGED <<source, tokens, errors, node, decls>>
           ELSE Fail(r.pos, Front(calls))

\* The statement was the last part.
LastPart ==
    /\ \/ \E kind \in {"else", "unsafe", "while", "switch", "case", "default", "for"} : Goes(kind)
       \/ Goes("if") /\ ~check(position, {"else"})
    /\ Return(Parsed(position, Append(Innermost.parts, node)), Front(calls))

FunctionEnds ==
    /\ Goes("function")
    /\ decls' = Append(decls, Append(Innermost.parts, node))
    /\ calls' = <<>>
    /\ mode' = "global"
    /\ UNCHANGED <<source, tokens, position, errors, node>>

Parsing ==
    \/ GlobalDecl \/ ParseEnds
    \/ Block \/ BlockEnds \/ Unsafe \/ IfWhileSwitch \/ Case \/ Default \/ For \/ SimpleStatement
    \/ InBlock \/ InIf \/ InForInit \/ LastPart \/ FunctionEnds

Spec == Init /\ [][Parsing]_vars

-----------------------------------------------------------------------------
(* Properties *)

\* A program as C writes it is accepted, with the structure C gives it.
ReadsAsWritten == mode = "done" /\ source # <<>> => ~errors /\ decls = source

\* Signs that trees do not keep, or in another place.
Structural == {"(", ")", "[", "]", "*", "+", "EOF"}
Words(text) == SelectSeq(text, LAMBDA t : t \notin Structural)

\* What is accepted has been read from the first token to the last: after a slip of one
\* token either an error is reported, or every token has its place in the tree.
NothingSkipped == mode = "done" /\ ~errors => Words(ProgramTokens(decls)) = Words(tokens)
=============================================================================
